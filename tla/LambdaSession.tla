----------------------------- MODULE LambdaSession -----------------------------
(***************************************************************************)
(* The session of one Lambda execution environment                         *)
(* (crates/rustack-lambda-runtime/src/session.rs): an actor that takes     *)
(* events from callers (submit), hands them to the runtime process that    *)
(* polls for them (next), and returns what the runtime posts (complete,    *)
(* initialization_error) to the caller that waits.                         *)
(*                                                                         *)
(* Callers, polls and posts are futures on other threads.  Each talks to   *)
(* the actor through one command in the bounded inbox and through oneshot  *)
(* channels, whose contents are fields of call, poll and post; each may be *)
(* dropped at any await.  The actor handles a command in three steps       *)
(* (reconcile the receipt, execute, deliver), so that what the others do   *)
(* in between is seen.                                                     *)
(***************************************************************************)
EXTENDS Integers, Sequences

CONSTANTS
    Attempts,      \* invocations; an AttemptId is used once
    Polls,         \* calls of next()
    Posts,         \* calls of complete() and initialization_error()
    None,          \* no attempt, poll, post or command
    Mailbox,       \* MAILBOX_CAPACITY
    IdleLease,     \* idle_lease
    CallTimes,     \* time from submit to the deadline of an invocation
    HandlerTimes,  \* handler budgets; 0 is no budget
    CommandTimes,  \* time from sending a command to its own deadline
    Horizon,       \* BOUND: nothing new is sent after this time
    MaxTime        \* BOUND: the clock stops here, unless the actor sleeps

ASSUME SessionAssumption ==
    /\ None \notin Attempts \cup Polls \cup Posts /\ "error" \notin Attempts
    /\ Mailbox \in Nat /\ IdleLease \in Nat \ {0}
    /\ CallTimes \subseteq Nat \ {0} /\ HandlerTimes \subseteq Nat
    /\ CommandTimes \subseteq Nat \ {0}
    /\ Horizon \in Nat /\ MaxTime \in Nat

VARIABLES
    now,           \* Instant::now()
    stop,          \* the stop watch of the handle
    inbox,         \* Envelopes sent and not received
    pc,            \* where the actor is in run()
    hand,          \* the command it is handling
    phase,         \* SessionActor.phase
    held,          \* SessionActor.poll
    idle,          \* SessionActor.idle_deadline
    everDelivered, \* SessionActor.ever_delivered
    bootstrap,     \* the bootstrap watch
    initError,     \* the post whose InitError was notified
    call, poll, post  \* the futures of callers and of the runtime

actorVars == <<pc, hand, phase, held, idle, everDelivered, bootstrap, initError>>
vars == <<now, stop, inbox, actorVars, call, poll, post>>

-----------------------------------------------------------------------------
(***************************************************************************)
(* Data                                                                    *)
(***************************************************************************)
\* Result<RuntimeResult, SessionError>, with one SessionError for all; `by' is
\* the post that carried the result.
Result  == [is : {"none", "error"}] \cup [is : {"ok", "init"}, by : Posts]
Nothing       == [is |-> "none"]
Error         == [is |-> "error"]
Success(c)    == [is |-> "ok", by |-> c]
InitFailed(c) == [is |-> "init", by |-> c]
Admitted      == [is |-> "ok", by |-> None]

Command == [cmd : {"Submit"}, of : Attempts, until : Nat]
           \cup [cmd : {"Next"}, of : Polls, until : Nat]
           \cup [cmd : {"Complete", "InitError"}, of : Posts, until : Nat]

\* A caller: admitted and response are the oneshots of Command::Submit, result
\* is what submit() or the ticket finally gave.
Call == [at : {"new", "submitting", "attached", "settled"}, until : Nat, deadline : Nat,
         handler : Nat, cancelled : BOOLEAN, admitted : Result \cup {Admitted},
         response : Result, result : Result]

\* A poll: reply is the oneshot of Command::Next, receipt the one inside the
\* delivery, deadline the one the runtime is told.
Poll == [at : {"new", "waiting", "taken", "returned", "dropped"}, reply : Attempts \cup {None, "error"},
         receipt : {"none", "open", "sent", "closed"}, until : Nat, started : Nat, deadline : Nat]

\* A post and the attempt it names (the HTTP layer refuses a second, different
\* name in a header).
Post == [at : {"new", "sent"}, attempt : Attempts \cup {None}, reply : Result]

\* Phase: deadline is Pending.deadline, `poll' the one the event is offered to.
Phase == [at : {"Idle", "Closed"}]
         \cup [at : {"Queued", "Delivered"}, attempt : Attempts, deadline : Nat]
         \cup [at : {"Offering"}, attempt : Attempts, deadline : Nat, poll : Polls]

Idle   == [at |-> "Idle"]
Closed == [at |-> "Closed"]
Queued(a) == [at |-> "Queued", attempt |-> a, deadline |-> call[a].deadline]
Offering(a, p) == [at |-> "Offering", attempt |-> a, deadline |-> call[a].deadline, poll |-> p]
Delivered(a, deadline) == [at |-> "Delivered", attempt |-> a, deadline |-> deadline]

Pending == phase.at \in {"Queued", "Offering", "Delivered"}

Init ==
    /\ now = 0 /\ stop = FALSE /\ inbox = <<>>
    /\ pc = "select" /\ hand = None /\ phase = Idle /\ held = None /\ idle = IdleLease
    /\ everDelivered = FALSE /\ bootstrap = FALSE /\ initError = None
    /\ call = [a \in Attempts |-> [at |-> "new", until |-> 0, deadline |-> 0, handler |-> 0, cancelled |-> FALSE,
                                   admitted |-> Nothing, response |-> Nothing, result |-> Nothing]]
    /\ poll = [p \in Polls |-> [at |-> "new", reply |-> None, receipt |-> "none", until |-> 0,
                                started |-> 0, deadline |-> 0]]
    /\ post = [c \in Posts |-> [at |-> "new", attempt |-> None, reply |-> Nothing]]

\* Invocation::timing: the deadline of a delivery that was consumed at `started'.
Timing(a, started) ==
    IF call[a].handler > 0 /\ started + call[a].handler < call[a].deadline
    THEN started + call[a].handler
    ELSE call[a].deadline

\* Pending::check fails.
Expired(a, deadline) == now >= deadline \/ call[a].cancelled

-----------------------------------------------------------------------------
(***************************************************************************)
(* Callers                                                                 *)
(***************************************************************************)
\* SessionHandle::send; a send that is refused has no effect and is left out.
Send(cmd, of, time) ==
    /\ now <= Horizon /\ ~stop /\ pc # "ended" /\ Len(inbox) < Mailbox
    /\ inbox' = Append(inbox, [cmd |-> cmd, of |-> of, until |-> now + time])

Submit(a) ==
    /\ call[a].at = "new"
    /\ \E d \in CallTimes, h \in HandlerTimes, time \in CommandTimes :
          /\ Send("Submit", a, time)
          /\ call' = [call EXCEPT ![a].at = "submitting", ![a].until = now + time,
                                  ![a].deadline = now + d, ![a].handler = h]
    /\ UNCHANGED <<now, stop, actorVars, poll, post>>

\* submit() returns.  An error, a deadline or a dropped future drops the ticket,
\* which cancels the attempt.
Submitted(a) ==
    /\ call[a].at = "submitting"
    /\ \/ /\ call[a].admitted = Admitted /\ now < call[a].until
          /\ call' = [call EXCEPT ![a].at = "attached"]
       \/ call' = [call EXCEPT ![a].at = "settled", ![a].cancelled = TRUE,
                               ![a].result = Error]
    /\ UNCHANGED <<now, stop, inbox, actorVars, poll, post>>

Cancel(a) ==
    /\ call[a].at = "attached" /\ ~call[a].cancelled
    /\ call' = [call EXCEPT ![a].cancelled = TRUE]
    /\ UNCHANGED <<now, stop, inbox, actorVars, poll, post>>

\* InvocationTicket::result; dropping the ticket instead is Cancel.
Settle(a) ==
    /\ call[a].at = "attached"
    /\ Expired(a, call[a].deadline) \/ call[a].response # Nothing
    /\ call' = [call EXCEPT ![a].at = "settled",
                            ![a].cancelled = @ \/ now >= call[a].deadline,
                            ![a].result = IF Expired(a, call[a].deadline) THEN Error
                                          ELSE call[a].response]
    /\ UNCHANGED <<now, stop, inbox, actorVars, poll, post>>

-----------------------------------------------------------------------------
(***************************************************************************)
(* The runtime process, behind the HTTP server                             *)
(***************************************************************************)
NextPoll(p) ==
    /\ poll[p].at = "new"
    /\ Send("Next", p, IdleLease)
    /\ poll' = [poll EXCEPT ![p].at = "waiting", ![p].until = now + IdleLease]
    /\ UNCHANGED <<now, stop, actorVars, call, post>>

\* next() receives a delivery and looks at the clock ...
TakeDelivery(p) ==
    /\ poll[p].at = "waiting" /\ poll[p].reply \in Attempts
    /\ LET effective == Timing(poll[p].reply, now)
       IN  /\ now < poll[p].until /\ now < effective
           /\ poll' = [poll EXCEPT ![p].at = "taken", ![p].started = now, ![p].deadline = effective]
    /\ UNCHANGED <<now, stop, inbox, actorVars, call, post>>

\* ... and then sends the receipt, which fails if the actor gave the offer up.
SendReceipt(p) ==
    /\ poll[p].at = "taken"
    /\ poll' = [poll EXCEPT ![p] = IF phase.at = "Offering" /\ phase.poll = p
                                   THEN [@ EXCEPT !.at = "returned", !.receipt = "sent"]
                                   ELSE [@ EXCEPT !.at = "dropped", !.receipt = "closed"]]
    /\ UNCHANGED <<now, stop, inbox, actorVars, call, post>>

\* next() fails, expires or, while it waits, is dropped with its connection; a
\* delivery it has not acknowledged is dropped with it.
EndPoll(p) ==
    /\ poll[p].at = "waiting" \/ (poll[p].at = "taken" /\ now >= poll[p].deadline)
    /\ poll' = [poll EXCEPT ![p].at = "dropped",
                            ![p].receipt = IF @ = "open" THEN "closed" ELSE @]
    /\ UNCHANGED <<now, stop, inbox, actorVars, call, post>>

\* The runtime may post a result for any attempt, at any time, repeatedly.
PostResult(c) ==
    /\ post[c].at = "new"
    /\ \E a \in Attempts, time \in CommandTimes :
          /\ Send("Complete", c, time)
          /\ post' = [post EXCEPT ![c].at = "sent", ![c].attempt = a]
    /\ UNCHANGED <<now, stop, actorVars, call, poll>>

PostInitError(c) ==
    /\ post[c].at = "new"
    /\ \E time \in CommandTimes : Send("InitError", c, time)
    /\ post' = [post EXCEPT ![c].at = "sent"]
    /\ UNCHANGED <<now, stop, actorVars, call, poll>>

\* SessionHandle::close: by the owner, or after a broken connection.
Close ==
    /\ ~stop /\ pc # "ended" /\ stop' = TRUE
    /\ UNCHANGED <<now, inbox, actorVars, call, poll, post>>

-----------------------------------------------------------------------------
(***************************************************************************)
(* The actor: SessionActor::run                                            *)
(***************************************************************************)
\* reject(): the oneshots of the commands in cs get an error.
RejectCalls(cs) ==
    [a \in Attempts |-> IF \E c \in cs : c.cmd = "Submit" /\ c.of = a
                        THEN [call[a] EXCEPT !.admitted = Error, !.response = Error] ELSE call[a]]
RejectPolls(cs) ==
    [p \in Polls |-> IF \E c \in cs : c.cmd = "Next" /\ c.of = p
                     THEN [poll[p] EXCEPT !.reply = "error"] ELSE poll[p]]
RejectPosts(cs) ==
    [c \in Posts |-> IF \E d \in cs : d.cmd \in {"Complete", "InitError"} /\ d.of = c
                     THEN [post[c] EXCEPT !.reply = Error] ELSE post[c]]

\* The command in hand is rejected by command(), those in the inbox are dropped
\* with it, which closes their oneshots.
Unhandled == {inbox[i] : i \in DOMAIN inbox} \cup ({hand} \ {None})

\* close() and the break that always follows it: the pending attempt gets
\* `answer', the held poll and all commands an error.
CloseWith(answer) ==
    /\ pc' = "ended" /\ phase' = Closed /\ held' = None /\ hand' = None /\ inbox' = <<>>
    /\ call' = LET rejected == RejectCalls(Unhandled)
               IN  IF Pending THEN [rejected EXCEPT ![phase.attempt].response = answer] ELSE rejected
    /\ poll' = LET rejected == RejectPolls(Unhandled)
               IN  IF held # None THEN [rejected EXCEPT ![held].reply = "error"] ELSE rejected

CloseError ==
    /\ CloseWith(Error)
    /\ post' = RejectPosts(Unhandled)
    /\ UNCHANGED <<idle, bootstrap, initError>>

ReceiptReady == phase.at = "Offering" /\ poll[phase.poll].receipt \in {"sent", "closed"}

\* Mutant: the handler budget counts from the time the actor sees the receipt.
ConsumedNow(p) == now

\* The instant in the receipt of poll p.
ConsumedAt(p) == poll[p].started

\* Mutant: an event always goes back to the queue.
RequeueAlways(a, consumed, deadline) == Queued(a)

\* The phase after a receipt, or after an offer that was dropped.
AfterOffer(a, consumed, deadline) == IF consumed THEN Delivered(a, deadline) ELSE Queued(a)

\* received(): the offer was consumed, and its clock runs, or it was dropped.
Received(next) ==
    LET a        == phase.attempt
        consumed == poll[phase.poll].receipt = "sent"
        deadline == IF consumed THEN Timing(a, ConsumedAt(phase.poll)) ELSE phase.deadline
    IN  /\ everDelivered' = (everDelivered \/ consumed)
        /\ IF Expired(a, deadline)
           THEN CloseError
           ELSE /\ phase' = AfterOffer(a, consumed, deadline)
                /\ pc' = next
                /\ UNCHANGED <<inbox, hand, held, idle, bootstrap, initError, call, poll, post>>

\* The head of the loop and the select it leads to are one state: what the head
\* looks at, stop and the receipt, the select waits for as well.  The select is
\* biased, but its branches are polled one after another and a timer may fire
\* late, so a branch may be taken although an earlier one has become ready.
Stopped ==
    /\ pc = "select" /\ stop
    /\ CloseError
    /\ UNCHANGED <<now, stop, everDelivered>>

\* The instant the select sleeps until.
Wake == IF Pending THEN phase.deadline ELSE idle

\* Mutant: only an idle session has a deadline.
DueWhenIdle == ~Pending /\ now >= Wake

\* Mutant: a poll that waits keeps the session alive.
DueUnlessPolled == (Pending \/ held = None) /\ now >= Wake

Due == now >= Wake

\* The branch on sleep_until.
TimerFires ==
    /\ pc = "select" /\ Due
    /\ IF ReceiptReady THEN Received("select") ELSE CloseError /\ UNCHANGED everDelivered
    /\ UNCHANGED <<now, stop>>

\* The branch on phase.event(), and reconcile_receipt() at the head of the loop.
PhaseEvent ==
    /\ pc = "select"
    /\ \/ /\ Pending /\ call[phase.attempt].cancelled
          /\ CloseError
          /\ UNCHANGED everDelivered
       \/ ReceiptReady /\ Received("select")
    /\ UNCHANGED <<now, stop>>

\* The branch on inbox.recv(), with the deadline of the command.
Receive ==
    /\ pc = "select" /\ inbox # <<>>
    /\ inbox' = Tail(inbox)
    /\ LET c == Head(inbox)
       IN  IF now >= c.until
           THEN /\ call' = RejectCalls({c}) /\ poll' = RejectPolls({c}) /\ post' = RejectPosts({c})
                /\ UNCHANGED <<pc, hand>>
           ELSE pc' = "command" /\ hand' = c /\ UNCHANGED <<call, poll, post>>
    /\ UNCHANGED <<now, stop, phase, held, idle, everDelivered, bootstrap, initError>>

\* command() begins with reconcile_receipt() ...
CommandReceipt ==
    /\ pc = "command"
    /\ \/ ReceiptReady /\ Received("execute")
       \/ /\ ~ReceiptReady /\ pc' = "execute"
          /\ UNCHANGED <<inbox, hand, phase, held, idle, everDelivered, bootstrap, initError, call,
                         poll, post>>
    /\ UNCHANGED <<now, stop>>

\* ... and with the checks common to all commands.
Broken == stop \/ (Pending /\ Expired(phase.attempt, phase.deadline))

ExecuteBroken ==
    /\ pc = "execute" /\ Broken
    /\ CloseError
    /\ UNCHANGED <<now, stop, everDelivered>>

Executing(cmds) == pc = "execute" /\ ~Broken /\ hand.cmd \in cmds

\* Mutant: a command that is refused clears the idle deadline.
ExecutedNoLease(accepted) ==
    /\ pc' = "deliver" /\ hand' = None
    /\ idle' = IF accepted THEN now + IdleLease ELSE None
    /\ UNCHANGED <<now, stop, inbox, everDelivered, initError>>

\* The command is done; an accepted one renews the idle lease.
Executed(accepted) ==
    /\ pc' = "deliver" /\ hand' = None
    /\ idle' = IF accepted THEN now + IdleLease ELSE idle
    /\ UNCHANGED <<now, stop, inbox, everDelivered, initError>>

ExecuteSubmit ==
    /\ Executing({"Submit"})
    /\ LET a == hand.of
       IN  IF phase # Idle \/ Expired(a, call[a].deadline)
           THEN /\ call' = [call EXCEPT ![a].admitted = Error]
                /\ Executed(FALSE) /\ UNCHANGED phase
           ELSE /\ call' = [call EXCEPT ![a].admitted = Admitted]
                /\ phase' = Queued(a)
                /\ Executed(TRUE)
    /\ UNCHANGED <<held, bootstrap, poll, post>>

\* Mutant: an offer that may come back does not keep other polls out.
NextBusyUnlessOffered == phase.at = "Delivered" \/ (held # None /\ poll[held].at = "waiting")

\* An event is with the runtime, or another poll waits.
NextBusy == phase.at \in {"Offering", "Delivered"} \/ (held # None /\ poll[held].at = "waiting")

ExecuteNext ==
    /\ Executing({"Next"})
    /\ LET p == hand.of
       IN  \/ /\ NextBusy
              /\ poll' = [poll EXCEPT ![p].reply = "error"]
              /\ Executed(FALSE) /\ UNCHANGED <<held, bootstrap>>
           \/ /\ ~NextBusy /\ poll[p].at # "waiting"
              /\ Executed(FALSE) /\ UNCHANGED <<held, bootstrap, poll>>
           \/ /\ ~NextBusy /\ poll[p].at = "waiting"
              /\ held' = p /\ bootstrap' = TRUE
              /\ Executed(TRUE) /\ UNCHANGED poll
    /\ UNCHANGED <<phase, call, post>>

\* Mutant: the attempt a post names is not compared.
ValidForAny(c) == phase.at = "Delivered"

\* The post names the attempt that was delivered.
Valid(c) == phase.at = "Delivered" /\ phase.attempt = post[c].attempt

ExecuteComplete ==
    /\ Executing({"Complete"})
    /\ LET c == hand.of
       IN  IF Valid(c)
           THEN /\ call' = [call EXCEPT ![phase.attempt].response = Success(c)]
                /\ post' = [post EXCEPT ![c].reply = Success(c)]
                /\ phase' = Idle
                /\ Executed(TRUE)
           ELSE /\ post' = [post EXCEPT ![c].reply = Error]
                /\ Executed(FALSE) /\ UNCHANGED <<call, phase>>
    /\ UNCHANGED <<held, bootstrap, poll>>

ExecuteInitError ==
    /\ Executing({"InitError"})
    /\ LET c == hand.of
       IN  IF everDelivered
           THEN /\ post' = [post EXCEPT ![c].reply = Error]
                /\ Executed(FALSE) /\ UNCHANGED <<phase, held, call, poll>>
           ELSE /\ CloseWith(InitFailed(c))
                /\ post' = [RejectPosts(Unhandled) EXCEPT ![c].reply = InitFailed(c)]
                /\ initError' = c
                /\ UNCHANGED <<now, stop, idle, everDelivered>>
    /\ UNCHANGED bootstrap

\* Mutant: the event of a poll that has gone is lost.
OfferedOrLost(a, p) == IF poll[p].at = "waiting" THEN Offering(a, p) ELSE Idle

\* The event is offered to the poll, or kept when the poll has gone.
Offered(a, p) == IF poll[p].at = "waiting" THEN Offering(a, p) ELSE Queued(a)

\* deliver(): a queued event meets a held poll.
Deliver ==
    /\ pc = "deliver"
    /\ \/ /\ phase.at = "Queued" /\ held # None /\ Expired(phase.attempt, phase.deadline)
          /\ CloseError
       \/ /\ phase.at = "Queued" /\ held # None /\ ~Expired(phase.attempt, phase.deadline)
          /\ phase' = Offered(phase.attempt, held)
          /\ poll' = IF poll[held].at = "waiting"
                     THEN [poll EXCEPT ![held].reply = phase.attempt, ![held].receipt = "open"]
                     ELSE poll
          /\ held' = None /\ pc' = "select"
          /\ UNCHANGED <<inbox, hand, idle, bootstrap, initError, call, post>>
       \/ /\ phase.at # "Queued" \/ held = None
          /\ pc' = "select"
          /\ UNCHANGED <<inbox, hand, phase, held, idle, bootstrap, initError, call, poll, post>>
    /\ UNCHANGED <<now, stop, everDelivered>>

ActorStep ==
    \/ Stopped \/ TimerFires \/ PhaseEvent \/ Receive \/ CommandReceipt \/ ExecuteBroken
    \/ ExecuteSubmit \/ ExecuteNext \/ ExecuteComplete \/ ExecuteInitError \/ Deliver

\* The clock.  It stops with the actor, and at MaxTime, except that an actor
\* that sleeps until a later instant gets there.
Tick ==
    /\ pc # "ended" /\ (now < MaxTime \/ (pc = "select" /\ now < Wake))
    /\ now' = now + 1
    /\ UNCHANGED <<stop, inbox, actorVars, call, poll, post>>

Next ==
    \/ ActorStep
    \/ \E a \in Attempts : Submit(a) \/ Submitted(a) \/ Cancel(a) \/ Settle(a)
    \/ \E p \in Polls : NextPoll(p) \/ TakeDelivery(p) \/ SendReceipt(p) \/ EndPoll(p)
    \/ \E c \in Posts : PostResult(c) \/ PostInitError(c)
    \/ Close \/ Tick

Spec == Init /\ [][Next]_vars

\* The actor is a task of a multi-threaded runtime and never blocks; its timers
\* fire; time goes on.  Callers and the runtime process promise nothing.
Fairness == WF_vars(ActorStep) /\ WF_vars(Tick)

FairSpec == Spec /\ Fairness

-----------------------------------------------------------------------------
(***************************************************************************)
(* Properties                                                              *)
(***************************************************************************)
\* Every variable has its type.
TypeOK ==
    /\ now \in Nat /\ stop \in BOOLEAN /\ inbox \in Seq(Command)
    /\ pc \in {"select", "command", "execute", "deliver", "ended"}
    /\ hand \in Command \cup {None} /\ phase \in Phase /\ held \in Polls \cup {None}
    /\ idle \in Nat /\ everDelivered \in BOOLEAN /\ bootstrap \in BOOLEAN
    /\ initError \in Posts \cup {None}
    /\ call \in [Attempts -> Call] /\ poll \in [Polls -> Poll] /\ post \in [Posts -> Post]

\* The runtime holds attempt a: some next() has returned it.
Returned(a) == \E p \in Polls : poll[p].at = "returned" /\ poll[p].reply = a

\* An event is given to the runtime at most once, although an offer whose poll
\* went away is queued and offered again.
DeliveredAtMostOnce ==
    /\ \A p, q \in Polls : poll[p].at = "returned" /\ poll[q].at = "returned" =>
          poll[p].reply # poll[q].reply \/ p = q
    /\ phase.at = "Queued" => ~Returned(phase.attempt)

\* The actor and the runtime agree on the deadline of a delivered event, also
\* when it had been offered before: both count the handler budget from the
\* moment the delivery was consumed.
DeadlinesAgree ==
    phase.at = "Delivered" =>
       \E p \in Polls : /\ poll[p].at = "returned" /\ poll[p].reply = phase.attempt
                        /\ poll[p].deadline = phase.deadline

\* A caller that holds a ticket is answered already, or the actor has its
\* attempt: nobody waits for a session that has forgotten it.
TicketOwned ==
    \A a \in Attempts : call[a].at = "attached" =>
       call[a].response # Nothing \/ (Pending /\ phase.attempt = a)

\* What a caller gets as its result was posted for its own attempt, by a runtime
\* that had received the event: complete() takes nothing for an attempt that is
\* queued, offered, finished or another's.
ResultIsOwn ==
    \A a \in Attempts : call[a].result.is = "ok" =>
       post[call[a].result.by].attempt = a /\ Returned(a)

\* deliver() runs after commands only, yet the actor does not go to sleep on a queued event while a poll waits for it.
NoLostWakeup == pc = "select" /\ phase.at = "Queued" /\ held # None => poll[held].at # "waiting"

\* initialization_error() is accepted, and a caller told InitError, only if no
\* next() has given the runtime an event.
InitErrorBeforeDelivery ==
    initError # None => \A p \in Polls : poll[p].at # "returned"

\* An attempt that submit() admitted is answered by the actor, whatever the
\* runtime and the caller do: its phase always has a deadline.
AttemptAnswered == \A a \in Attempts : call[a].admitted = Admitted ~> call[a].response # Nothing

\* A next() that waits is answered: with an event, or when the idle lease ends
\* the session.
PollAnswered == \A p \in Polls : poll[p].at = "waiting" ~>
                                     poll[p].at # "waiting" \/ poll[p].reply # None
=============================================================================
