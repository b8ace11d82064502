------------------------- MODULE LambdaSessionProofs -------------------------
(***************************************************************************)
(* Theorems about the Lambda runtime session, for every number of callers, *)
(* polls and posts, every mailbox capacity, lease, deadline and budget.    *)
(***************************************************************************)
EXTENDS LambdaSession, TLAPS

(***************************************************************************)
(* The inductive invariant.                                                *)
(***************************************************************************)
\* command() is running.
Handling == pc \in {"command", "execute"}

\* A command that is not handled yet has an owner that has sent it, and none of
\* its oneshots has been used.
Unanswered(c) ==
    /\ c.cmd = "Submit" => call[c.of].at # "new" /\ call[c.of].admitted = Nothing
    /\ c.cmd = "Next" => poll[c.of].at # "new" /\ poll[c.of].reply = None /\ held # c.of
    /\ c.cmd \in {"Complete", "InitError"} => post[c.of].at = "sent"

SameSender(c, d) == c.cmd = d.cmd /\ c.of = d.of

\* Every future sends its command once.
InboxInv ==
    /\ \A i \in DOMAIN inbox : Unanswered(inbox[i])
    /\ \A i, j \in DOMAIN inbox : SameSender(inbox[i], inbox[j]) => i = j

HandInv ==
    /\ Handling => /\ hand \in Command /\ Unanswered(hand)
                   /\ \A i \in DOMAIN inbox : ~SameSender(inbox[i], hand)
    /\ ~Handling => hand = None

\* A result that came from the runtime for attempt a.
Own(r, a) == r.is = "ok" => post[r.by].at = "sent" /\ post[r.by].attempt = a /\ Returned(a)

CallInv ==
    \A a \in Attempts :
       /\ call[a].at = "new" => call[a].admitted = Nothing
       /\ call[a].at = "attached" => call[a].admitted = Admitted
       /\ call[a].admitted = Admitted =>
             call[a].response # Nothing \/ (Pending /\ phase.attempt = a)
       /\ Own(call[a].response, a) /\ Own(call[a].result, a)

PollInv ==
    \A p \in Polls :
       /\ poll[p].at = "new" => poll[p].reply = None
       /\ poll[p].at = "returned" <=> poll[p].receipt = "sent"
       /\ poll[p].at \in {"taken", "returned"} =>
             /\ poll[p].reply \in Attempts
             /\ poll[p].deadline = Timing(poll[p].reply, poll[p].started)
       /\ poll[p].reply \in Attempts => call[poll[p].reply].admitted = Admitted

\* The runtime has not got attempt a, unless through poll p.
OnlyReturnedBy(a, p) == \A q \in Polls : poll[q].at = "returned" /\ poll[q].reply = a => q = p

PhaseInv ==
    /\ Pending => call[phase.attempt].admitted = Admitted
    /\ phase.at = "Offering" => /\ poll[phase.poll].reply = phase.attempt
                                /\ OnlyReturnedBy(phase.attempt, phase.poll)
    /\ phase.at \in {"Offering", "Delivered"} => held = None

HeldInv ==
    /\ held # None => poll[held].at # "new" /\ poll[held].reply = None
    /\ pc # "deliver" /\ phase.at = "Queued" /\ held # None => poll[held].at # "waiting"

SessionInv ==
    /\ InboxInv /\ HandInv /\ CallInv /\ PollInv /\ PhaseInv /\ HeldInv
    /\ DeliveredAtMostOnce /\ DeadlinesAgree

Inv == TypeOK /\ SessionInv

-----------------------------------------------------------------------------
(***************************************************************************)
(* Types                                                                   *)
(***************************************************************************)
LEMMA ResultType ==
    /\ Nothing \in Result /\ Error \in Result
    /\ \A c \in Posts : Success(c) \in Result /\ InitFailed(c) \in Result
BY DEF Result, Nothing, Error, Success, InitFailed

\* The deadlines an executor computes are deadlines.
LEMMA TimingType ==
    ASSUME TypeOK, NEW a \in Attempts, NEW s \in Nat
    PROVE  Timing(a, s) \in Nat
<1>1. call[a].handler \in Nat /\ call[a].deadline \in Nat
  BY DEF TypeOK, Call
<1> QED
  BY <1>1 DEF Timing

\* What the phase of a pending attempt holds.
LEMMA PhaseType ==
    ASSUME TypeOK
    PROVE  /\ Pending => phase.attempt \in Attempts /\ phase.deadline \in Nat
           /\ phase.at = "Offering" => phase.poll \in Polls
           /\ phase.at \in {"Idle", "Closed", "Queued", "Offering", "Delivered"}
BY DEF TypeOK, Phase, Pending

\* The phases a session moves to are phases.
LEMMA NewPhaseType ==
    ASSUME TypeOK, NEW a \in Attempts, NEW p \in Polls, NEW d \in Nat
    PROVE  /\ Idle \in Phase /\ Closed \in Phase /\ Queued(a) \in Phase
           /\ Offering(a, p) \in Phase /\ Delivered(a, d) \in Phase
<1>1. call[a].deadline \in Nat
  BY DEF TypeOK, Call
<1> QED
  BY <1>1 DEF Phase, Idle, Closed, Queued, Offering, Delivered

\* What a command names.
LEMMA CommandType ==
    ASSUME NEW c \in Command
    PROVE  /\ c.cmd \in {"Submit", "Next", "Complete", "InitError"}
           /\ c.cmd = "Submit" => c.of \in Attempts
           /\ c.cmd = "Next" => c.of \in Polls
           /\ c.cmd \in {"Complete", "InitError"} => c.of \in Posts
BY DEF Command

\* Rejecting every call, poll and post that waits keeps their types.
LEMMA RejectType ==
    ASSUME TypeOK, NEW cs
    PROVE  /\ RejectCalls(cs) \in [Attempts -> Call]
           /\ RejectPolls(cs) \in [Polls -> Poll]
           /\ RejectPosts(cs) \in [Posts -> Post]
<1>1. \A r \in Call : [r EXCEPT !.admitted = Error, !.response = Error] \in Call
  BY ResultType DEF Call
<1>2. \A r \in Poll : [r EXCEPT !.reply = "error"] \in Poll
  BY DEF Poll
<1>3. \A r \in Post : [r EXCEPT !.reply = Error] \in Post
  BY ResultType DEF Post
<1>4. RejectCalls(cs) \in [Attempts -> Call]
  BY <1>1 DEF RejectCalls, TypeOK
<1>5. RejectPolls(cs) \in [Polls -> Poll]
  BY <1>2 DEF RejectPolls, TypeOK
<1>6. RejectPosts(cs) \in [Posts -> Post]
  BY <1>3 DEF RejectPosts, TypeOK
<1> QED
  BY <1>4, <1>5, <1>6

-----------------------------------------------------------------------------
(***************************************************************************)
(* What answering commands leaves alone                                    *)
(***************************************************************************)
\* A poll that had no reply may have got an error; nothing else changed.
PollsSettled ==
    \A p \in Polls :
       /\ poll'[p].at = poll[p].at /\ poll'[p].receipt = poll[p].receipt
       /\ poll'[p].started = poll[p].started /\ poll'[p].deadline = poll[p].deadline
       /\ \/ poll'[p].reply = poll[p].reply
          \/ poll[p].at # "new" /\ poll[p].reply = None /\ poll'[p].reply = "error"

\* Callers keep their deadlines; one whose submit was not handled may have got
\* an error, and one that was admitted stays so.
CallsSettled ==
    \A a \in Attempts :
       /\ call'[a].at = call[a].at /\ call'[a].result = call[a].result
       /\ call'[a].deadline = call[a].deadline /\ call'[a].handler = call[a].handler
       /\ \/ call'[a].admitted = call[a].admitted
          \/ call[a].at # "new" /\ call[a].admitted = Nothing /\ call'[a].admitted = Error

PostsSettled ==
    \A c \in Posts : post'[c].at = post[c].at /\ post'[c].attempt = post[c].attempt

\* The polls that have returned are the same.
LEMMA SettledReturned ==
    ASSUME PollInv, PollsSettled
    PROVE  /\ \A p \in Polls : poll[p].at = "returned" => poll'[p].reply = poll[p].reply
           /\ \A a \in Attempts : Returned(a)' <=> Returned(a)
           /\ \A a \in Attempts, p \in Polls : OnlyReturnedBy(a, p)' <=> OnlyReturnedBy(a, p)
<1>1. \A p \in Polls : poll[p].at = "returned" => poll'[p].reply = poll[p].reply
  BY SessionAssumption DEF PollInv, PollsSettled
<1>2. \A p \in Polls : poll'[p].at = poll[p].at
  BY DEF PollsSettled
<1> QED
  BY <1>1, <1>2 DEF Returned, OnlyReturnedBy

\* Settling polls and calls keeps what is known of every poll.
LEMMA SettledPolls ==
    ASSUME PollInv, PollsSettled, CallsSettled
    PROVE  PollInv'
<1> SUFFICES ASSUME NEW p \in Polls
             PROVE  /\ poll'[p].at = "new" => poll'[p].reply = None
                    /\ poll'[p].at = "returned" <=> poll'[p].receipt = "sent"
                    /\ poll'[p].at \in {"taken", "returned"} =>
                          /\ poll'[p].reply \in Attempts
                          /\ poll'[p].deadline = Timing(poll[p].reply, poll[p].started)'
                    /\ poll'[p].reply \in Attempts => call'[poll'[p].reply].admitted = Admitted
  BY DEF PollInv
<1>1. /\ poll'[p].at = poll[p].at /\ poll'[p].receipt = poll[p].receipt
      /\ poll'[p].started = poll[p].started /\ poll'[p].deadline = poll[p].deadline
      /\ \/ poll'[p].reply = poll[p].reply
         \/ poll[p].at # "new" /\ poll[p].reply = None /\ poll'[p].reply = "error"
  BY DEF PollsSettled
<1>2. /\ poll[p].at = "new" => poll[p].reply = None
      /\ poll[p].at = "returned" <=> poll[p].receipt = "sent"
      /\ poll[p].at \in {"taken", "returned"} =>
            /\ poll[p].reply \in Attempts
            /\ poll[p].deadline = Timing(poll[p].reply, poll[p].started)
      /\ poll[p].reply \in Attempts => call[poll[p].reply].admitted = Admitted
  BY DEF PollInv
<1>3. None \notin Attempts /\ "error" \notin Attempts
  BY SessionAssumption
<1>4. ASSUME poll[p].at \in {"taken", "returned"}
      PROVE  /\ poll'[p].reply \in Attempts
             /\ poll'[p].deadline = Timing(poll[p].reply, poll[p].started)'
  <2>1. poll'[p].reply = poll[p].reply /\ poll[p].reply \in Attempts
    BY <1>1, <1>2, <1>3, <1>4
  <2>2. Timing(poll[p].reply, poll[p].started)' = Timing(poll[p].reply, poll[p].started)
    BY <1>1, <2>1 DEF Timing, CallsSettled
  <2> QED
    BY <1>1, <1>2, <1>4, <2>1, <2>2
<1>5. ASSUME poll'[p].reply \in Attempts
      PROVE  call'[poll'[p].reply].admitted = Admitted
  <2>1. poll'[p].reply = poll[p].reply
    BY <1>1, <1>3, <1>5
  <2>2. call[poll[p].reply].admitted = Admitted
    BY <1>2, <1>5, <2>1
  <2>3. Admitted # Nothing
    BY DEF Admitted, Nothing
  <2> QED
    BY <1>5, <2>1, <2>2, <2>3 DEF CallsSettled
<1> QED
  BY <1>1, <1>2, <1>4, <1>5

\* Commands that are not among those answered stay unanswered.
LEMMA SettledDelivered ==
    ASSUME TypeOK, PollInv, PollsSettled, DeliveredAtMostOnce, phase'.at # "Queued" \/ phase' = phase
    PROVE  DeliveredAtMostOnce'
<1>1. ASSUME NEW p \in Polls, NEW q \in Polls,
             poll'[p].at = "returned", poll'[q].at = "returned", poll'[p].reply = poll'[q].reply
      PROVE  p = q
  <2>1. poll[p].at = "returned" /\ poll[q].at = "returned"
    BY <1>1 DEF PollsSettled
  <2>2. poll'[p].reply = poll[p].reply /\ poll'[q].reply = poll[q].reply
    BY <2>1, SettledReturned
  <2> QED
    BY <1>1, <2>1, <2>2 DEF DeliveredAtMostOnce
<1>2. ASSUME phase'.at = "Queued"
      PROVE  ~Returned(phase.attempt)'
  <2>1. phase' = phase /\ ~Returned(phase.attempt)
    BY <1>2 DEF DeliveredAtMostOnce
  <2>2. phase.attempt \in Attempts
    BY <1>2, <2>1, PhaseType DEF Pending
  <2> QED
    BY <2>1, <2>2, SettledReturned
<1> QED
  BY <1>1, <1>2 DEF DeliveredAtMostOnce

\* The results callers have got remain their own.
LEMMA SettledOwn ==
    ASSUME PollInv, PollsSettled, PostsSettled, NEW r \in Result, NEW a \in Attempts, Own(r, a)
    PROVE  Own(r, a)'
<1>1. r.is = "ok" => r.by \in Posts
  BY DEF Result
<1> QED
  BY <1>1, SettledReturned DEF Own, PostsSettled

-----------------------------------------------------------------------------
(***************************************************************************)
(* Rejecting commands, and the end of the session                          *)
(***************************************************************************)
LEMMA UnhandledUnanswered ==
    ASSUME TypeOK, InboxInv, HandInv
    PROVE  \A c \in Unhandled : c \in Command /\ Unanswered(c)
<1>1. \A i \in DOMAIN inbox : inbox[i] \in Command /\ Unanswered(inbox[i])
  BY DEF TypeOK, InboxInv
<1>2. hand # None => hand \in Command /\ Unanswered(hand)
  BY DEF HandInv
<1> QED
  BY <1>1, <1>2 DEF Unhandled

\* reject() touches only what has not been answered.
LEMMA RejectEffect ==
    ASSUME TypeOK, NEW cs, \A c \in cs : c \in Command /\ Unanswered(c)
    PROVE  /\ \A a \in Attempts :
                 \/ RejectCalls(cs)[a] = call[a]
                 \/ /\ call[a].at # "new" /\ call[a].admitted = Nothing
                    /\ RejectCalls(cs)[a] = [call[a] EXCEPT !.admitted = Error, !.response = Error]
           /\ \A p \in Polls :
                 \/ RejectPolls(cs)[p] = poll[p]
                 \/ /\ poll[p].at # "new" /\ poll[p].reply = None
                    /\ RejectPolls(cs)[p] = [poll[p] EXCEPT !.reply = "error"]
           /\ \A c \in Posts :
                 \/ RejectPosts(cs)[c] = post[c]
                 \/ RejectPosts(cs)[c] = [post[c] EXCEPT !.reply = Error]
<1>1. \A a \in Attempts : (\E c \in cs : c.cmd = "Submit" /\ c.of = a)
         => call[a].at # "new" /\ call[a].admitted = Nothing
  BY DEF Unanswered
<1>2. \A p \in Polls : (\E c \in cs : c.cmd = "Next" /\ c.of = p)
         => poll[p].at # "new" /\ poll[p].reply = None
  BY DEF Unanswered
<1>3. \A a \in Attempts :
         \/ RejectCalls(cs)[a] = call[a]
         \/ /\ call[a].at # "new" /\ call[a].admitted = Nothing
            /\ RejectCalls(cs)[a] = [call[a] EXCEPT !.admitted = Error, !.response = Error]
  BY <1>1, Zenon DEF RejectCalls
<1>4. \A p \in Polls :
         \/ RejectPolls(cs)[p] = poll[p]
         \/ /\ poll[p].at # "new" /\ poll[p].reply = None
            /\ RejectPolls(cs)[p] = [poll[p] EXCEPT !.reply = "error"]
  BY <1>2, Zenon DEF RejectPolls
<1>5. \A c \in Posts :
         \/ RejectPosts(cs)[c] = post[c]
         \/ RejectPosts(cs)[c] = [post[c] EXCEPT !.reply = Error]
  BY Zenon DEF RejectPosts
<1> QED
  BY <1>3, <1>4, <1>5

\* The posts after reject().
LEMMA RejectPostsSettles ==
    ASSUME TypeOK, NEW cs, post' = RejectPosts(cs)
    PROVE  PostsSettled
<1>1. \A c \in Posts : post[c] \in Post
  BY DEF TypeOK
<1>2. \A c \in Posts : post'[c] = post[c] \/ post'[c] = [post[c] EXCEPT !.reply = Error]
  BY Zenon DEF RejectPosts
<1>3. SUFFICES ASSUME NEW c \in Posts
               PROVE  post'[c].at = post[c].at /\ post'[c].attempt = post[c].attempt
  BY DEF PostsSettled
<1> QED
  BY <1>1, <1>2 DEF Post

\* Closing the session keeps the types of what it empties.
LEMMA CloseTypes ==
    ASSUME Inv, NEW answer \in Result, CloseWith(answer)
    PROVE  /\ inbox' \in Seq(Command) /\ pc' = "ended" /\ hand' = None /\ phase' \in Phase
           /\ held' = None /\ call' \in [Attempts -> Call] /\ poll' \in [Polls -> Poll]
<1> DEFINE rc == RejectCalls(Unhandled)
           rp == RejectPolls(Unhandled)
<1>1. rc \in [Attempts -> Call] /\ rp \in [Polls -> Poll]
  BY RejectType DEF Inv
<1>2. call' = IF Pending THEN [rc EXCEPT ![phase.attempt].response = answer] ELSE rc
  BY DEF CloseWith
<1>3. poll' = IF held # None THEN [rp EXCEPT ![held].reply = "error"] ELSE rp
  BY DEF CloseWith
<1> HIDE DEF rc, rp
<1>4. call' \in [Attempts -> Call]
  <2>1. \A r \in Call : [r EXCEPT !.response = answer] \in Call
    BY DEF Call
  <2> QED
    BY <1>1, <1>2, <2>1
<1>5. poll' \in [Polls -> Poll]
  <2>1. \A r \in Poll : [r EXCEPT !.reply = "error"] \in Poll
    BY DEF Poll
  <2> QED
    BY <1>1, <1>3, <2>1
<1> QED
  BY <1>4, <1>5 DEF CloseWith, Closed, Phase

\* Closing the session settles its polls and calls; the pending one gets the answer.
LEMMA CloseSettles ==
    ASSUME Inv, NEW answer \in Result, CloseWith(answer)
    PROVE  /\ PollsSettled /\ CallsSettled
           /\ \A a \in Attempts : /\ call'[a].response \in {call[a].response, Error, answer}
                                  /\ Pending /\ phase.attempt = a => call'[a].response = answer
           /\ \A a \in Attempts : call'[a].admitted = Admitted /\ ~(Pending /\ phase.attempt = a)
                                     => call'[a].response = call[a].response
<1> DEFINE rc == RejectCalls(Unhandled)
           rp == RejectPolls(Unhandled)
<1>1. rc \in [Attempts -> Call] /\ rp \in [Polls -> Poll]
  BY RejectType DEF Inv
<1>2. call' = IF Pending THEN [rc EXCEPT ![phase.attempt].response = answer] ELSE rc
  BY DEF CloseWith
<1>3. poll' = IF held # None THEN [rp EXCEPT ![held].reply = "error"] ELSE rp
  BY DEF CloseWith
<1>4. /\ \A a \in Attempts :
            \/ rc[a] = call[a]
            \/ /\ call[a].at # "new" /\ call[a].admitted = Nothing
               /\ rc[a] = [call[a] EXCEPT !.admitted = Error, !.response = Error]
      /\ \A p \in Polls :
            \/ rp[p] = poll[p]
            \/ /\ poll[p].at # "new" /\ poll[p].reply = None
               /\ rp[p] = [poll[p] EXCEPT !.reply = "error"]
  BY UnhandledUnanswered, RejectEffect DEF Inv, SessionInv
<1>5. \A a \in Attempts : call[a] \in Call
  BY DEF Inv, TypeOK
<1>6. \A p \in Polls : poll[p] \in Poll
  BY DEF Inv, TypeOK
<1> HIDE DEF rc, rp
<1>7. ASSUME NEW p \in Polls
      PROVE  /\ poll'[p].at = poll[p].at /\ poll'[p].receipt = poll[p].receipt
             /\ poll'[p].started = poll[p].started /\ poll'[p].deadline = poll[p].deadline
             /\ \/ poll'[p].reply = poll[p].reply
                \/ poll[p].at # "new" /\ poll[p].reply = None /\ poll'[p].reply = "error"
  <2>1. \/ poll'[p] = rp[p]
        \/ p = held /\ held # None /\ poll'[p] = [rp[p] EXCEPT !.reply = "error"]
    BY <1>1, <1>3
  <2>2. held # None => poll[held].at # "new" /\ poll[held].reply = None
    BY DEF Inv, SessionInv, HeldInv
  <2>3. /\ rp[p].at = poll[p].at /\ rp[p].receipt = poll[p].receipt
        /\ rp[p].started = poll[p].started /\ rp[p].deadline = poll[p].deadline
        /\ \/ rp[p].reply = poll[p].reply
           \/ poll[p].at # "new" /\ poll[p].reply = None /\ rp[p].reply = "error"
    BY <1>4, <1>6 DEF Poll
  <2>4. rp[p] \in Poll
    BY <1>1
  <2> QED
    BY <2>1, <2>2, <2>3, <2>4 DEF Poll
<1>8. ASSUME NEW a \in Attempts
      PROVE  /\ call'[a].at = call[a].at /\ call'[a].result = call[a].result
             /\ call'[a].deadline = call[a].deadline /\ call'[a].handler = call[a].handler
             /\ \/ call'[a].admitted = call[a].admitted
                \/ call[a].at # "new" /\ call[a].admitted = Nothing /\ call'[a].admitted = Error
             /\ call'[a].response \in {call[a].response, Error, answer}
             /\ Pending /\ phase.attempt = a => call'[a].response = answer
             /\ call'[a].admitted = Admitted /\ ~(Pending /\ phase.attempt = a)
                   => call'[a].response = call[a].response
  <2>1. /\ Pending /\ phase.attempt = a => call'[a] = [rc[a] EXCEPT !.response = answer]
        /\ ~(Pending /\ phase.attempt = a) => call'[a] = rc[a]
    BY <1>1, <1>2
  <2>2. /\ rc[a].at = call[a].at /\ rc[a].result = call[a].result
        /\ rc[a].deadline = call[a].deadline /\ rc[a].handler = call[a].handler
        /\ \/ rc[a].admitted = call[a].admitted /\ rc[a].response = call[a].response
           \/ /\ call[a].at # "new" /\ call[a].admitted = Nothing
              /\ rc[a].admitted = Error /\ rc[a].response = Error
    BY <1>4, <1>5 DEF Call
  <2>3. rc[a] \in Call
    BY <1>1
  <2>4. Error # Admitted
    BY DEF Error, Admitted
  <2> QED
    BY <2>1, <2>2, <2>3, <2>4 DEF Call
<1>9. PollsSettled
  BY <1>7 DEF PollsSettled
<1>10. CallsSettled
  BY <1>8 DEF CallsSettled
<1> QED
  BY <1>8, <1>9, <1>10

\* The end of the session keeps the invariant.
LEMMA CloseInv ==
    ASSUME Inv, NEW answer \in Result, answer # Nothing, answer.is # "ok", CloseWith(answer),
           PostsSettled
    PROVE  SessionInv'
<1>1. /\ pc' = "ended" /\ hand' = None /\ held' = None /\ inbox' = <<>> /\ phase' = Closed
  BY DEF CloseWith
<1>2. phase'.at = "Closed" /\ ~Pending'
  BY <1>1 DEF Closed, Pending
<1>3. /\ PollsSettled /\ CallsSettled
      /\ \A a \in Attempts : /\ call'[a].response \in {call[a].response, Error, answer}
                             /\ Pending /\ phase.attempt = a => call'[a].response = answer
      /\ \A a \in Attempts : call'[a].admitted = Admitted /\ ~(Pending /\ phase.attempt = a)
                                => call'[a].response = call[a].response
  BY CloseSettles
<1>4. PollInv'
  BY <1>3, SettledPolls DEF Inv, SessionInv
<1>5. DeliveredAtMostOnce'
  BY <1>2, <1>3, SettledDelivered DEF Inv, SessionInv
<1>6. InboxInv' /\ HandInv' /\ PhaseInv' /\ HeldInv' /\ DeadlinesAgree'
  BY <1>1, <1>2 DEF InboxInv, HandInv, Handling, PhaseInv, HeldInv, DeadlinesAgree
<1>7. ASSUME NEW a \in Attempts
      PROVE  /\ call'[a].at = "new" => call'[a].admitted = Nothing
             /\ call'[a].at = "attached" => call'[a].admitted = Admitted
             /\ call'[a].admitted = Admitted => call'[a].response # Nothing
             /\ Own(call[a].response, a)' /\ Own(call[a].result, a)'
  <2>1. /\ call[a].at = "new" => call[a].admitted = Nothing
        /\ call[a].at = "attached" => call[a].admitted = Admitted
        /\ call[a].admitted = Admitted => call[a].response # Nothing \/ (Pending /\ phase.attempt = a)
        /\ Own(call[a].response, a) /\ Own(call[a].result, a)
    BY DEF Inv, SessionInv, CallInv
  <2>2. call[a].response \in Result /\ call[a].result \in Result
    BY DEF Inv, TypeOK, Call
  <2>3. /\ call'[a].at = call[a].at /\ call'[a].result = call[a].result
        /\ \/ call'[a].admitted = call[a].admitted
           \/ call[a].at # "new" /\ call[a].admitted = Nothing /\ call'[a].admitted = Error
    BY <1>3 DEF CallsSettled
  <2>4. Error # Admitted /\ Nothing # Admitted /\ Error.is # "ok" /\ Error # Nothing
    BY DEF Error, Nothing, Admitted
  <2>5. Own(call[a].response, a)' /\ Own(call[a].result, a)'
    <3>1. \A r \in Result : Own(r, a) => Own(r, a)'
      BY <1>3, SettledOwn DEF Inv, SessionInv
    <3>2. Own(call[a].result, a)'
      BY <2>1, <2>2, <2>3, <3>1
    <3>3. CASE call'[a].response = call[a].response
      BY <2>1, <2>2, <3>1, <3>2, <3>3
    <3>4. CASE call'[a].response \in {Error, answer}
      BY <2>4, <3>2, <3>4 DEF Own
    <3> QED
      BY <1>3, <3>3, <3>4
  <2>6. call'[a].admitted = Admitted => call'[a].response # Nothing
    BY <1>3, <2>1, <2>3, <2>4
  <2> QED
    BY <2>1, <2>3, <2>4, <2>5, <2>6
<1>8. CallInv'
  BY <1>7 DEF CallInv
<1> QED
  BY <1>4, <1>5, <1>6, <1>8 DEF SessionInv

\* close() with an error, in whatever handler it happens.
LEMMA CloseErrorInv ==
    ASSUME Inv, CloseError, UNCHANGED <<now, stop>>, everDelivered' \in BOOLEAN
    PROVE  Inv'
<1>1. CloseWith(Error) /\ post' = RejectPosts(Unhandled) /\ UNCHANGED <<idle, bootstrap, initError>>
  BY DEF CloseError
<1>2. Error \in Result /\ Error # Nothing /\ Error.is # "ok"
  BY ResultType DEF Error, Nothing
<1>3. PostsSettled
  BY <1>1, RejectPostsSettles DEF Inv
<1>4. SessionInv'
  BY <1>1, <1>2, <1>3, CloseInv
<1>5. post' \in [Posts -> Post]
  BY <1>1, RejectType DEF Inv
<1>6. TypeOK'
  BY <1>1, <1>2, <1>5, CloseTypes DEF Inv, TypeOK
<1> QED
  BY <1>4, <1>6 DEF Inv

-----------------------------------------------------------------------------
(***************************************************************************)
(* The inbox                                                               *)
(***************************************************************************)
\* A future that has not sent a command yet sends one.
LEMMA SendKeeps ==
    ASSUME TypeOK, InboxInv, HandInv, NEW c \in Command, inbox' = Append(inbox, c),
           UNCHANGED <<pc, hand>>, Unanswered(c)',
           \A d \in Command : Unanswered(d) => Unanswered(d)' /\ ~SameSender(d, c)
    PROVE  inbox' \in Seq(Command) /\ InboxInv' /\ HandInv'
<1>1. inbox \in Seq(Command) /\ inbox' \in Seq(Command)
  BY DEF TypeOK
<1>2. /\ DOMAIN inbox = 1..Len(inbox) /\ Len(inbox) \in Nat
      /\ DOMAIN inbox' = 1..(Len(inbox) + 1)
      /\ \A i \in DOMAIN inbox : inbox'[i] = inbox[i] /\ inbox[i] \in Command
      /\ inbox'[Len(inbox) + 1] = c
  BY <1>1
<1>3. \A i \in DOMAIN inbox : Unanswered(inbox[i])' /\ ~SameSender(inbox[i], c)
  <2>1. \A i \in DOMAIN inbox : Unanswered(inbox[i])
    BY DEF InboxInv
  <2> QED
    BY <1>2, <2>1
<1>4. InboxInv'
  <2>1. \A i \in DOMAIN inbox' : Unanswered(inbox[i])'
    BY <1>2, <1>3
  <2>2. ASSUME NEW i \in DOMAIN inbox', NEW j \in DOMAIN inbox', SameSender(inbox'[i], inbox'[j])
        PROVE  i = j
    <3>1. CASE i \in DOMAIN inbox /\ j \in DOMAIN inbox
      BY <1>2, <2>2, <3>1 DEF InboxInv
    <3>2. CASE i \in DOMAIN inbox /\ j = Len(inbox) + 1
      BY <1>2, <1>3, <2>2, <3>2
    <3>3. CASE j \in DOMAIN inbox /\ i = Len(inbox) + 1
      BY <1>2, <1>3, <2>2, <3>3 DEF SameSender
    <3> QED
      BY <1>2, <3>1, <3>2, <3>3
  <2> QED
    BY <2>1, <2>2 DEF InboxInv
<1>5. HandInv'
  <2>1. ASSUME Handling
        PROVE  Unanswered(hand)' /\ \A i \in DOMAIN inbox' : ~SameSender(inbox'[i], hand)
    <3>1. hand \in Command /\ Unanswered(hand) /\ \A i \in DOMAIN inbox : ~SameSender(inbox[i], hand)
      BY <2>1 DEF HandInv
    <3>2. Unanswered(hand)' /\ ~SameSender(hand, c)
      BY <3>1
    <3> QED
      BY <1>2, <3>1, <3>2 DEF SameSender
  <2> QED
    BY <2>1 DEF HandInv, Handling
<1> QED
  BY <1>1, <1>4, <1>5

\* Nothing is sent or handled, and what was unanswered stays so.
LEMMA CommandsKept ==
    ASSUME TypeOK, InboxInv, HandInv, UNCHANGED <<inbox, pc, hand>>,
           \A d \in Command : Unanswered(d) => Unanswered(d)'
    PROVE  InboxInv' /\ HandInv'
<1>1. \A i \in DOMAIN inbox : inbox[i] \in Command
  BY DEF TypeOK
<1>2. InboxInv'
  BY <1>1 DEF InboxInv
<1>3. HandInv'
  BY DEF HandInv, Handling
<1> QED
  BY <1>2, <1>3

-----------------------------------------------------------------------------
(***************************************************************************)
(* Callers                                                                 *)
(***************************************************************************)
\* Nothing but callers moves, and the actor's side of their channels stays.
LEMMA CallerKeeps ==
    ASSUME Inv, UNCHANGED <<inbox, pc, hand, phase, held, poll, post>>,
           \A b \in Attempts : /\ call'[b].admitted = call[b].admitted
                               /\ call'[b].deadline = call[b].deadline
                               /\ call'[b].handler = call[b].handler
                               /\ call[b].at # "new" => call'[b].at # "new"
    PROVE  /\ InboxInv' /\ HandInv' /\ PollInv' /\ PhaseInv' /\ HeldInv'
           /\ DeliveredAtMostOnce' /\ DeadlinesAgree'
           /\ \A a \in Attempts, r \in Result : Own(r, a) => Own(r, a)'
<1>1. \A d \in Command : Unanswered(d) => Unanswered(d)'
  BY CommandType DEF Unanswered
<1>2. InboxInv' /\ HandInv'
  BY <1>1, CommandsKept DEF Inv, SessionInv
<1>3. \A a \in Attempts, s \in Nat : Timing(a, s)' = Timing(a, s)
  BY DEF Timing
<1>4. PollInv'
  <2>1. \A p \in Polls : poll[p].started \in Nat
    BY DEF Inv, TypeOK, Poll
  <2> QED
    BY <1>3, <2>1 DEF Inv, SessionInv, PollInv
<1>5. PhaseInv' /\ HeldInv' /\ DeliveredAtMostOnce' /\ DeadlinesAgree'
  <2>1. \A a \in Attempts : Returned(a)' <=> Returned(a)
    BY DEF Returned
  <2>2. PhaseInv'
    BY PhaseType DEF Inv, SessionInv, PhaseInv, Pending, OnlyReturnedBy
  <2>3. HeldInv'
    BY DEF Inv, SessionInv, HeldInv
  <2>4. DeliveredAtMostOnce'
    BY <2>1, PhaseType DEF Inv, SessionInv, DeliveredAtMostOnce, Pending
  <2>5. DeadlinesAgree'
    BY DEF Inv, SessionInv, DeadlinesAgree
  <2> QED
    BY <2>2, <2>3, <2>4, <2>5
<1>6. \A a \in Attempts, r \in Result : Own(r, a) => Own(r, a)'
  BY DEF Own, Returned
<1> QED
  BY <1>2, <1>4, <1>5, <1>6

\* A submission keeps the invariant.
LEMMA SubmitInv ==
    ASSUME Inv, NEW a \in Attempts, Submit(a)
    PROVE  Inv'
<1>1. PICK d \in CallTimes, h \in HandlerTimes, time \in CommandTimes :
         /\ Send("Submit", a, time)
         /\ call' = [call EXCEPT ![a].at = "submitting", ![a].until = now + time,
                                 ![a].deadline = now + d, ![a].handler = h]
  BY DEF Submit
<1>2. d \in Nat /\ h \in Nat /\ time \in Nat /\ now \in Nat
  BY SessionAssumption DEF Inv, TypeOK
<1>3. /\ call[a].at = "new" /\ call[a].admitted = Nothing
      /\ UNCHANGED <<now, stop, pc, hand, phase, held, idle, everDelivered, bootstrap, initError,
                     poll, post>>
  BY DEF Submit, Inv, SessionInv, CallInv, actorVars
<1>4. call \in [Attempts -> Call] /\ call[a] \in Call
  BY DEF Inv, TypeOK
<1>5. /\ call'[a] = [call[a] EXCEPT !.at = "submitting", !.until = now + time,
                                    !.deadline = now + d, !.handler = h]
      /\ \A b \in Attempts : b # a => call'[b] = call[b]
  BY <1>1, <1>4
<1>6. /\ call'[a] \in Call /\ call'[a].at = "submitting" /\ call'[a].admitted = call[a].admitted
      /\ call'[a].response = call[a].response /\ call'[a].result = call[a].result
  <2>1. now + time \in Nat /\ now + d \in Nat
    BY <1>2
  <2> QED
    BY <1>2, <1>4, <1>5, <2>1 DEF Call
<1>7. call' \in [Attempts -> Call]
  BY <1>1, <1>4, <1>5, <1>6
<1>8. Nothing # Admitted
  BY DEF Nothing, Admitted
<1>9. PICK c \in Command : c.cmd = "Submit" /\ c.of = a /\ inbox' = Append(inbox, c)
  BY <1>1, <1>2 DEF Send, Command
<1>10. inbox' \in Seq(Command) /\ InboxInv' /\ HandInv'
  <2>1. Unanswered(c)'
    BY <1>3, <1>6, <1>9 DEF Unanswered
  <2>2. ASSUME NEW e \in Command, Unanswered(e)
        PROVE  Unanswered(e)' /\ ~SameSender(e, c)
    <3>1. e.cmd = "Submit" => e.of \in Attempts /\ e.of # a
      BY <1>3, <2>2, CommandType DEF Unanswered
    <3>2. e.cmd = "Submit" => call'[e.of] = call[e.of]
      BY <1>5, <3>1
    <3> QED
      BY <1>3, <1>9, <2>2, <3>1, <3>2 DEF Unanswered, SameSender
  <2> QED
    BY <1>3, <1>9, <2>1, <2>2, SendKeeps DEF Inv, SessionInv
<1>11. /\ \A p \in Polls : poll[p].reply # a
       /\ Pending => phase.attempt # a
  BY <1>3, <1>8 DEF Inv, SessionInv, PollInv, PhaseInv
<1>12. PollInv'
  <2>1. \A b \in Attempts, s \in Nat : b # a => Timing(b, s)' = Timing(b, s)
    BY <1>5 DEF Timing
  <2>2. \A p \in Polls : poll[p].started \in Nat
    BY DEF Inv, TypeOK, Poll
  <2> QED
    BY <1>3, <1>5, <1>11, <2>1, <2>2 DEF Inv, SessionInv, PollInv
<1>13. PhaseInv'
  BY <1>3, <1>5, <1>6, PhaseType DEF Inv, SessionInv, PhaseInv, Pending, OnlyReturnedBy
<1>14. HeldInv' /\ DeliveredAtMostOnce' /\ DeadlinesAgree'
  BY <1>3 DEF Inv, SessionInv, HeldInv, DeliveredAtMostOnce, DeadlinesAgree, Returned
<1>15. CallInv'
  <2>1. \A b \in Attempts : /\ call'[b].admitted = call[b].admitted
                            /\ call'[b].response = call[b].response
                            /\ call'[b].result = call[b].result
                            /\ b # a => call'[b].at = call[b].at
    BY <1>5, <1>6
  <2> QED
    BY <1>3, <1>6, <2>1 DEF Inv, SessionInv, CallInv, Own, Returned, Pending
<1>16. TypeOK'
  BY <1>3, <1>7, <1>10 DEF Inv, TypeOK
<1> QED
  BY <1>10, <1>12, <1>13, <1>14, <1>15, <1>16 DEF Inv, SessionInv

\* A caller moves on, taking at most the response it was sent.
LEMMA CallerMoves ==
    ASSUME Inv, NEW a \in Attempts, call' \in [Attempts -> Call],
           UNCHANGED <<now, stop, inbox, actorVars, poll, post>>,
           \A b \in Attempts : b # a => call'[b] = call[b],
           call'[a].admitted = call[a].admitted, call'[a].response = call[a].response,
           call'[a].deadline = call[a].deadline, call'[a].handler = call[a].handler,
           call'[a].at # "new", call'[a].at = "attached" => call[a].admitted = Admitted,
           call'[a].result \in {call[a].result, call[a].response, Error}
    PROVE  Inv'
<1>1. UNCHANGED <<now, stop, inbox, pc, hand, phase, held, idle, everDelivered, bootstrap,
                  initError, poll, post>>
  BY DEF actorVars
<1>2. /\ InboxInv' /\ HandInv' /\ PollInv' /\ PhaseInv' /\ HeldInv'
      /\ DeliveredAtMostOnce' /\ DeadlinesAgree'
      /\ \A b \in Attempts, r \in Result : Own(r, b) => Own(r, b)'
  BY <1>1, CallerKeeps
<1>3. CallInv'
  <2>1. Error.is # "ok"
    BY DEF Error
  <2>2. \A b \in Attempts : call[b].response \in Result /\ call[b].result \in Result
    BY DEF Inv, TypeOK, Call
  <2>3. Pending' <=> Pending
    BY <1>1 DEF Pending
  <2>4. \A b \in Attempts : Own(call[b].response, b)' /\ Own(call[b].result, b)'
    <3>1. \A b \in Attempts : Own(call[b].response, b) /\ Own(call[b].result, b)
      BY DEF Inv, SessionInv, CallInv
    <3>2. \A b \in Attempts : b # a => Own(call[b].response, b)' /\ Own(call[b].result, b)'
      BY <1>2, <2>2, <3>1
    <3>3. Own(call[a].response, a)'
      BY <1>2, <2>2, <3>1
    <3>4. Own(call[a].result, a)'
      <4>1. CASE call'[a].result \in {call[a].result, call[a].response}
        BY <1>2, <2>2, <3>1, <4>1
      <4>2. CASE call'[a].result = Error
        BY <2>1, <4>2 DEF Own
      <4> QED
        BY <4>1, <4>2
    <3> QED
      BY <3>2, <3>3, <3>4
  <2> QED
    BY <1>1, <2>3, <2>4 DEF Inv, SessionInv, CallInv
<1>4. TypeOK'
  BY <1>1 DEF Inv, TypeOK
<1> QED
  BY <1>2, <1>3, <1>4 DEF Inv, SessionInv

\* The answer to a submission keeps the invariant.
LEMMA SubmittedInv ==
    ASSUME Inv, NEW a \in Attempts, Submitted(a)
    PROVE  Inv'
<1>1. \/ call[a].admitted = Admitted /\ call' = [call EXCEPT ![a].at = "attached"]
      \/ call' = [call EXCEPT ![a].at = "settled", ![a].cancelled = TRUE, ![a].result = Error]
  BY DEF Submitted
<1>2. call \in [Attempts -> Call] /\ call[a] \in Call /\ Error \in Result
  BY ResultType DEF Inv, TypeOK
<1>3. \A b \in Attempts : b # a => call'[b] = call[b]
  BY <1>1, <1>2
<1>4. /\ call'[a] \in Call /\ call'[a].admitted = call[a].admitted
      /\ call'[a].response = call[a].response
      /\ call'[a].deadline = call[a].deadline /\ call'[a].handler = call[a].handler
      /\ \/ call'[a].at = "attached" /\ call[a].admitted = Admitted /\ call'[a].result = call[a].result
         \/ call'[a].at = "settled" /\ call'[a].result = Error
  BY <1>1, <1>2 DEF Call
<1>5. call' \in [Attempts -> Call]
  BY <1>1, <1>2, <1>4
<1> QED
  BY <1>3, <1>4, <1>5, CallerMoves DEF Submitted

\* A cancellation keeps the invariant.
LEMMA CancelInv ==
    ASSUME Inv, NEW a \in Attempts, Cancel(a)
    PROVE  Inv'
<1>1. call[a].at = "attached" /\ call' = [call EXCEPT ![a].cancelled = TRUE]
  BY DEF Cancel
<1>2. call \in [Attempts -> Call] /\ call[a] \in Call
  BY DEF Inv, TypeOK
<1>3. \A b \in Attempts : b # a => call'[b] = call[b]
  BY <1>1, <1>2
<1>4. /\ call'[a] \in Call /\ call'[a].admitted = call[a].admitted
      /\ call'[a].response = call[a].response /\ call'[a].result = call[a].result
      /\ call'[a].deadline = call[a].deadline /\ call'[a].handler = call[a].handler
      /\ call'[a].at = "attached"
  BY <1>1, <1>2 DEF Call
<1>5. call' \in [Attempts -> Call]
  BY <1>1, <1>2, <1>4
<1>6. call[a].admitted = Admitted
  BY <1>1 DEF Inv, SessionInv, CallInv
<1> QED
  BY <1>3, <1>4, <1>5, <1>6, CallerMoves DEF Cancel

\* Settling an attempt keeps the invariant.
LEMMA SettleInv ==
    ASSUME Inv, NEW a \in Attempts, Settle(a)
    PROVE  Inv'
<1>1. PICK e \in BOOLEAN, r \in {call[a].response, Error} :
         call' = [call EXCEPT ![a].at = "settled", ![a].cancelled = e, ![a].result = r]
  <2>1. call \in [Attempts -> Call] /\ call[a].cancelled \in BOOLEAN
    BY DEF Inv, TypeOK, Call
  <2> DEFINE e == call[a].cancelled \/ now >= call[a].deadline
             r == IF Expired(a, call[a].deadline) THEN Error ELSE call[a].response
  <2>2. call' = [call EXCEPT ![a].at = "settled", ![a].cancelled = e, ![a].result = r]
    BY DEF Settle
  <2>3. e \in BOOLEAN /\ r \in {call[a].response, Error}
    OBVIOUS
  <2> HIDE DEF e, r
  <2> QED
    BY <2>2, <2>3
<1>2. call \in [Attempts -> Call] /\ call[a] \in Call /\ r \in Result
  BY ResultType DEF Inv, TypeOK, Call
<1>3. \A b \in Attempts : b # a => call'[b] = call[b]
  BY <1>1, <1>2
<1>4. /\ call'[a] \in Call /\ call'[a].admitted = call[a].admitted
      /\ call'[a].response = call[a].response /\ call'[a].result = r
      /\ call'[a].deadline = call[a].deadline /\ call'[a].handler = call[a].handler
      /\ call'[a].at = "settled"
  BY <1>1, <1>2 DEF Call
<1>5. call' \in [Attempts -> Call]
  BY <1>1, <1>2, <1>4
<1> QED
  BY <1>3, <1>4, <1>5, CallerMoves DEF Settle

-----------------------------------------------------------------------------
(***************************************************************************)
(* The runtime's polls and posts                                           *)
(***************************************************************************)
LEMMA NextPollInv ==
    ASSUME Inv, NEW p \in Polls, NextPoll(p)
    PROVE  Inv'
<1>1. /\ poll[p].at = "new" /\ poll[p].reply = None /\ poll[p].receipt # "sent"
      /\ Send("Next", p, IdleLease)
      /\ poll' = [poll EXCEPT ![p].at = "waiting", ![p].until = now + IdleLease]
      /\ UNCHANGED <<now, stop, pc, hand, phase, held, idle, everDelivered, bootstrap, initError,
                     call, post>>
  BY DEF NextPoll, actorVars, Inv, SessionInv, PollInv
<1>2. now + IdleLease \in Nat /\ poll \in [Polls -> Poll] /\ poll[p] \in Poll
  BY SessionAssumption DEF Inv, TypeOK
<1>3. /\ poll'[p] = [poll[p] EXCEPT !.at = "waiting", !.until = now + IdleLease]
      /\ \A q \in Polls : q # p => poll'[q] = poll[q]
  BY <1>1, <1>2
<1>4. /\ poll'[p] \in Poll /\ poll'[p].at = "waiting" /\ poll'[p].reply = poll[p].reply
      /\ poll'[p].receipt = poll[p].receipt
  BY <1>2, <1>3 DEF Poll
<1>5. poll' \in [Polls -> Poll]
  BY <1>1, <1>2, <1>4
<1>6. PICK c \in Command : c.cmd = "Next" /\ c.of = p /\ inbox' = Append(inbox, c)
  BY <1>1, <1>2 DEF Send, Command
<1>7. held # p /\ None \notin Polls /\ None \notin Attempts
  BY <1>1, SessionAssumption DEF Inv, SessionInv, HeldInv
<1>8. inbox' \in Seq(Command) /\ InboxInv' /\ HandInv'
  <2>1. Unanswered(c)'
    BY <1>1, <1>4, <1>6, <1>7 DEF Unanswered
  <2>2. ASSUME NEW e \in Command, Unanswered(e)
        PROVE  Unanswered(e)' /\ ~SameSender(e, c)
    <3>1. e.cmd = "Next" => e.of \in Polls /\ e.of # p
      BY <1>1, <2>2, CommandType DEF Unanswered
    <3>2. e.cmd = "Next" => poll'[e.of] = poll[e.of]
      BY <1>3, <3>1
    <3> QED
      BY <1>1, <1>6, <2>2, <3>1, <3>2 DEF Unanswered, SameSender
  <2> QED
    BY <1>1, <1>6, <2>1, <2>2, SendKeeps DEF Inv, SessionInv
<1>9. /\ \A q \in Polls : poll'[q].at = "returned" <=> poll[q].at = "returned"
      /\ \A q \in Polls : poll'[q].reply = poll[q].reply
      /\ \A q \in Polls : q # p => poll'[q].deadline = poll[q].deadline
  BY <1>1, <1>3, <1>4
<1>10. PollInv'
  <2>1. \A q \in Polls : q # p =>
           Timing(poll[q].reply, poll[q].started)' = Timing(poll[q].reply, poll[q].started)
    <3>1. call' = call /\ \A q \in Polls : q # p => poll'[q] = poll[q]
      BY <1>1, <1>3
    <3> QED
      BY <3>1 DEF Timing
  <2> QED
    BY <1>1, <1>3, <1>4, <1>7, <2>1 DEF Inv, SessionInv, PollInv
<1>11. \A a \in Attempts : Returned(a)' <=> Returned(a)
  BY <1>9 DEF Returned
<1>12. PhaseInv'
  BY <1>1, <1>9, PhaseType DEF Inv, SessionInv, PhaseInv, Pending, OnlyReturnedBy
<1>13. HeldInv'
  BY <1>1, <1>3, <1>7 DEF Inv, SessionInv, HeldInv, TypeOK
<1>14. DeliveredAtMostOnce'
  <2>1. phase.at = "Queued" => phase.attempt \in Attempts
    BY PhaseType DEF Inv, Pending
  <2>2. phase' = phase
    BY <1>1
  <2>3. \A q, r \in Polls : poll'[q].at = "returned" /\ poll'[r].at = "returned" =>
           poll'[q].reply # poll'[r].reply \/ q = r
    BY <1>9 DEF Inv, SessionInv, DeliveredAtMostOnce
  <2>4. phase.at = "Queued" => ~Returned(phase.attempt)'
    BY <1>11, <2>1, <2>2 DEF Inv, SessionInv, DeliveredAtMostOnce
  <2> QED
    BY <2>2, <2>3, <2>4 DEF DeliveredAtMostOnce
<1>15. DeadlinesAgree'
  BY <1>1, <1>3, <1>9 DEF Inv, SessionInv, DeadlinesAgree
<1>16. CallInv'
  BY <1>1, <1>11 DEF Inv, SessionInv, CallInv, Own, Pending
<1>17. TypeOK'
  BY <1>1, <1>5, <1>8 DEF Inv, TypeOK
<1> QED
  BY <1>8, <1>10, <1>12, <1>13, <1>14, <1>15, <1>16, <1>17 DEF Inv, SessionInv

\* A poll moves on with the reply it has; it returns only what it is offered.
LEMMA PollMoves ==
    ASSUME Inv, NEW p \in Polls, poll' \in [Polls -> Poll],
           UNCHANGED <<now, stop, inbox, actorVars, call, post>>,
           \A q \in Polls : q # p => poll'[q] = poll[q],
           poll[p].at \in {"waiting", "taken"}, poll'[p].at \in {"taken", "returned", "dropped"},
           poll'[p].reply = poll[p].reply,
           poll'[p].at = "returned" <=> poll'[p].receipt = "sent",
           poll'[p].at \in {"taken", "returned"} =>
              /\ poll[p].reply \in Attempts
              /\ poll'[p].deadline = Timing(poll[p].reply, poll'[p].started),
           poll'[p].at = "returned" => phase.at = "Offering" /\ phase.poll = p
    PROVE  Inv'
<1>1. UNCHANGED <<now, stop, inbox, pc, hand, phase, held, idle, everDelivered, bootstrap,
                  initError, call, post>>
  BY DEF actorVars
<1>2. /\ \A q \in Polls : poll'[q].reply = poll[q].reply
      /\ \A q \in Polls : poll[q].at # "new" => poll'[q].at # "new"
      /\ \A q \in Polls : poll[q].at = "returned" => q # p /\ poll'[q] = poll[q]
  OBVIOUS
<1>3. InboxInv' /\ HandInv'
  <2>1. \A d \in Command : Unanswered(d) => Unanswered(d)'
    BY <1>1, <1>2, CommandType DEF Unanswered
  <2> QED
    BY <1>1, <2>1, CommandsKept DEF Inv, SessionInv
<1>4. PollInv'
  <2>1. \A q \in Polls : q # p =>
           Timing(poll[q].reply, poll[q].started)' = Timing(poll[q].reply, poll[q].started)
    BY <1>1 DEF Timing
  <2>2. Timing(poll[p].reply, poll[p].started)' = Timing(poll[p].reply, poll'[p].started)
    BY <1>1, <1>2 DEF Timing
  <2> QED
    BY <1>1, <1>2, <2>1, <2>2 DEF Inv, SessionInv, PollInv
<1>5. \A a \in Attempts : Returned(a) => Returned(a)'
  BY <1>2 DEF Returned
<1>6. PhaseInv'
  <2>1. \A q \in Polls : poll'[q].at = "returned" => poll[q].at = "returned" \/ (q = p /\ phase.poll = p)
    OBVIOUS
  <2> QED
    BY <1>1, <1>2, <2>1, PhaseType DEF Inv, SessionInv, PhaseInv, Pending, OnlyReturnedBy
<1>7. HeldInv'
  BY <1>1, <1>2 DEF Inv, SessionInv, HeldInv, TypeOK
<1>8. DeliveredAtMostOnce'
  <2>1. phase.at = "Offering" /\ phase.poll = p =>
           poll[p].reply = phase.attempt /\ OnlyReturnedBy(phase.attempt, p)
    BY DEF Inv, SessionInv, PhaseInv
  <2>2. \A q, r \in Polls : poll'[q].at = "returned" /\ poll'[r].at = "returned" =>
           poll'[q].reply # poll'[r].reply \/ q = r
    BY <1>2, <2>1 DEF Inv, SessionInv, DeliveredAtMostOnce, OnlyReturnedBy
  <2>3. phase.at = "Queued" => ~Returned(phase.attempt)'
    <3>1. phase.at = "Queued" => ~Returned(phase.attempt)
      BY DEF Inv, SessionInv, DeliveredAtMostOnce
    <3>2. phase.at = "Queued" => poll'[p].at # "returned"
      OBVIOUS
    <3> QED
      BY <1>1, <1>2, <3>1, <3>2 DEF Returned
  <2> QED
    BY <1>1, <2>2, <2>3 DEF DeliveredAtMostOnce
<1>9. DeadlinesAgree'
  BY <1>1, <1>2 DEF Inv, SessionInv, DeadlinesAgree
<1>10. CallInv'
  BY <1>1, <1>5 DEF Inv, SessionInv, CallInv, Own, Pending
<1>11. TypeOK'
  BY <1>1 DEF Inv, TypeOK
<1> QED
  BY <1>3, <1>4, <1>6, <1>7, <1>8, <1>9, <1>10, <1>11 DEF Inv, SessionInv

\* A poll that takes its delivery keeps the invariant.
LEMMA TakeDeliveryInv ==
    ASSUME Inv, NEW p \in Polls, TakeDelivery(p)
    PROVE  Inv'
<1> DEFINE effective == Timing(poll[p].reply, now)
<1>1. /\ poll[p].at = "waiting" /\ poll[p].reply \in Attempts /\ poll[p].receipt # "sent"
      /\ poll' = [poll EXCEPT ![p].at = "taken", ![p].started = now, ![p].deadline = effective]
  BY DEF TakeDelivery, Inv, SessionInv, PollInv
<1>2. effective \in Nat /\ now \in Nat /\ poll \in [Polls -> Poll] /\ poll[p] \in Poll
  BY <1>1, TimingType DEF Inv, TypeOK
<1>3. poll[p].reply \in Attempts
  BY <1>1
<1> HIDE DEF effective
<1>4. /\ poll'[p] = [poll[p] EXCEPT !.at = "taken", !.started = now, !.deadline = effective]
      /\ \A q \in Polls : q # p => poll'[q] = poll[q]
  BY <1>1, <1>2
<1>5. /\ poll'[p] \in Poll /\ poll'[p].at = "taken" /\ poll'[p].reply = poll[p].reply
      /\ poll'[p].receipt = poll[p].receipt /\ poll'[p].started = now /\ poll'[p].deadline = effective
  BY <1>2, <1>4 DEF Poll
<1>6. poll' \in [Polls -> Poll]
  BY <1>1, <1>2, <1>5
<1>7. poll'[p].deadline = Timing(poll[p].reply, poll'[p].started)
  BY <1>5 DEF effective
<1> QED
  BY <1>1, <1>4, <1>5, <1>6, <1>7, PollMoves DEF TakeDelivery

\* A delivery receipt that is sent keeps the invariant.
LEMMA SendReceiptInv ==
    ASSUME Inv, NEW p \in Polls, SendReceipt(p)
    PROVE  Inv'
<1>1. /\ poll[p].at = "taken" /\ poll[p].reply \in Attempts
      /\ poll[p].deadline = Timing(poll[p].reply, poll[p].started)
  BY DEF SendReceipt, Inv, SessionInv, PollInv
<1>2. poll \in [Polls -> Poll] /\ poll[p] \in Poll
  BY DEF Inv, TypeOK
<1>3. /\ \A q \in Polls : q # p => poll'[q] = poll[q]
      /\ \/ /\ phase.at = "Offering" /\ phase.poll = p
            /\ poll'[p] = [poll[p] EXCEPT !.at = "returned", !.receipt = "sent"]
         \/ poll'[p] = [poll[p] EXCEPT !.at = "dropped", !.receipt = "closed"]
      /\ DOMAIN poll' = Polls /\ poll' = [q \in Polls |-> poll'[q]]
  BY <1>2 DEF SendReceipt
<1>4. /\ poll'[p] \in Poll /\ poll'[p].reply = poll[p].reply /\ poll'[p].started = poll[p].started
      /\ poll'[p].deadline = poll[p].deadline
      /\ \/ poll'[p].at = "returned" /\ poll'[p].receipt = "sent"
            /\ phase.at = "Offering" /\ phase.poll = p
         \/ poll'[p].at = "dropped" /\ poll'[p].receipt = "closed"
  BY <1>2, <1>3 DEF Poll
<1>5. poll' \in [Polls -> Poll]
  BY <1>2, <1>3, <1>4
<1> QED
  BY <1>1, <1>3, <1>4, <1>5, PollMoves DEF SendReceipt

\* A poll that ends keeps the invariant.
LEMMA EndPollInv ==
    ASSUME Inv, NEW p \in Polls, EndPoll(p)
    PROVE  Inv'
<1>1. poll[p].at \in {"waiting", "taken"} /\ poll[p].receipt # "sent"
  BY DEF EndPoll, Inv, SessionInv, PollInv
<1>2. poll \in [Polls -> Poll] /\ poll[p] \in Poll
  BY DEF Inv, TypeOK
<1>3. PICK r \in {"none", "open", "sent", "closed"} :
         r # "sent" /\ poll' = [poll EXCEPT ![p].at = "dropped", ![p].receipt = r]
  <2> DEFINE r == IF poll[p].receipt = "open" THEN "closed" ELSE poll[p].receipt
  <2>1. r \in {"none", "open", "sent", "closed"} /\ r # "sent"
    BY <1>1, <1>2 DEF Poll
  <2>2. poll' = [poll EXCEPT ![p].at = "dropped", ![p].receipt = r]
    BY DEF EndPoll
  <2> HIDE DEF r
  <2> QED
    BY <2>1, <2>2
<1>4. /\ poll'[p] = [poll[p] EXCEPT !.at = "dropped", !.receipt = r]
      /\ \A q \in Polls : q # p => poll'[q] = poll[q]
  BY <1>2, <1>3
<1>5. /\ poll'[p] \in Poll /\ poll'[p].reply = poll[p].reply
      /\ poll'[p].at = "dropped" /\ poll'[p].receipt = r
  BY <1>2, <1>4 DEF Poll
<1>6. poll' \in [Polls -> Poll]
  BY <1>2, <1>3, <1>5
<1> QED
  BY <1>1, <1>3, <1>4, <1>5, <1>6, PollMoves DEF EndPoll

\* A post sends its command; until then nothing refers to it.
LEMMA PostSends ==
    ASSUME Inv, NEW c \in Posts, post[c].at = "new", NEW a \in Attempts \cup {None},
           NEW cmd \in {"Complete", "InitError"}, NEW time \in CommandTimes, Send(cmd, c, time),
           post' = [post EXCEPT ![c].at = "sent", ![c].attempt = a],
           UNCHANGED <<now, stop, actorVars, call, poll>>
    PROVE  Inv'
<1>1. UNCHANGED <<now, stop, pc, hand, phase, held, idle, everDelivered, bootstrap, initError,
                  call, poll>>
  BY DEF actorVars
<1>2. now + time \in Nat /\ post \in [Posts -> Post] /\ post[c] \in Post
  BY SessionAssumption DEF Inv, TypeOK
<1>3. /\ post'[c] = [post[c] EXCEPT !.at = "sent", !.attempt = a]
      /\ \A d \in Posts : d # c => post'[d] = post[d]
  BY <1>2
<1>4. post'[c] \in Post /\ post'[c].at = "sent"
  BY <1>2, <1>3 DEF Post
<1>5. post' \in [Posts -> Post]
  BY <1>2, <1>4
<1>6. PICK m \in Command : m.cmd = cmd /\ m.of = c /\ inbox' = Append(inbox, m)
  BY <1>2 DEF Send, Command
<1>7. inbox' \in Seq(Command) /\ InboxInv' /\ HandInv'
  <2>1. Unanswered(m)'
    BY <1>4, <1>6 DEF Unanswered
  <2>2. ASSUME NEW e \in Command, Unanswered(e)
        PROVE  Unanswered(e)' /\ ~SameSender(e, m)
    <3>1. e.cmd \in {"Complete", "InitError"} => e.of \in Posts /\ e.of # c
      BY <2>2, CommandType DEF Unanswered
    <3>2. e.cmd \in {"Complete", "InitError"} => post'[e.of] = post[e.of]
      BY <1>3, <3>1
    <3> QED
      BY <1>1, <1>6, <2>2, <3>1, <3>2 DEF Unanswered, SameSender
  <2> QED
    BY <1>1, <1>6, <2>1, <2>2, SendKeeps DEF Inv, SessionInv
<1>8. PollInv' /\ PhaseInv' /\ HeldInv' /\ DeliveredAtMostOnce' /\ DeadlinesAgree'
  <2>1. \A b, s : Timing(b, s)' = Timing(b, s)
    BY <1>1 DEF Timing
  <2> QED
    BY <1>1, <2>1 DEF Inv, SessionInv, PollInv, PhaseInv, HeldInv, DeliveredAtMostOnce, DeadlinesAgree,
                      Pending, OnlyReturnedBy, Returned
<1>9. CallInv'
  <2>1. \A b \in Attempts : call[b].response \in Result /\ call[b].result \in Result
    BY DEF Inv, TypeOK, Call
  <2>2. ASSUME NEW b \in Attempts, NEW r \in Result, Own(r, b)
        PROVE  Own(r, b)'
    <3>1. r.is = "ok" => r.by \in Posts
      BY DEF Result
    <3> QED
      BY <1>1, <1>3, <2>2, <3>1 DEF Own, Returned
  <2>3. \A b \in Attempts : Own(call[b].response, b)' /\ Own(call[b].result, b)'
    BY <1>1, <2>1, <2>2 DEF Inv, SessionInv, CallInv
  <2> QED
    BY <1>1, <2>3 DEF Inv, SessionInv, CallInv, Pending
<1>10. TypeOK'
  BY <1>1, <1>5, <1>7 DEF Inv, TypeOK
<1> QED
  BY <1>7, <1>8, <1>9, <1>10 DEF Inv, SessionInv

\* A posted result keeps the invariant.
LEMMA PostResultInv ==
    ASSUME Inv, NEW c \in Posts, PostResult(c)
    PROVE  Inv'
BY PostSends DEF PostResult

\* A posted initialization error keeps the invariant.
LEMMA PostInitErrorInv ==
    ASSUME Inv, NEW c \in Posts, PostInitError(c)
    PROVE  Inv'
<1>1. post \in [Posts -> Post] /\ post[c] \in Post
  BY DEF Inv, TypeOK
<1>2. post[c].attempt \in Attempts \cup {None}
  BY <1>1 DEF Post
<1>3. [post EXCEPT ![c].at = "sent"] = [post EXCEPT ![c].at = "sent", ![c].attempt = post[c].attempt]
  BY <1>1 DEF Post
<1> QED
  BY <1>2, <1>3, PostSends DEF PostInitError

-----------------------------------------------------------------------------
(***************************************************************************)
(* The actor                                                               *)
(***************************************************************************)
\* The clock, the stop watch and the actor's flags do not matter.
LEMMA ClockAndStopInv ==
    ASSUME Inv, Close \/ Tick
    PROVE  Inv'
<1>1. UNCHANGED <<inbox, pc, hand, phase, held, idle, everDelivered, bootstrap, initError, call,
                  poll, post>>
  BY DEF Close, Tick, actorVars
<1>2. now' \in Nat /\ stop' \in BOOLEAN
  <2>1. CASE Close
    BY <2>1 DEF Close, Inv, TypeOK
  <2>2. CASE Tick
    <3>1. now' = now + 1 /\ stop' = stop
      BY <2>2 DEF Tick
    <3> QED
      BY <3>1 DEF Inv, TypeOK
  <2> QED
    BY <2>1, <2>2
<1>3. TypeOK'
  BY <1>1, <1>2 DEF Inv, TypeOK
<1>4. \A b \in Attempts, r \in Result : Own(r, b) => Own(r, b)'
  BY <1>1 DEF Own, Returned
<1>5. CallInv'
  BY <1>1 DEF Inv, SessionInv, CallInv, Own, Returned, Pending
<1>6. /\ InboxInv' /\ HandInv' /\ PollInv' /\ PhaseInv' /\ HeldInv'
      /\ DeliveredAtMostOnce' /\ DeadlinesAgree'
  BY <1>1, CallerKeeps
<1> QED
  BY <1>3, <1>5, <1>6 DEF Inv, SessionInv

\* The actor stays where it is with its command, or begins to execute it.
LEMMA ReceivedInv ==
    ASSUME Inv, ReceiptReady, NEW next, Received(next), UNCHANGED <<now, stop>>,
           (pc = "select" /\ next = "select") \/ (pc = "command" /\ next = "execute")
    PROVE  Inv'
<1>1. PICK a \in Attempts, p \in Polls, d \in Nat :
         /\ a = phase.attempt /\ p = phase.poll
         /\ d = IF poll[p].receipt = "sent" THEN Timing(a, poll[p].started) ELSE phase.deadline
  <2>1. /\ phase.at = "Offering"
        /\ phase.attempt \in Attempts /\ phase.poll \in Polls /\ phase.deadline \in Nat
    BY PhaseType DEF Inv, ReceiptReady, Pending
  <2>2. poll[phase.poll].started \in Nat
    BY <2>1 DEF Inv, TypeOK, Poll
  <2>3. Timing(phase.attempt, poll[phase.poll].started) \in Nat
    BY <2>1, <2>2, TimingType DEF Inv
  <2> QED
    BY <2>1, <2>3
<1>2. /\ phase.at = "Offering" /\ poll[p].receipt \in {"sent", "closed"}
      /\ poll[p].reply = a /\ OnlyReturnedBy(a, p) /\ held = None
      /\ call[a].admitted = Admitted
  BY <1>1 DEF Inv, SessionInv, PhaseInv, Pending, ReceiptReady
<1>3. everDelivered' \in BOOLEAN
  BY DEF Received, Inv, TypeOK
<1>4. CASE Expired(a, d)
  <2>1. CloseError
    BY <1>1, <1>4 DEF Received, ConsumedAt
  <2> QED
    BY <1>3, <2>1, CloseErrorInv
<1>5. CASE ~Expired(a, d)
  <2>1. /\ pc' = next
        /\ UNCHANGED <<inbox, hand, held, idle, bootstrap, initError, call, poll, post>>
    BY <1>1, <1>5 DEF Received, ConsumedAt
  <2>2. phase' = IF poll[p].receipt = "sent" THEN Delivered(a, d) ELSE Queued(a)
    BY <1>1, <1>5 DEF Received, ConsumedAt, AfterOffer
  <2>3. /\ phase' \in Phase /\ phase'.attempt = a
        /\ \/ phase'.at = "Delivered" /\ phase'.deadline = d /\ poll[p].receipt = "sent"
           \/ phase'.at = "Queued" /\ poll[p].receipt # "sent"
    <3>1. Delivered(a, d) \in Phase /\ Queued(a) \in Phase
      BY NewPhaseType DEF Inv
    <3> QED
      BY <2>2, <3>1 DEF Delivered, Queued
  <2>4. pc' \in {"select", "execute"} /\ (Handling' <=> Handling)
    BY <2>1 DEF Handling
  <2>5. InboxInv' /\ HandInv'
    <3>1. \A c : Unanswered(c)' <=> Unanswered(c)
      BY <2>1 DEF Unanswered
    <3> QED
      BY <2>1, <2>4, <3>1 DEF Inv, SessionInv, InboxInv, HandInv
  <2>6. \A b : Returned(b)' <=> Returned(b)
    BY <2>1 DEF Returned
  <2>7. PollInv'
    <3>1. \A b, s : Timing(b, s)' = Timing(b, s)
      BY <2>1 DEF Timing
    <3> QED
      BY <2>1, <3>1 DEF Inv, SessionInv, PollInv
  <2>8. PhaseInv'
    BY <1>2, <2>1, <2>3 DEF PhaseInv, Pending
  <2>9. HeldInv'
    BY <1>2, <2>1 DEF HeldInv
  <2>10. poll[p].at = "returned" <=> poll[p].receipt = "sent"
    BY DEF Inv, SessionInv, PollInv
  <2>11. DeliveredAtMostOnce'
    <3>1. poll[p].receipt # "sent" => ~Returned(a)
      BY <1>2, <2>10 DEF OnlyReturnedBy, Returned
    <3>2. phase'.at = "Queued" => ~Returned(phase.attempt)'
      BY <2>3, <2>6, <3>1
    <3> QED
      BY <2>1, <3>2 DEF Inv, SessionInv, DeliveredAtMostOnce
  <2>12. DeadlinesAgree'
    <3>1. ASSUME poll[p].receipt = "sent"
          PROVE  /\ poll'[p].at = "returned" /\ poll'[p].reply = phase'.attempt
                 /\ poll'[p].deadline = phase'.deadline
      <4>1. poll[p].deadline = Timing(poll[p].reply, poll[p].started)
        BY <2>10, <3>1 DEF Inv, SessionInv, PollInv
      <4> QED
        BY <1>1, <1>2, <2>1, <2>3, <2>10, <3>1, <4>1
    <3> QED
      BY <2>3, <3>1 DEF DeadlinesAgree
  <2>13. CallInv'
    <3>1. \A r, b : Own(r, b) => Own(r, b)'
      BY <2>1, <2>6 DEF Own
    <3>2. Pending' /\ Pending
      BY <1>2, <2>3 DEF Pending
    <3> QED
      BY <1>1, <2>1, <2>3, <3>1, <3>2 DEF Inv, SessionInv, CallInv
  <2>14. TypeOK'
    BY <1>3, <2>1, <2>3, <2>4 DEF Inv, TypeOK
  <2> QED
    BY <2>5, <2>7, <2>8, <2>9, <2>11, <2>12, <2>13, <2>14 DEF Inv, SessionInv
<1> QED
  BY <1>4, <1>5

\* A session that has stopped keeps the invariant.
LEMMA StoppedInv ==
    ASSUME Inv, Stopped \/ ExecuteBroken
    PROVE  Inv'
<1>1. CloseError /\ UNCHANGED <<now, stop, everDelivered>>
  BY DEF Stopped, ExecuteBroken
<1> QED
  BY <1>1, CloseErrorInv DEF Inv, TypeOK

\* A timer that fires keeps the invariant.
LEMMA TimerFiresInv ==
    ASSUME Inv, TimerFires
    PROVE  Inv'
<1>1. CASE ReceiptReady
  BY <1>1, ReceivedInv DEF TimerFires
<1>2. CASE ~ReceiptReady
  BY <1>2, CloseErrorInv DEF TimerFires, Inv, TypeOK
<1> QED
  BY <1>1, <1>2

\* A change of phase keeps the invariant.
LEMMA PhaseEventInv ==
    ASSUME Inv, PhaseEvent
    PROVE  Inv'
<1>1. CASE CloseError /\ UNCHANGED everDelivered
  BY <1>1, CloseErrorInv DEF PhaseEvent, Inv, TypeOK
<1>2. CASE ReceiptReady /\ Received("select")
  BY <1>2, ReceivedInv DEF PhaseEvent
<1> QED
  BY <1>1, <1>2 DEF PhaseEvent

\* Only the place of the actor in its loop changes.
LEMMA PlaceInv ==
    ASSUME Inv, UNCHANGED <<now, stop, inbox, hand, phase, held, idle, everDelivered, bootstrap,
                            initError, call, poll, post>>,
           \/ pc = "command" /\ pc' = "execute"
           \/ pc = "deliver" /\ pc' = "select" /\ (phase.at # "Queued" \/ held = None)
    PROVE  Inv'
<1>1. Handling' <=> Handling
  BY DEF Handling
<1>2. \A d : Unanswered(d)' <=> Unanswered(d)
  BY DEF Unanswered
<1>3. InboxInv' /\ HandInv'
  BY <1>1, <1>2 DEF Inv, SessionInv, InboxInv, HandInv
<1>4. \A b, s : Timing(b, s)' = Timing(b, s)
  BY DEF Timing
<1>5. PollInv'
  BY <1>4 DEF Inv, SessionInv, PollInv
<1>6. CallInv' /\ PhaseInv' /\ DeliveredAtMostOnce' /\ DeadlinesAgree'
  BY DEF Inv, SessionInv, CallInv, Own, Returned, PhaseInv, Pending, OnlyReturnedBy,
         DeliveredAtMostOnce, DeadlinesAgree
<1>7. HeldInv'
  BY DEF Inv, SessionInv, HeldInv
<1>8. TypeOK'
  BY DEF Inv, TypeOK
<1> QED
  BY <1>3, <1>5, <1>6, <1>7, <1>8 DEF Inv, SessionInv

\* The receipt of a command keeps the invariant.
LEMMA CommandReceiptInv ==
    ASSUME Inv, CommandReceipt
    PROVE  Inv'
<1>1. CASE ReceiptReady /\ Received("execute")
  BY <1>1, ReceivedInv DEF CommandReceipt
<1>2. CASE ~ReceiptReady
  BY <1>2, PlaceInv DEF CommandReceipt
<1> QED
  BY <1>1, <1>2 DEF CommandReceipt

\* Deadlines and offers survive the answering of other commands.
LEMMA SettledPhase ==
    ASSUME Inv, PollsSettled, CallsSettled, phase' = phase, held' = held
    PROVE  PhaseInv' /\ DeadlinesAgree'
<1>1. Pending' <=> Pending
  BY DEF Pending
<1>2. \A p \in Polls : poll[p].reply \in Attempts => poll'[p].reply = poll[p].reply
  BY SessionAssumption DEF PollsSettled
<1>3. \A a \in Attempts : call[a].admitted = Admitted => call'[a].admitted = Admitted
  <2>1. Nothing # Admitted
    BY DEF Nothing, Admitted
  <2> QED
    BY <2>1 DEF CallsSettled
<1>4. /\ \A p \in Polls : poll[p].at = "returned" => poll'[p].reply = poll[p].reply
      /\ \A a \in Attempts, p \in Polls : OnlyReturnedBy(a, p)' <=> OnlyReturnedBy(a, p)
  BY SettledReturned DEF Inv, SessionInv
<1>5. /\ Pending => phase.attempt \in Attempts
      /\ phase.at = "Offering" => phase.poll \in Polls /\ Pending
      /\ phase.at = "Delivered" => Pending
  BY PhaseType DEF Inv, Pending
<1>6. PhaseInv'
  <2>1. Pending => call'[phase.attempt].admitted = Admitted
    BY <1>3, <1>5 DEF Inv, SessionInv, PhaseInv
  <2>2. phase.at = "Offering" => /\ poll'[phase.poll].reply = phase.attempt
                                 /\ OnlyReturnedBy(phase.attempt, phase.poll)'
    BY <1>2, <1>4, <1>5 DEF Inv, SessionInv, PhaseInv
  <2>3. phase.at \in {"Offering", "Delivered"} => held = None
    BY DEF Inv, SessionInv, PhaseInv
  <2> QED
    BY <1>1, <2>1, <2>2, <2>3 DEF PhaseInv
<1>7. DeadlinesAgree'
  BY <1>4 DEF Inv, SessionInv, DeadlinesAgree, PollsSettled
<1> QED
  BY <1>6, <1>7

\* A command taken from the channel keeps the invariant.
LEMMA ReceiveInv ==
    ASSUME Inv, Receive
    PROVE  Inv'
<1>1. /\ pc = "select" /\ inbox # <<>> /\ inbox' = Tail(inbox) /\ hand = None
      /\ UNCHANGED <<now, stop, phase, held, idle, everDelivered, bootstrap, initError>>
  BY DEF Receive, Inv, SessionInv, HandInv, Handling
<1>2. PICK c \in Command : c = Head(inbox) /\ c = inbox[1]
  BY <1>1 DEF Inv, TypeOK
<1>3. /\ inbox' \in Seq(Command) /\ DOMAIN inbox = 1..Len(inbox) /\ Len(inbox) \in Nat
      /\ DOMAIN inbox' = 1..(Len(inbox) - 1)
      /\ \A i \in DOMAIN inbox' : i + 1 \in DOMAIN inbox /\ inbox'[i] = inbox[i + 1]
                                  /\ inbox'[i] \in Command
  BY <1>1 DEF Inv, TypeOK
<1>4. /\ Unanswered(c)
      /\ \A i \in DOMAIN inbox' : Unanswered(inbox'[i]) /\ ~SameSender(inbox'[i], c)
      /\ \A i, j \in DOMAIN inbox' : SameSender(inbox'[i], inbox'[j]) => i = j
  <2>1. 1 \in DOMAIN inbox /\ \A i \in DOMAIN inbox' : i + 1 # 1
    BY <1>1, <1>3 DEF Inv, TypeOK
  <2>2. \A i \in DOMAIN inbox' : Unanswered(inbox'[i]) /\ ~SameSender(inbox'[i], c)
    BY <1>2, <1>3, <2>1 DEF Inv, SessionInv, InboxInv
  <2>3. ASSUME NEW i \in DOMAIN inbox', NEW j \in DOMAIN inbox', SameSender(inbox'[i], inbox'[j])
        PROVE  i = j
    <3>1. SameSender(inbox[i + 1], inbox[j + 1])
      BY <1>3, <2>3
    <3>2. i + 1 = j + 1
      BY <1>3, <3>1 DEF Inv, SessionInv, InboxInv
    <3> QED
      BY <1>3, <3>2
  <2> QED
    BY <1>2, <2>1, <2>2, <2>3 DEF Inv, SessionInv, InboxInv
<1>5. CASE now < c.until
  <2>1. pc' = "command" /\ hand' = c /\ UNCHANGED <<call, poll, post>>
    <3>1. now \in Nat /\ c.until \in Nat
      BY DEF Inv, TypeOK, Command
    <3>2. ~(now >= c.until)
      BY <1>5, <3>1
    <3> QED
      BY <1>2, <3>2 DEF Receive
  <2>2. \A d : Unanswered(d)' <=> Unanswered(d)
    BY <1>1, <2>1 DEF Unanswered
  <2>3. InboxInv'
    BY <1>4, <2>2 DEF InboxInv
  <2>4. HandInv'
    BY <1>4, <2>1, <2>2 DEF HandInv, Handling
  <2>5. \A b, s : Timing(b, s)' = Timing(b, s)
    BY <2>1 DEF Timing
  <2>6. PollInv'
    BY <2>1, <2>5 DEF Inv, SessionInv, PollInv
  <2>7. CallInv' /\ PhaseInv' /\ DeliveredAtMostOnce' /\ DeadlinesAgree'
    BY <1>1, <2>1 DEF Inv, SessionInv, CallInv, Own, Returned, PhaseInv, Pending, OnlyReturnedBy,
                      DeliveredAtMostOnce, DeadlinesAgree
  <2>8. HeldInv'
    BY <1>1, <2>1 DEF Inv, SessionInv, HeldInv
  <2>9. TypeOK'
    BY <1>1, <1>3, <2>1 DEF Inv, TypeOK
  <2> QED
    BY <2>3, <2>4, <2>6, <2>7, <2>8, <2>9 DEF Inv, SessionInv
<1>6. CASE ~(now < c.until)
  <2>1. /\ call' = RejectCalls({c}) /\ poll' = RejectPolls({c}) /\ post' = RejectPosts({c})
        /\ UNCHANGED <<pc, hand>>
    <3>1. now \in Nat /\ c.until \in Nat
      BY DEF Inv, TypeOK, Command
    <3>2. now >= c.until
      BY <1>6, <3>1
    <3> QED
      BY <1>2, <3>2 DEF Receive
  <2>2. \A d \in {c} : d \in Command /\ Unanswered(d)
    BY <1>4
  <2>3. /\ \A a \in Attempts :
              \/ call'[a] = call[a]
              \/ /\ call[a].at # "new" /\ call[a].admitted = Nothing
                 /\ call'[a] = [call[a] EXCEPT !.admitted = Error, !.response = Error]
        /\ \A p \in Polls :
              \/ poll'[p] = poll[p]
              \/ /\ poll[p].at # "new" /\ poll[p].reply = None
                 /\ poll'[p] = [poll[p] EXCEPT !.reply = "error"]
    <3> DEFINE cs == {c}
    <3>1. TypeOK /\ \A d \in cs : d \in Command /\ Unanswered(d)
      BY <2>2 DEF Inv
    <3>2. call' = RejectCalls(cs) /\ poll' = RejectPolls(cs)
      BY <2>1
    <3> HIDE DEF cs
    <3>3. /\ \A a \in Attempts :
                \/ RejectCalls(cs)[a] = call[a]
                \/ /\ call[a].at # "new" /\ call[a].admitted = Nothing
                   /\ RejectCalls(cs)[a] = [call[a] EXCEPT !.admitted = Error, !.response = Error]
          /\ \A p \in Polls :
                \/ RejectPolls(cs)[p] = poll[p]
                \/ /\ poll[p].at # "new" /\ poll[p].reply = None
                   /\ RejectPolls(cs)[p] = [poll[p] EXCEPT !.reply = "error"]
      BY <3>1, RejectEffect
    <3> QED
      BY <3>2, <3>3, Zenon
  <2>4. /\ call' \in [Attempts -> Call] /\ poll' \in [Polls -> Poll] /\ post' \in [Posts -> Post]
        /\ PostsSettled
    BY <2>1, RejectType, RejectPostsSettles DEF Inv
  <2>5. PollsSettled
    <3>1. \A p \in Polls : poll[p] \in Poll
      BY DEF Inv, TypeOK
    <3>2. SUFFICES ASSUME NEW p \in Polls
                   PROVE  /\ poll'[p].at = poll[p].at /\ poll'[p].receipt = poll[p].receipt
                          /\ poll'[p].started = poll[p].started /\ poll'[p].deadline = poll[p].deadline
                          /\ \/ poll'[p].reply = poll[p].reply
                             \/ poll[p].at # "new" /\ poll[p].reply = None /\ poll'[p].reply = "error"
      BY DEF PollsSettled
    <3> QED
      BY <2>3, <3>1 DEF Poll
  <2>6. ASSUME NEW a \in Attempts
        PROVE  /\ call'[a].at = call[a].at /\ call'[a].result = call[a].result
               /\ call'[a].deadline = call[a].deadline /\ call'[a].handler = call[a].handler
               /\ \/ call'[a].admitted = call[a].admitted /\ call'[a].response = call[a].response
                  \/ /\ call[a].at # "new" /\ call[a].admitted = Nothing
                     /\ call'[a].admitted = Error /\ call'[a].response = Error
    <3>1. call[a] \in Call
      BY DEF Inv, TypeOK
    <3> QED
      BY <2>3, <3>1 DEF Call
  <2>7. CallsSettled
    BY <2>6 DEF CallsSettled
  <2>8. ASSUME NEW d \in Command, Unanswered(d), ~SameSender(d, c)
        PROVE  Unanswered(d)'
    <3>1. d.cmd = "Submit" => d.of \in Attempts /\ call'[d.of] = call[d.of]
      BY <2>1, <2>8, CommandType DEF SameSender, RejectCalls
    <3>2. d.cmd = "Next" => d.of \in Polls /\ poll'[d.of] = poll[d.of]
      BY <2>1, <2>8, CommandType DEF SameSender, RejectPolls
    <3>3. d.cmd \in {"Complete", "InitError"} => post'[d.of].at = post[d.of].at
      BY <2>4, <2>8, CommandType DEF PostsSettled
    <3> QED
      BY <1>1, <2>8, <3>1, <3>2, <3>3 DEF Unanswered
  <2>9. InboxInv' /\ HandInv'
    <3>1. \A i \in DOMAIN inbox' : Unanswered(inbox[i])'
      BY <1>3, <1>4, <2>8
    <3> QED
      BY <1>1, <1>4, <2>1, <3>1 DEF InboxInv, HandInv, Handling
  <2>10. PollInv' /\ DeliveredAtMostOnce' /\ PhaseInv' /\ DeadlinesAgree'
    BY <1>1, <2>5, <2>7, SettledPolls, SettledDelivered, SettledPhase DEF Inv, SessionInv
  <2>11. HeldInv'
    <3>1. held # None => held \in Polls /\ poll'[held] = poll[held]
      BY <1>4, <2>1 DEF Inv, TypeOK, Unanswered, RejectPolls
    <3> QED
      BY <1>1, <2>1, <3>1 DEF Inv, SessionInv, HeldInv
  <2>12. CallInv'
    <3>1. \A b \in Attempts, r \in Result : Own(r, b) => Own(r, b)'
      BY <2>4, <2>5, SettledOwn DEF Inv, SessionInv
    <3>2. \A b \in Attempts : call[b].response \in Result /\ call[b].result \in Result
      BY DEF Inv, TypeOK, Call
    <3>3. Error.is # "ok" /\ Error # Admitted /\ Nothing # Admitted
      BY DEF Error, Nothing, Admitted
    <3>4. Pending' <=> Pending
      BY <1>1 DEF Pending
    <3>5. ASSUME NEW b \in Attempts
          PROVE  Own(call[b].response, b)' /\ Own(call[b].result, b)'
      <4>1. Own(call[b].response, b) /\ Own(call[b].result, b)
        BY DEF Inv, SessionInv, CallInv
      <4>2. Own(call[b].result, b)'
        BY <2>6, <3>1, <3>2, <4>1
      <4>3. CASE call'[b].response = call[b].response
        BY <3>1, <3>2, <4>1, <4>2, <4>3
      <4>4. CASE call'[b].response = Error
        BY <3>3, <4>2, <4>4 DEF Own
      <4> QED
        BY <2>6, <4>3, <4>4
    <3> QED
      BY <1>1, <2>6, <3>3, <3>4, <3>5 DEF Inv, SessionInv, CallInv
  <2>13. TypeOK'
    BY <1>1, <1>3, <2>1, <2>4 DEF Inv, TypeOK
  <2> QED
    BY <2>9, <2>10, <2>11, <2>12, <2>13 DEF Inv, SessionInv
<1> QED
  BY <1>5, <1>6

-----------------------------------------------------------------------------
(***************************************************************************)
(* The commands                                                            *)
(***************************************************************************)
\* The command in hand is done; the others wait as before.
LEMMA CommandDone ==
    ASSUME Inv, Handling, pc' = "deliver", hand' = None, inbox' = inbox,
           \A d \in Command : Unanswered(d) /\ ~SameSender(d, hand) => Unanswered(d)'
    PROVE  InboxInv' /\ HandInv'
<1>1. \A i \in DOMAIN inbox : inbox[i] \in Command /\ Unanswered(inbox[i]) /\ ~SameSender(inbox[i], hand)
  BY DEF Inv, TypeOK, SessionInv, InboxInv, HandInv
<1>2. \A i \in DOMAIN inbox : Unanswered(inbox[i])'
  BY <1>1
<1> QED
  BY <1>2 DEF Inv, SessionInv, InboxInv, HandInv, Handling

\* The command in hand, as a constant.
LEMMA InHand ==
    ASSUME Inv, NEW cmds, Executing(cmds)
    PROVE  /\ Handling /\ hand \in Command /\ Unanswered(hand) /\ hand.cmd \in cmds
           /\ pc = "execute" /\ ~Broken
BY DEF Executing, Inv, SessionInv, HandInv, Handling

\* A command is refused or answered and changes nothing else.
LEMMA AnswersOnly ==
    ASSUME Inv, Handling, UNCHANGED <<phase, held>>, NEW accepted, Executed(accepted),
           PollsSettled, CallsSettled, PostsSettled,
           call' \in [Attempts -> Call], poll' \in [Polls -> Poll], post' \in [Posts -> Post],
           bootstrap' \in BOOLEAN, \A a \in Attempts : call'[a].response = call[a].response,
           \A d \in Command : Unanswered(d) /\ ~SameSender(d, hand) => Unanswered(d)',
           held # None => poll'[held] = poll[held]
    PROVE  Inv'
<1>1. /\ pc' = "deliver" /\ hand' = None /\ UNCHANGED <<now, stop, inbox, everDelivered, initError>>
      /\ idle' \in Nat
  <2>1. now + IdleLease \in Nat
    BY SessionAssumption DEF Inv, TypeOK
  <2> QED
    BY <2>1 DEF Executed, Inv, TypeOK
<1>2. InboxInv' /\ HandInv'
  BY <1>1, CommandDone
<1>3. PollInv' /\ DeliveredAtMostOnce' /\ PhaseInv' /\ DeadlinesAgree'
  BY SettledPolls, SettledDelivered, SettledPhase DEF Inv, SessionInv
<1>4. HeldInv'
  BY <1>1 DEF Inv, SessionInv, HeldInv
<1>5. CallInv'
  <2>1. \A b \in Attempts, r \in Result : Own(r, b) => Own(r, b)'
    BY SettledOwn DEF Inv, SessionInv
  <2>2. \A b \in Attempts : call[b].response \in Result /\ call[b].result \in Result
    BY DEF Inv, TypeOK, Call
  <2>3. Error # Admitted /\ Nothing # Admitted
    BY DEF Error, Nothing, Admitted
  <2>4. Pending' <=> Pending
    BY DEF Pending
  <2>5. \A b \in Attempts : Own(call[b].response, b)' /\ Own(call[b].result, b)'
    <3>1. \A b \in Attempts : Own(call[b].response, b) /\ Own(call[b].result, b)
      BY DEF Inv, SessionInv, CallInv
    <3>2. \A b \in Attempts : call'[b].response = call[b].response /\ call'[b].result = call[b].result
      BY DEF CallsSettled
    <3> QED
      BY <2>1, <2>2, <3>1, <3>2
  <2> QED
    BY <2>3, <2>4, <2>5 DEF Inv, SessionInv, CallInv, CallsSettled
<1>6. TypeOK'
  BY <1>1 DEF Inv, TypeOK
<1> QED
  BY <1>2, <1>3, <1>4, <1>5, <1>6 DEF Inv, SessionInv

\* An executed submission keeps the invariant.
LEMMA ExecuteSubmitInv ==
    ASSUME Inv, ExecuteSubmit
    PROVE  Inv'
<1>1. /\ Handling /\ hand \in Command /\ Unanswered(hand) /\ hand.cmd = "Submit"
      /\ UNCHANGED <<held, bootstrap, poll, post>>
  BY InHand DEF ExecuteSubmit
<1>2. PICK a \in Attempts : a = hand.of
  BY <1>1, CommandType
<1>3. call[a].at # "new" /\ call[a].admitted = Nothing
  BY <1>1, <1>2 DEF Unanswered
<1>4. call \in [Attempts -> Call] /\ call[a] \in Call
  BY DEF Inv, TypeOK
<1>5. PollsSettled /\ PostsSettled
  BY <1>1 DEF PollsSettled, PostsSettled
<1>6. ASSUME NEW r \in Result \cup {Admitted}, call' = [call EXCEPT ![a].admitted = r]
      PROVE  /\ call' \in [Attempts -> Call]
             /\ \A b \in Attempts : /\ b # a => call'[b] = call[b]
                                    /\ call'[b].at = call[b].at /\ call'[b].result = call[b].result
                                    /\ call'[b].deadline = call[b].deadline
                                    /\ call'[b].handler = call[b].handler
                                    /\ call'[b].response = call[b].response
             /\ call'[a].admitted = r
             /\ \A d \in Command : Unanswered(d) /\ ~SameSender(d, hand) => Unanswered(d)'
  <2>1. /\ call'[a] = [call[a] EXCEPT !.admitted = r]
        /\ \A b \in Attempts : b # a => call'[b] = call[b]
    BY <1>4, <1>6
  <2>2. /\ call'[a] \in Call /\ call'[a].admitted = r /\ call'[a].at = call[a].at
        /\ call'[a].result = call[a].result /\ call'[a].response = call[a].response
        /\ call'[a].deadline = call[a].deadline /\ call'[a].handler = call[a].handler
    BY <1>4, <2>1 DEF Call
  <2>3. call' \in [Attempts -> Call]
    BY <1>4, <1>6, <2>2
  <2>4. \A d \in Command : Unanswered(d) /\ ~SameSender(d, hand) => Unanswered(d)'
    BY <1>1, <1>2, <2>1, CommandType DEF Unanswered, SameSender
  <2> QED
    BY <2>1, <2>2, <2>3, <2>4
<1>7. CASE phase # Idle \/ Expired(a, call[a].deadline)
  <2>1. call' = [call EXCEPT ![a].admitted = Error] /\ Executed(FALSE) /\ UNCHANGED phase
    BY <1>2, <1>7 DEF ExecuteSubmit
  <2>2. CallsSettled
    BY <1>3, <1>6, <2>1, ResultType DEF CallsSettled
  <2>3. poll' \in [Polls -> Poll] /\ post' \in [Posts -> Post] /\ bootstrap' \in BOOLEAN
    BY <1>1 DEF Inv, TypeOK
  <2> QED
    BY <1>1, <1>5, <1>6, <2>1, <2>2, <2>3, ResultType, AnswersOnly
<1>8. CASE ~(phase # Idle \/ Expired(a, call[a].deadline))
  <2>1. /\ call' = [call EXCEPT ![a].admitted = Admitted] /\ phase' = Queued(a) /\ Executed(TRUE)
        /\ phase = Idle
    BY <1>2, <1>8 DEF ExecuteSubmit
  <2>2. /\ pc' = "deliver" /\ hand' = None /\ UNCHANGED <<now, stop, inbox, everDelivered, initError>>
        /\ idle' \in Nat
    BY <2>1, SessionAssumption DEF Executed, Inv, TypeOK
  <2>3. /\ phase' \in Phase /\ phase'.at = "Queued" /\ phase'.attempt = a /\ Pending' /\ ~Pending
    <3>1. Queued(a) \in Phase
      BY <1>4 DEF Queued, Phase, Call
    <3> QED
      BY <2>1, <3>1 DEF Queued, Pending, Idle
  <2>4. InboxInv' /\ HandInv'
    BY <1>1, <1>6, <2>1, <2>2, CommandDone
  <2>5. \A p \in Polls : poll[p].reply # a
    <3>1. Nothing # Admitted
      BY DEF Nothing, Admitted
    <3> QED
      BY <1>3, <3>1 DEF Inv, SessionInv, PollInv
  <2>6. PollInv'
    <3>1. \A b \in Attempts, s \in Nat : Timing(b, s)' = Timing(b, s)
      BY <1>6, <2>1 DEF Timing
    <3>2. \A p \in Polls : poll[p].started \in Nat
      BY DEF Inv, TypeOK, Poll
    <3> QED
      BY <1>1, <1>6, <2>1, <2>5, <3>1, <3>2 DEF Inv, SessionInv, PollInv
  <2>7. PhaseInv'
    BY <1>6, <2>1, <2>3 DEF PhaseInv
  <2>8. HeldInv'
    BY <1>1, <2>2 DEF Inv, SessionInv, HeldInv
  <2>9. DeliveredAtMostOnce'
    <3>1. phase'.at = "Queued" => ~Returned(phase.attempt)'
      BY <1>1, <2>3, <2>5 DEF Returned
    <3> QED
      BY <1>1, <3>1 DEF Inv, SessionInv, DeliveredAtMostOnce
  <2>10. DeadlinesAgree'
    BY <2>3 DEF DeadlinesAgree
  <2>11. CallInv'
    <3>1. \A b \in Attempts, r \in Result : Own(r, b) => Own(r, b)'
      BY <1>1 DEF Own, Returned
    <3>2. \A b \in Attempts : call[b].response \in Result /\ call[b].result \in Result
      BY DEF Inv, TypeOK, Call
    <3>3. \A b \in Attempts : Own(call[b].response, b)' /\ Own(call[b].result, b)'
      <4>1. \A b \in Attempts : Own(call[b].response, b) /\ Own(call[b].result, b)
        BY DEF Inv, SessionInv, CallInv
      <4>2. \A b \in Attempts : call'[b].response = call[b].response /\ call'[b].result = call[b].result
        BY <1>6, <2>1
      <4> QED
        BY <3>1, <3>2, <4>1, <4>2
    <3>4. \A b \in Attempts : b # a => call'[b] = call[b]
      BY <1>6, <2>1
    <3>5. call'[a].at # "new" /\ call'[a].admitted = Admitted
      BY <1>3, <1>6, <2>1
    <3> QED
      BY <2>3, <3>3, <3>4, <3>5 DEF Inv, SessionInv, CallInv
  <2>12. TypeOK'
    BY <1>1, <1>6, <2>1, <2>2, <2>3 DEF Inv, TypeOK
  <2> QED
    BY <2>4, <2>6, <2>7, <2>8, <2>9, <2>10, <2>11, <2>12 DEF Inv, SessionInv
<1> QED
  BY <1>7, <1>8

\* An executed poll keeps the invariant.
LEMMA ExecuteNextInv ==
    ASSUME Inv, ExecuteNext
    PROVE  Inv'
<1>1. /\ Handling /\ hand \in Command /\ Unanswered(hand) /\ hand.cmd = "Next"
      /\ UNCHANGED <<phase, call, post>>
  BY InHand DEF ExecuteNext
<1>2. PICK p \in Polls : p = hand.of
  BY <1>1, CommandType
<1>3. poll[p].at # "new" /\ poll[p].reply = None /\ held # p
  BY <1>1, <1>2 DEF Unanswered
<1>4. poll \in [Polls -> Poll] /\ poll[p] \in Poll
  BY DEF Inv, TypeOK
<1>5. CallsSettled /\ PostsSettled
  BY <1>1 DEF CallsSettled, PostsSettled
<1>6. call' \in [Attempts -> Call] /\ post' \in [Posts -> Post]
  BY <1>1 DEF Inv, TypeOK
<1>7. CASE poll' = [poll EXCEPT ![p].reply = "error"] /\ Executed(FALSE) /\ UNCHANGED <<held, bootstrap>>
  <2>1. /\ poll'[p] = [poll[p] EXCEPT !.reply = "error"]
        /\ \A q \in Polls : q # p => poll'[q] = poll[q]
    BY <1>4, <1>7
  <2>2. /\ poll'[p] \in Poll /\ poll'[p].at = poll[p].at /\ poll'[p].receipt = poll[p].receipt
        /\ poll'[p].started = poll[p].started /\ poll'[p].deadline = poll[p].deadline
        /\ poll'[p].reply = "error"
    BY <1>4, <2>1 DEF Poll
  <2>3. poll' \in [Polls -> Poll]
    BY <1>4, <1>7, <2>2
  <2>4. PollsSettled
    BY <1>3, <2>1, <2>2 DEF PollsSettled
  <2>5. \A d \in Command : Unanswered(d) /\ ~SameSender(d, hand) => Unanswered(d)'
    BY <1>1, <1>2, <1>7, <2>1, CommandType DEF Unanswered, SameSender
  <2>6. held # None => poll'[held] = poll[held]
    BY <1>3, <2>1 DEF Inv, TypeOK
  <2>7. bootstrap' \in BOOLEAN
    BY <1>7 DEF Inv, TypeOK
  <2> QED
    BY <1>1, <1>5, <1>6, <1>7, <2>3, <2>4, <2>5, <2>6, <2>7, AnswersOnly
<1>8. CASE Executed(FALSE) /\ UNCHANGED <<held, bootstrap, poll>>
  <2>1. PollsSettled
    BY <1>8 DEF PollsSettled
  <2>2. \A d \in Command : Unanswered(d) => Unanswered(d)'
    BY <1>1, <1>8 DEF Unanswered
  <2>3. bootstrap' \in BOOLEAN /\ poll' \in [Polls -> Poll]
    BY <1>4, <1>8 DEF Inv, TypeOK
  <2> QED
    BY <1>1, <1>5, <1>6, <1>8, <2>1, <2>2, <2>3, AnswersOnly
<1>9. CASE ~NextBusy /\ held' = p /\ bootstrap' = TRUE /\ Executed(TRUE) /\ UNCHANGED poll
  <2>1. /\ pc' = "deliver" /\ hand' = None /\ UNCHANGED <<now, stop, inbox, everDelivered, initError>>
        /\ idle' \in Nat
    BY <1>9, SessionAssumption DEF Executed, Inv, TypeOK
  <2>2. InboxInv' /\ HandInv'
    <3>1. \A d \in Command : Unanswered(d) /\ ~SameSender(d, hand) => Unanswered(d)'
      BY <1>1, <1>2, <1>9 DEF Unanswered, SameSender
    <3> QED
      BY <1>1, <2>1, <3>1, CommandDone
  <2>3. PollInv'
    <3>1. \A b, s : Timing(b, s)' = Timing(b, s)
      BY <1>1 DEF Timing
    <3> QED
      BY <1>1, <1>9, <3>1 DEF Inv, SessionInv, PollInv
  <2>4. PhaseInv'
    BY <1>1, <1>9 DEF Inv, SessionInv, PhaseInv, Pending, OnlyReturnedBy, NextBusy
  <2>5. HeldInv'
    BY <1>3, <1>9, <2>1 DEF HeldInv
  <2>6. CallInv' /\ DeliveredAtMostOnce' /\ DeadlinesAgree'
    BY <1>1, <1>9 DEF Inv, SessionInv, CallInv, Own, Returned, Pending, DeliveredAtMostOnce,
                      DeadlinesAgree
  <2>7. TypeOK'
    BY <1>1, <1>9, <2>1 DEF Inv, TypeOK
  <2> QED
    BY <2>2, <2>3, <2>4, <2>5, <2>6, <2>7 DEF Inv, SessionInv
<1> QED
  BY <1>2, <1>7, <1>8, <1>9 DEF ExecuteNext

\* A post gets its reply.
LEMMA ReplyToPost ==
    ASSUME Inv, NEW c \in Posts, NEW r \in Result, post' = [post EXCEPT ![c].reply = r]
    PROVE  post' \in [Posts -> Post] /\ PostsSettled
<1>1. post \in [Posts -> Post] /\ post[c] \in Post
  BY DEF Inv, TypeOK
<1>2. /\ post'[c] = [post[c] EXCEPT !.reply = r]
      /\ \A d \in Posts : d # c => post'[d] = post[d]
  BY <1>1
<1>3. post'[c] \in Post /\ post'[c].at = post[c].at /\ post'[c].attempt = post[c].attempt
  BY <1>1, <1>2 DEF Post
<1> QED
  BY <1>1, <1>2, <1>3 DEF PostsSettled

\* A post is refused.
LEMMA PostRefused ==
    ASSUME Inv, Handling, NEW c \in Posts, post' = [post EXCEPT ![c].reply = Error], Executed(FALSE),
           UNCHANGED <<phase, held, bootstrap, call, poll>>
    PROVE  Inv'
<1>1. post' \in [Posts -> Post] /\ PostsSettled
  BY ReplyToPost, ResultType
<1>2. PollsSettled /\ CallsSettled
  BY DEF PollsSettled, CallsSettled
<1>3. \A d \in Command : Unanswered(d) => Unanswered(d)'
  BY <1>1, CommandType DEF Unanswered, PostsSettled
<1>4. call' \in [Attempts -> Call] /\ poll' \in [Polls -> Poll] /\ bootstrap' \in BOOLEAN
  BY DEF Inv, TypeOK
<1> QED
  BY <1>1, <1>2, <1>3, <1>4, AnswersOnly

\* An executed completion keeps the invariant.
LEMMA ExecuteCompleteInv ==
    ASSUME Inv, ExecuteComplete
    PROVE  Inv'
<1>1. /\ Handling /\ hand \in Command /\ Unanswered(hand) /\ hand.cmd = "Complete"
      /\ UNCHANGED <<held, bootstrap, poll>>
  BY InHand DEF ExecuteComplete
<1>2. PICK c \in Posts : c = hand.of
  BY <1>1, CommandType
<1>3. CASE ~Valid(c)
  BY <1>1, <1>2, <1>3, PostRefused DEF ExecuteComplete
<1>4. CASE Valid(c)
  <2>1. PICK a \in Attempts : a = phase.attempt
    BY <1>4, PhaseType DEF Valid, Pending, Inv
  <2>2. /\ call' = [call EXCEPT ![a].response = Success(c)]
        /\ post' = [post EXCEPT ![c].reply = Success(c)] /\ phase' = Idle /\ Executed(TRUE)
        /\ phase.at = "Delivered" /\ post[c].attempt = a
    BY <1>2, <1>4, <2>1 DEF ExecuteComplete, Valid
  <2>3. post' \in [Posts -> Post] /\ PostsSettled
    BY <2>2, ReplyToPost, ResultType
  <2>4. call \in [Attempts -> Call] /\ call[a] \in Call /\ Success(c) \in Result
    BY ResultType DEF Inv, TypeOK
  <2>5. /\ call'[a] = [call[a] EXCEPT !.response = Success(c)]
        /\ \A b \in Attempts : b # a => call'[b] = call[b]
    BY <2>2, <2>4
  <2>6. /\ call'[a] \in Call /\ call'[a].response = Success(c) /\ call'[a].at = call[a].at
        /\ call'[a].admitted = call[a].admitted /\ call'[a].result = call[a].result
        /\ call'[a].deadline = call[a].deadline /\ call'[a].handler = call[a].handler
    BY <2>4, <2>5 DEF Call
  <2>7. call' \in [Attempts -> Call]
    BY <2>2, <2>4, <2>6
  <2>8. PollsSettled /\ CallsSettled
    BY <1>1, <2>5, <2>6 DEF PollsSettled, CallsSettled
  <2>9. /\ pc' = "deliver" /\ hand' = None /\ UNCHANGED <<now, stop, inbox, everDelivered, initError>>
        /\ idle' \in Nat
    BY <2>2, SessionAssumption DEF Executed, Inv, TypeOK
  <2>10. phase' \in Phase /\ phase'.at = "Idle" /\ ~Pending'
    BY <2>2 DEF Idle, Phase, Pending
  <2>11. InboxInv' /\ HandInv'
    <3>1. \A d \in Command : Unanswered(d) => Unanswered(d)'
      BY <1>1, <2>3, <2>8, <2>5, <2>6, CommandType DEF Unanswered, PostsSettled
    <3> QED
      BY <1>1, <2>9, <3>1, CommandDone
  <2>12. PollInv' /\ DeliveredAtMostOnce'
    BY <2>8, <2>10, SettledPolls, SettledDelivered DEF Inv, SessionInv
  <2>13. PhaseInv' /\ HeldInv' /\ DeadlinesAgree'
    BY <1>1, <2>10 DEF Inv, SessionInv, PhaseInv, HeldInv, DeadlinesAgree
  <2>14. Own(Success(c), a)'
    <3>1. Returned(a)
      BY <2>1, <2>2 DEF Inv, SessionInv, DeadlinesAgree, Returned
    <3>2. Returned(a)'
      BY <1>1, <3>1 DEF Returned
    <3>3. post[c].at = "sent"
      BY <1>1, <1>2 DEF Unanswered
    <3>4. post'[c].at = "sent" /\ post'[c].attempt = a
      BY <2>2, <2>3, <3>3 DEF PostsSettled
    <3> QED
      BY <3>2, <3>4 DEF Own, Success
  <2>15. CallInv'
    <3>1. \A b \in Attempts, r \in Result : Own(r, b) => Own(r, b)'
      BY <2>3, <2>8, SettledOwn DEF Inv, SessionInv
    <3>2. \A b \in Attempts : call[b].response \in Result /\ call[b].result \in Result
      BY DEF Inv, TypeOK, Call
    <3>3. \A b \in Attempts : Own(call[b].response, b) /\ Own(call[b].result, b)
      BY DEF Inv, SessionInv, CallInv
    <3>4. \A b \in Attempts : Own(call[b].response, b)' /\ Own(call[b].result, b)'
      <4>1. Own(call[a].response, a)'
        BY <2>6, <2>14
      <4>2. Own(call[a].result, a)'
        BY <2>6, <3>1, <3>2, <3>3
      <4>3. \A b \in Attempts : b # a => Own(call[b].response, b)' /\ Own(call[b].result, b)'
        BY <2>5, <3>1, <3>2, <3>3
      <4> QED
        BY <4>1, <4>2, <4>3
    <3>5. Success(c) # Nothing
      BY DEF Success, Nothing
    <3>6. \A b \in Attempts : /\ call'[b].at = call[b].at /\ call'[b].admitted = call[b].admitted
                              /\ b # a => call'[b].response = call[b].response
      BY <2>5, <2>6
    <3> QED
      BY <2>1, <2>6, <3>4, <3>5, <3>6 DEF Inv, SessionInv, CallInv
  <2>16. TypeOK'
    BY <1>1, <2>3, <2>7, <2>9, <2>10 DEF Inv, TypeOK
  <2> QED
    BY <2>11, <2>12, <2>13, <2>15, <2>16 DEF Inv, SessionInv
<1> QED
  BY <1>3, <1>4

\* An executed initialization error keeps the invariant.
LEMMA ExecuteInitErrorInv ==
    ASSUME Inv, ExecuteInitError
    PROVE  Inv'
<1>1. /\ Handling /\ hand \in Command /\ Unanswered(hand) /\ hand.cmd = "InitError"
      /\ UNCHANGED bootstrap
  BY InHand DEF ExecuteInitError
<1>2. PICK c \in Posts : c = hand.of
  BY <1>1, CommandType
<1>3. CASE everDelivered
  BY <1>1, <1>2, <1>3, PostRefused DEF ExecuteInitError
<1>4. CASE ~everDelivered
  <2>1. /\ CloseWith(InitFailed(c))
        /\ post' = [RejectPosts(Unhandled) EXCEPT ![c].reply = InitFailed(c)]
        /\ initError' = c /\ UNCHANGED <<now, stop, idle, everDelivered>>
    BY <1>2, <1>4 DEF ExecuteInitError
  <2>2. /\ InitFailed(c) \in Result /\ InitFailed(c) # Nothing /\ InitFailed(c).is # "ok"
    BY ResultType DEF InitFailed, Nothing
  <2> DEFINE rejected == RejectPosts(Unhandled)
  <2>3. rejected \in [Posts -> Post] /\ \A d \in Posts : rejected[d] \in Post /\ post[d] \in Post
    BY RejectType DEF Inv, TypeOK
  <2>4. \A d \in Posts : rejected[d] = post[d] \/ rejected[d] = [post[d] EXCEPT !.reply = Error]
    BY Zenon DEF RejectPosts
  <2> HIDE DEF rejected
  <2>5. \A d \in Posts : \/ post'[d] = rejected[d]
                         \/ post'[d] = [rejected[d] EXCEPT !.reply = InitFailed(c)]
    BY <2>1, <2>3 DEF rejected
  <2>6. post' \in [Posts -> Post]
    <3>1. \A r \in Post : [r EXCEPT !.reply = InitFailed(c)] \in Post
      BY <2>2 DEF Post
    <3>2. post' = [rejected EXCEPT ![c].reply = InitFailed(c)]
      BY <2>1 DEF rejected
    <3> QED
      BY <2>3, <3>1, <3>2
  <2>7. PostsSettled
    <3> SUFFICES ASSUME NEW d \in Posts
                 PROVE  post'[d].at = post[d].at /\ post'[d].attempt = post[d].attempt
      BY DEF PostsSettled
    <3>1. rejected[d].at = post[d].at /\ rejected[d].attempt = post[d].attempt
      BY <2>3, <2>4 DEF Post
    <3>2. post'[d].at = rejected[d].at /\ post'[d].attempt = rejected[d].attempt
      BY <2>3, <2>5 DEF Post
    <3> QED
      BY <3>1, <3>2
  <2>8. SessionInv'
    BY <2>1, <2>2, <2>7, CloseInv
  <2>9. TypeOK'
    BY <1>1, <2>1, <2>2, <2>6, CloseTypes DEF Inv, TypeOK
  <2> QED
    BY <2>8, <2>9 DEF Inv
<1> QED
  BY <1>3, <1>4

\* A queued event is offered to the poll that was held.
LEMMA OfferInv ==
    ASSUME Inv, pc = "deliver", phase.at = "Queued", held # None,
           phase' = Offered(phase.attempt, held),
           poll' = IF poll[held].at = "waiting"
                   THEN [poll EXCEPT ![held].reply = phase.attempt, ![held].receipt = "open"]
                   ELSE poll,
           held' = None, pc' = "select",
           UNCHANGED <<now, stop, inbox, hand, idle, everDelivered, bootstrap, initError, call, post>>
    PROVE  Inv'
<1>1. PICK a \in Attempts, p \in Polls : a = phase.attempt /\ p = held
  BY PhaseType DEF Inv, TypeOK, Pending
<1>2. /\ poll[p].at # "new" /\ poll[p].reply = None /\ call[a].admitted = Admitted /\ ~Returned(a)
      /\ hand = None /\ p # None /\ Pending
  BY <1>1 DEF Inv, SessionInv, HeldInv, HandInv, Handling, PhaseInv, Pending, DeliveredAtMostOnce
<1>3. poll \in [Polls -> Poll] /\ poll[p] \in Poll /\ None \notin Attempts
  BY SessionAssumption DEF Inv, TypeOK
<1>4. /\ poll' \in [Polls -> Poll]
      /\ \A q \in Polls : q # p => poll'[q] = poll[q]
      /\ \/ /\ poll[p].at = "waiting" /\ poll'[p].at = "waiting" /\ poll'[p].reply = a
            /\ poll'[p].receipt = "open" /\ phase' = Offering(a, p)
         \/ poll[p].at # "waiting" /\ poll'[p] = poll[p] /\ phase' = Queued(a)
  <2>1. CASE poll[p].at = "waiting"
    <3>1. poll' = [poll EXCEPT ![p].reply = a, ![p].receipt = "open"] /\ phase' = Offering(a, p)
      BY <1>1, <2>1 DEF Offered
    <3>2. /\ poll'[p] = [poll[p] EXCEPT !.reply = a, !.receipt = "open"]
          /\ \A q \in Polls : q # p => poll'[q] = poll[q]
      BY <1>3, <3>1
    <3>3. /\ poll'[p] \in Poll /\ poll'[p].at = "waiting" /\ poll'[p].reply = a
          /\ poll'[p].receipt = "open"
      BY <1>3, <2>1, <3>2 DEF Poll
    <3>4. poll' \in [Polls -> Poll]
      BY <1>3, <3>1, <3>3
    <3> QED
      BY <2>1, <3>1, <3>2, <3>3, <3>4
  <2>2. CASE poll[p].at # "waiting"
    BY <1>1, <1>3, <2>2 DEF Offered
  <2> QED
    BY <2>1, <2>2
<1>5. /\ phase' \in Phase /\ Pending' /\ phase'.attempt = a
      /\ \/ /\ phase'.at = "Offering" /\ phase'.poll = p
            /\ poll'[p].at = "waiting" /\ poll'[p].reply = a /\ poll'[p].receipt = "open"
         \/ phase'.at = "Queued" /\ poll'[p] = poll[p]
  <2>1. Offering(a, p) \in Phase /\ Queued(a) \in Phase
    BY NewPhaseType DEF Inv
  <2>2. CASE phase' = Offering(a, p) /\ poll'[p].at = "waiting" /\ poll'[p].reply = a
             /\ poll'[p].receipt = "open"
    BY <2>1, <2>2 DEF Offering, Pending
  <2>3. CASE phase' = Queued(a) /\ poll'[p] = poll[p]
    BY <2>1, <2>3 DEF Queued, Pending
  <2> QED
    BY <1>4, <2>2, <2>3
<1>6. /\ \A q \in Polls : poll'[q].at = poll[q].at
      /\ \A q \in Polls : poll[q].at = "returned" => poll'[q] = poll[q]
  BY <1>4
<1>7. InboxInv' /\ HandInv'
  <2>1. ASSUME NEW d \in Command, Unanswered(d)
        PROVE  Unanswered(d)'
    <3>1. d.cmd = "Next" => d.of \in Polls /\ d.of # p
      BY <1>1, <2>1, CommandType DEF Unanswered
    <3>2. d.cmd = "Next" => poll'[d.of] = poll[d.of] /\ held' # d.of
      BY <1>4, <3>1, SessionAssumption
    <3> QED
      BY <2>1, <3>2 DEF Unanswered
  <2>2. \A i \in DOMAIN inbox : inbox[i] \in Command
    BY DEF Inv, TypeOK
  <2>3. InboxInv'
    BY <2>1, <2>2 DEF Inv, SessionInv, InboxInv
  <2>4. HandInv'
    BY <1>2 DEF HandInv, Handling
  <2> QED
    BY <2>3, <2>4
<1>8. \A b \in Attempts : Returned(b)' <=> Returned(b)
  BY <1>6 DEF Returned
<1>9. PollInv'
  <2>1. \A b \in Attempts, s \in Nat : Timing(b, s)' = Timing(b, s)
    BY DEF Timing
  <2>2. \A q \in Polls : poll[q].started \in Nat
    BY DEF Inv, TypeOK, Poll
  <2>3. ASSUME NEW q \in Polls
        PROVE  /\ poll'[q].at = "new" => poll'[q].reply = None
               /\ poll'[q].at = "returned" <=> poll'[q].receipt = "sent"
               /\ poll'[q].at \in {"taken", "returned"} =>
                     /\ poll'[q].reply \in Attempts
                     /\ poll'[q].deadline = Timing(poll[q].reply, poll[q].started)'
               /\ poll'[q].reply \in Attempts => call'[poll'[q].reply].admitted = Admitted
    <3>1. CASE poll'[q] = poll[q]
      <4>1. poll[q].at \in {"taken", "returned"} =>
               Timing(poll[q].reply, poll[q].started)' = Timing(poll[q].reply, poll[q].started)
        BY <2>1, <2>2, <3>1 DEF Inv, SessionInv, PollInv
      <4> QED
        BY <3>1, <4>1 DEF Inv, SessionInv, PollInv
    <3>2. CASE poll'[q].at = "waiting" /\ poll'[q].reply = a /\ poll'[q].receipt = "open"
      BY <1>2, <3>2
    <3> QED
      BY <1>4, <1>5, <3>1, <3>2
  <2> QED
    BY <2>3 DEF PollInv
<1>10. PhaseInv'
  <2>1. OnlyReturnedBy(a, p)'
    BY <1>2, <1>6 DEF OnlyReturnedBy, Returned
  <2> QED
    BY <1>2, <1>5, <2>1 DEF PhaseInv
<1>11. HeldInv'
  BY DEF HeldInv
<1>12. DeliveredAtMostOnce'
  <2>1. \A q, r \in Polls : poll'[q].at = "returned" /\ poll'[r].at = "returned" =>
           poll'[q].reply # poll'[r].reply \/ q = r
    <3>1. \A q, r \in Polls : poll[q].at = "returned" /\ poll[r].at = "returned" =>
             poll[q].reply # poll[r].reply \/ q = r
      BY DEF Inv, SessionInv, DeliveredAtMostOnce
    <3>2. \A q \in Polls : poll'[q].at = "returned" => poll[q].at = "returned" /\ poll'[q] = poll[q]
      BY <1>6
    <3>3. ASSUME NEW q \in Polls, NEW r \in Polls, poll'[q].at = "returned", poll'[r].at = "returned",
                 poll'[q].reply = poll'[r].reply
          PROVE  q = r
      <4>1. poll[q].at = "returned" /\ poll[r].at = "returned"
        BY <3>2, <3>3, Zenon
      <4>2. poll[q].reply = poll[r].reply
        <5>1. poll'[q] = poll[q] /\ poll'[r] = poll[r]
          BY <3>2, <3>3, Zenon
        <5> QED
          BY <3>3, <5>1, Zenon
      <4> QED
        BY <3>1, <4>1, <4>2, Zenon
    <3> QED
      BY <3>3, Zenon
  <2>2. ~Returned(phase.attempt)'
    BY <1>2, <1>5, <1>8
  <2> QED
    BY <2>1, <2>2 DEF DeliveredAtMostOnce
<1>13. DeadlinesAgree'
  BY <1>5 DEF DeadlinesAgree
<1>14. CallInv'
  BY <1>1, <1>2, <1>5, <1>8 DEF Inv, SessionInv, CallInv, Own
<1>15. TypeOK'
  BY <1>4, <1>5 DEF Inv, TypeOK
<1> QED
  BY <1>7, <1>9, <1>10, <1>11, <1>12, <1>13, <1>14, <1>15 DEF Inv, SessionInv

\* A delivery to a waiting poll keeps the invariant.
LEMMA DeliverInv ==
    ASSUME Inv, Deliver
    PROVE  Inv'
<1>1. pc = "deliver" /\ UNCHANGED <<now, stop, everDelivered>>
  BY DEF Deliver
<1>2. CASE phase.at = "Queued" /\ held # None /\ Expired(phase.attempt, phase.deadline)
  BY <1>1, <1>2, CloseErrorInv DEF Deliver, Inv, TypeOK
<1>3. CASE phase.at = "Queued" /\ held # None /\ ~Expired(phase.attempt, phase.deadline)
  BY <1>1, <1>3, OfferInv DEF Deliver
<1>4. CASE phase.at # "Queued" \/ held = None
  BY <1>1, <1>4, PlaceInv DEF Deliver
<1> QED
  BY <1>2, <1>3, <1>4

-----------------------------------------------------------------------------
(***************************************************************************)
(* The theorems                                                            *)
(***************************************************************************)
LEMMA InitInv == Init => Inv
<1> SUFFICES ASSUME Init PROVE Inv
  OBVIOUS
<1>1. /\ now = 0 /\ stop = FALSE /\ inbox = <<>> /\ pc = "select" /\ hand = None /\ phase = Idle
      /\ held = None /\ idle = IdleLease /\ everDelivered = FALSE /\ bootstrap = FALSE
      /\ initError = None
  BY DEF Init
<1>2. \A a \in Attempts :
         /\ call[a] \in Call /\ call[a].at = "new" /\ call[a].admitted = Nothing
         /\ call[a].response = Nothing /\ call[a].result = Nothing
  BY ResultType DEF Init, Call
<1>3. \A p \in Polls : /\ poll[p] \in Poll /\ poll[p].at = "new" /\ poll[p].reply = None
                       /\ poll[p].receipt = "none"
  BY DEF Init, Poll
<1>4. \A c \in Posts : post[c] \in Post
  BY ResultType DEF Init, Post
<1>5. call \in [Attempts -> Call] /\ poll \in [Polls -> Poll] /\ post \in [Posts -> Post]
  BY <1>2, <1>3, <1>4 DEF Init
<1>6. phase \in Phase /\ phase.at = "Idle" /\ ~Pending
  BY <1>1 DEF Idle, Phase, Pending
<1>7. TypeOK
  <2>1. now \in Nat /\ idle \in Nat /\ inbox \in Seq(Command)
    BY <1>1, SessionAssumption
  <2>2. stop \in BOOLEAN /\ everDelivered \in BOOLEAN /\ bootstrap \in BOOLEAN
    BY <1>1
  <2> QED
    BY <1>1, <1>5, <1>6, <2>1, <2>2 DEF TypeOK
<1>8. Nothing.is # "ok" /\ Nothing # Admitted
  BY DEF Nothing, Admitted
<1>9. CallInv
  BY <1>2, <1>8 DEF CallInv, Own
<1>10. PollInv
  BY <1>3, SessionAssumption DEF PollInv
<1>11. InboxInv /\ HandInv /\ PhaseInv /\ HeldInv /\ DeadlinesAgree
  BY <1>1, <1>6 DEF InboxInv, HandInv, Handling, PhaseInv, HeldInv, DeadlinesAgree
<1>12. DeliveredAtMostOnce
  BY <1>3, <1>6 DEF DeliveredAtMostOnce
<1> QED
  BY <1>7, <1>9, <1>10, <1>11, <1>12 DEF Inv, SessionInv

\* Every step keeps the invariant.
LEMMA NextInv ==
    ASSUME Inv, [Next]_vars
    PROVE  Inv'
<1>1. CASE ActorStep
  BY <1>1, StoppedInv, TimerFiresInv, PhaseEventInv, ReceiveInv, CommandReceiptInv, ExecuteSubmitInv,
     ExecuteNextInv, ExecuteCompleteInv, ExecuteInitErrorInv, DeliverInv DEF ActorStep
<1>2. CASE \E a \in Attempts : Submit(a) \/ Submitted(a) \/ Cancel(a) \/ Settle(a)
  BY <1>2, SubmitInv, SubmittedInv, CancelInv, SettleInv
<1>3. CASE \E p \in Polls : NextPoll(p) \/ TakeDelivery(p) \/ SendReceipt(p) \/ EndPoll(p)
  BY <1>3, NextPollInv, TakeDeliveryInv, SendReceiptInv, EndPollInv
<1>4. CASE \E c \in Posts : PostResult(c) \/ PostInitError(c)
  BY <1>4, PostResultInv, PostInitErrorInv
<1>5. CASE Close \/ Tick
  BY <1>5, ClockAndStopInv
<1>6. CASE UNCHANGED vars
  <2>1. UNCHANGED <<now, stop, inbox, pc, hand, phase, held, idle, everDelivered, bootstrap,
                    initError, call, poll, post>>
    BY <1>6 DEF vars, actorVars
  <2>2. /\ InboxInv' /\ HandInv' /\ PollInv' /\ PhaseInv' /\ HeldInv'
        /\ DeliveredAtMostOnce' /\ DeadlinesAgree'
    BY <2>1, CallerKeeps
  <2>3. CallInv'
    BY <2>1 DEF Inv, SessionInv, CallInv, Own, Returned, Pending
  <2>4. TypeOK'
    BY <2>1 DEF Inv, TypeOK
  <2> QED
    BY <2>2, <2>3, <2>4 DEF Inv, SessionInv
<1> QED
  BY <1>1, <1>2, <1>3, <1>4, <1>5, <1>6 DEF Next

\* The inductive invariant holds: through every interleaving of callers, polls,
\* posts, the stop watch and the actor's own steps, each command is answered
\* once, and phase, oneshots and futures tell one story.
THEOREM Invariant == Spec => []Inv
<1>1. Init => Inv
  BY InitInv
<1>2. Inv /\ [Next]_vars => Inv'
  BY NextInv
<1> QED
  BY <1>1, <1>2, PTL DEF Spec

\* Every variable of the session keeps its type.
THEOREM TypeCorrect == Spec => []TypeOK
<1>1. Inv => TypeOK
  BY DEF Inv
<1> QED
  BY <1>1, Invariant, PTL

\* An event is given to the runtime at most once, however often an offer was
\* dropped, queued and offered again before.
THEOREM DeliveredOnce == Spec => []DeliveredAtMostOnce
<1>1. Inv => DeliveredAtMostOnce
  BY DEF Inv, SessionInv
<1> QED
  BY <1>1, Invariant, PTL

\* The deadline the actor enforces is the one the runtime was told.
THEOREM DeadlinesAgreed == Spec => []DeadlinesAgree
<1>1. Inv => DeadlinesAgree
  BY DEF Inv, SessionInv
<1> QED
  BY <1>1, Invariant, PTL

\* A caller that holds a ticket is answered, or its attempt is the actor's.
THEOREM TicketsOwned == Spec => []TicketOwned
<1>1. Inv => TicketOwned
  BY DEF Inv, SessionInv, CallInv, TicketOwned
<1> QED
  BY <1>1, Invariant, PTL

\* A caller's result was posted for its own attempt, after the runtime got it.
THEOREM ResultsOwn == Spec => []ResultIsOwn
<1>1. Inv => ResultIsOwn
  BY DEF Inv, SessionInv, CallInv, Own, ResultIsOwn
<1> QED
  BY <1>1, Invariant, PTL

\* The actor never goes to sleep on a queued event while a poll waits for it.
THEOREM NoWakeupLost == Spec => []NoLostWakeup
<1>1. Inv => NoLostWakeup
  BY DEF Inv, SessionInv, HeldInv, NoLostWakeup
<1> QED
  BY <1>1, Invariant, PTL

=============================================================================
