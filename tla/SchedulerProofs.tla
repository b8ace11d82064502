--------------------------- MODULE SchedulerProofs --------------------------
(***************************************************************************)
(* Proofs about the operations of the frame scheduler: each keeps it sound, *)
(* and what each may do to frames, calls, notices and the outcome.          *)
(***************************************************************************)
EXTENDS FrameProofs

\* who has reported has nobody below that still has to
Nested(g) ==
    \A i \in Frames(g) \ {ROOT} :
        g.frames[g.frames[i].parent.frame].notification = "Emitted" =>
            g.frames[i].notification = "Emitted"

\* the counters agree with what they count and stay within the limits of the plan
Accounted(g, p) ==
    /\ IsFiniteSet(Frames(g)) /\ Cardinality(Frames(g)) <= p.frames
    /\ IsFiniteSet(Books(g)) /\ g.calls = Cardinality(Books(g))
    /\ g.remaining <= p.budget

Sound(g, p) == Coherent(g, p.budget) /\ Nested(g) /\ Accounted(g, p)

\* the call that a step puts on the books
Started(u) == IF u.k = "Transition" /\ u.call # NoCall THEN {u.call} ELSE {}

\* the child that a step reports
Reported(u) == IF u.k = "ChildFinished" THEN {u.child} ELSE {}

Opened(u) == IF u.k = "ChildStarted" THEN {u.child} ELSE {}

\* A round of a frame that goes on is closed only if it has not failed, or none
\* of its branches is left.
Closes(g, h) ==
    \A i \in Frames(g) \cap Frames(h) :
        g.frames[i].round.failed /\ ~h.frames[i].cancelling =>
            \/ /\ h.frames[i].round.failed
               /\ h.frames[i].round.attempt = g.frames[i].round.attempt
            \/ \A c \in Frames(h) \ {ROOT} :
                  h.frames[c].parent.frame = i =>
                      h.frames[c].parent.round # g.frames[i].round.attempt

Grows(e, f) ==
    /\ f.parent = e.parent /\ e.generation <= f.generation /\ (e.cancelling => f.cancelling)
    /\ e.notification = "Emitted" => f.notification = "Emitted"

\* what a step with update u may do to a scheduler
Follows(g, h, u) ==
    /\ Sticky(g, h)
    /\ h.next = IF u.k = "ChildStarted" THEN g.next + 1 ELSE g.next
    /\ h.remaining <= g.remaining
    /\ Frames(h) \subseteq Frames(g) \cup Opened(u)
    /\ \A i \in Frames(g) \cap Frames(h) : Grows(g.frames[i], h.frames[i])
    /\ Closes(g, h)
    /\ Books(h) = Books(g) \cup Started(u)
    /\ \A i \in Frames(g) \ {ROOT} :
          i \notin Frames(h) \/ h.frames[i].notification = "Emitted" =>
              g.frames[i].notification = "Emitted" \/ i \in Reported(u)
    /\ \A i \in Reported(u) :
          /\ i \in Frames(g) \ {ROOT} /\ g.frames[i].notification # "Emitted"
          /\ i \in Frames(h) => h.frames[i].notification = "Emitted"
    /\ \A i \in Opened(u) :
          /\ i = g.next /\ i \in Frames(h) /\ h.frames[i].notification = "Waiting"
          /\ h.frames[i].parent.frame \in Frames(g)
          /\ h.frames[h.frames[i].parent.frame].notification = "Waiting"
    /\ \A c \in Started(u) :
          /\ c \in CallIds /\ c.frame \in Frames(g)
          /\ c.attempt = g.frames[c.frame].generation + 1
    /\ u.k = "Cancel" => u.call \in Books(g)
    /\ u.k = "Settled" => h.outcome # None

\* An uneventful update.
Uneventful(u) == u.k \in {"None", "Yield", "Park", "Settled"}

-----------------------------------------------------------------------------

LEMMA PlanTypes ==
    ASSUME NEW p \in Plans
    PROVE  /\ p.budget \in Nat /\ p.frames \in Nat \ {0} /\ p.deadline \in Nat \ {0}
           /\ \A d \in DOMAIN p.fanouts : \A f \in p.fanouts[d] : f.count \in Nat /\ f.max \in Nat
BY SchedulerAssumption

LEMMA SteadyAccounts ==
    ASSUME NEW p \in Plans, NEW g, Nested(g), Accounted(g, p), NEW h, Coherent(h, p.budget),
           Steady(g, h)
    PROVE  Sound(h, p)
<1>1. Nested(h)
  <2>1. ASSUME NEW i \in Frames(h) \ {ROOT},
               h.frames[h.frames[i].parent.frame].notification = "Emitted"
        PROVE  h.frames[i].notification = "Emitted"
    <3>1. i \in Frames(g) \ {ROOT} /\ Elder(g.frames[i], h.frames[i]) BY DEF Steady
    <3>2. h.frames[i].parent = g.frames[i].parent BY <3>1 DEF Elder
    <3>3. h.frames[i].parent.frame \in Frames(h) BY DEF Coherent, Core, Tree
    <3>4. h.frames[i].parent.frame # ROOT
      BY <2>1, <3>3 DEF Coherent, Notified
    <3>5. g.frames[h.frames[i].parent.frame].notification = "Emitted"
      BY <2>1, <3>3, <3>4 DEF Steady, Quiet
    <3>6. g.frames[i].notification = "Emitted" BY <3>1, <3>2, <3>5 DEF Nested
    <3> QED BY <3>1, <3>6 DEF Elder
  <2> QED BY <2>1 DEF Nested
<1>2. Frames(h) \subseteq Frames(g) /\ Books(h) = Books(g) /\ h.calls = g.calls
      /\ h.remaining = g.remaining
  BY DEF Steady
<1>3. IsFiniteSet(Frames(h)) /\ Cardinality(Frames(h)) <= p.frames
  <2>1. IsFiniteSet(Frames(g)) /\ Cardinality(Frames(g)) <= p.frames BY DEF Accounted
  <2>2. IsFiniteSet(Frames(h)) /\ Cardinality(Frames(h)) <= Cardinality(Frames(g))
    BY <1>2, <2>1, FS_Subset
  <2>3. Frames(h) \subseteq Nat BY FrameTypes DEF Coherent, Core
  <2> QED BY <2>1, <2>2, FS_CardinalityType, PlanTypes
<1> QED BY <1>1, <1>2, <1>3 DEF Sound, Accounted

LEMMA SteadySound ==
    ASSUME NEW p \in Plans, NEW g, Sound(g, p), NEW h, Coherent(h, p.budget), Steady(g, h)
    PROVE  Sound(h, p)
BY SteadyAccounts DEF Sound

-----------------------------------------------------------------------------
(* Steps in a row.                                                          *)

Calm(g, h, p) == Sound(h, p) /\ Steady(g, h) /\ Sticky(g, h)

LEMMA SoundTypes ==
    ASSUME NEW p \in Plans, NEW g, Sound(g, p)
    PROVE  /\ Core(g, p.budget) /\ Branches(g) /\ Notified(g) /\ Coherent(g, p.budget)
           /\ g \in Schedulers /\ g.next \in Nat /\ g.remaining \in Nat /\ Frames(g) \subseteq Nat
           /\ \A i \in Frames(g) : i < g.next /\ g.frames[i] \in FrameRecords
BY FrameTypes DEF Sound, Coherent, Core, Tree

LEMMA CalmRefl ==
    ASSUME NEW p \in Plans, NEW g, Sound(g, p)
    PROVE  Calm(g, g, p)
BY SteadyRefl DEF Sound, Calm

LEMMA CalmTrans ==
    ASSUME NEW p \in Plans, NEW g, NEW h, NEW k, Calm(g, h, p), Calm(h, k, p)
    PROVE  Calm(g, k, p)
BY SteadyTrans DEF Calm, Sticky

LEMMA SilentCalm ==
    ASSUME NEW p \in Plans, NEW g, Sound(g, p), NEW h, Tidies(g, h), Silent(g, h)
    PROVE  Calm(g, h, p)
BY SilentCoherent, SteadySound DEF Sound, Calm

LEMMA CalmFollows ==
    ASSUME NEW p \in Plans, NEW g, Sound(g, p), NEW h, Calm(g, h, p), NEW u,
           Uneventful(u) \/ (u.k = "Cancel" /\ u.call \in Books(g)),
           u.k = "Settled" => h.outcome # None
    PROVE  Follows(g, h, u)
<1>1. Started(u) = {} /\ Reported(u) = {} /\ Opened(u) = {} /\ (u.k = "Cancel" => u.call \in Books(g))
      /\ u.k # "ChildStarted"
  BY DEF Uneventful, Started, Reported, Opened
<1>2. /\ h.next = g.next /\ h.remaining = g.remaining /\ Books(h) = Books(g)
      /\ Frames(h) \subseteq Frames(g) /\ Quiet(g, h)
      /\ \A i \in Frames(h) : Elder(g.frames[i], h.frames[i])
  BY DEF Calm, Steady
<1>3. \A i \in Frames(g) \cap Frames(h) : Grows(g.frames[i], h.frames[i])
  <2>1. \A i \in Frames(g) : g.frames[i].generation \in Nat BY SoundTypes, RecordTypes
  <2> QED BY <1>2, <2>1 DEF Elder, Grows
<1>4. Closes(g, h) BY <1>2 DEF Closes, Elder
<1>5. h.remaining <= g.remaining BY <1>2, SoundTypes
<1> QED BY <1>1, <1>2, <1>3, <1>4, <1>5 DEF Follows, Calm, Quiet

LEMMA CalmBefore ==
    ASSUME NEW p \in Plans, NEW g, Sound(g, p), NEW h, Calm(g, h, p), NEW k, Sound(k, p), NEW u,
           Follows(h, k, u)
    PROVE  Follows(g, k, u)
<1>1. /\ h.next = g.next /\ h.remaining = g.remaining /\ Books(h) = Books(g)
      /\ Frames(h) \subseteq Frames(g) /\ Quiet(g, h)
      /\ \A i \in Frames(h) : Elder(g.frames[i], h.frames[i])
  BY DEF Calm, Steady
<1>2. \A i \in Frames(g) \cap Frames(k) : i \in Frames(h)
  <2>1. \A i \in Opened(u) : i = g.next BY <1>1 DEF Follows
  <2>2. \A i \in Frames(g) : i < g.next /\ g.next \in Nat BY SoundTypes
  <2> QED BY <2>1, <2>2 DEF Follows
<1>3. \A i \in Frames(g) \cap Frames(k) :
         Elder(g.frames[i], h.frames[i]) /\ Grows(h.frames[i], k.frames[i])
  BY <1>1, <1>2 DEF Follows
<1>4. \A i \in Frames(g) \cap Frames(k) : Grows(g.frames[i], k.frames[i])
  BY <1>3 DEF Elder, Grows
<1>5. Closes(g, k)
  <2>1. ASSUME NEW i \in Frames(g) \cap Frames(k), g.frames[i].round.failed, ~k.frames[i].cancelling
        PROVE  \/ /\ k.frames[i].round.failed
                  /\ k.frames[i].round.attempt = g.frames[i].round.attempt
               \/ \A c \in Frames(k) \ {ROOT} :
                     k.frames[c].parent.frame = i =>
                         k.frames[c].parent.round # g.frames[i].round.attempt
    <3>1. ~h.frames[i].cancelling BY <1>3, <2>1 DEF Grows
    <3>2. h.frames[i].round.failed /\ h.frames[i].round.attempt = g.frames[i].round.attempt
      BY <1>3, <2>1, <3>1 DEF Elder
    <3> QED BY <1>2, <2>1, <3>2 DEF Follows, Closes
  <2> QED BY <2>1 DEF Closes
<1>6. Frames(k) \subseteq Frames(g) \cup Opened(u) BY <1>1 DEF Follows
<1>7. \A i \in Frames(g) \ {ROOT} :
          i \notin Frames(k) \/ k.frames[i].notification = "Emitted" =>
              g.frames[i].notification = "Emitted" \/ i \in Reported(u)
  BY <1>1, <1>2, <1>6 DEF Follows, Quiet
<1>8. \A i \in Reported(u) : i \in Frames(g) \ {ROOT} /\ g.frames[i].notification # "Emitted"
  BY <1>1 DEF Follows, Elder
<1>9. \A c \in Started(u) : c.frame \in Frames(g)
                           /\ g.frames[c.frame].generation = h.frames[c.frame].generation
  BY <1>1 DEF Follows, Elder
<1>10. Sticky(g, k) BY DEF Sticky, Calm, Follows
<1> QED BY <1>1, <1>4, <1>5, <1>6, <1>7, <1>8, <1>9, <1>10 DEF Follows

LEMMA SteadyAfter ==
    ASSUME NEW g, NEW h, NEW u, Follows(g, h, u), Opened(u) = {},
           u.k # "ChildStarted", NEW k, Steady(h, k), Sticky(h, k)
    PROVE  Follows(g, k, u)
<1>1. /\ k.next = h.next /\ k.remaining = h.remaining /\ Books(k) = Books(h)
      /\ Frames(k) \subseteq Frames(h) /\ Quiet(h, k)
      /\ \A i \in Frames(k) : Elder(h.frames[i], k.frames[i])
  BY DEF Steady
<1>2. Frames(h) \subseteq Frames(g) BY DEF Follows
<1>3. \A i \in Frames(k) : Grows(g.frames[i], h.frames[i]) /\ Elder(h.frames[i], k.frames[i])
  BY <1>1, <1>2 DEF Follows
<1>4. \A i \in Frames(k) : Grows(g.frames[i], k.frames[i]) BY <1>3 DEF Elder, Grows
<1>5. Closes(g, k)
  <2>1. ASSUME NEW i \in Frames(g) \cap Frames(k), g.frames[i].round.failed, ~k.frames[i].cancelling
        PROVE  \/ /\ k.frames[i].round.failed
                  /\ k.frames[i].round.attempt = g.frames[i].round.attempt
               \/ \A c \in Frames(k) \ {ROOT} :
                     k.frames[c].parent.frame = i =>
                         k.frames[c].parent.round # g.frames[i].round.attempt
    <3>1. ~h.frames[i].cancelling BY <1>3, <2>1 DEF Elder
    <3>2. CASE h.frames[i].round.failed /\ h.frames[i].round.attempt = g.frames[i].round.attempt
      BY <1>3, <2>1, <3>1, <3>2 DEF Elder
    <3>3. CASE \A c \in Frames(h) \ {ROOT} :
                     h.frames[c].parent.frame = i =>
                         h.frames[c].parent.round # g.frames[i].round.attempt
      BY <3>3, <1>1, <1>3 DEF Elder
    <3> QED BY <1>1, <2>1, <3>1, <3>2, <3>3 DEF Follows, Closes
  <2> QED BY <2>1 DEF Closes
<1>6. \A i \in Frames(g) \ {ROOT} :
          i \notin Frames(k) \/ k.frames[i].notification = "Emitted" =>
              g.frames[i].notification = "Emitted" \/ i \in Reported(u)
  BY <1>1, <1>2 DEF Follows, Quiet
<1>7. \A i \in Reported(u) : i \in Frames(k) => k.frames[i].notification = "Emitted"
  BY <1>1 DEF Follows, Elder
<1>8. Sticky(g, k) /\ (u.k = "Settled" => k.outcome # None) BY DEF Sticky, Follows
<1> QED BY <1>1, <1>2, <1>4, <1>5, <1>6, <1>7, <1>8 DEF Follows

LEMMA CalmAfter ==
    ASSUME NEW p \in Plans, NEW g, NEW h, NEW u, Follows(g, h, u), Opened(u) = {},
           u.k # "ChildStarted", NEW k, Calm(h, k, p)
    PROVE  Follows(g, k, u)
BY SteadyAfter DEF Calm

-----------------------------------------------------------------------------
(* What is due comes first: cancellations, then notices.                    *)

LEMMA SafetyIs ==
    ASSUME NEW p \in Plans, NEW g, Sound(g, p)
    PROVE  /\ Calm(g, safety(g), p) /\ safety(g).outcome # None
           /\ \A x : Calm(g, observe(g, x), p)
<1>1. ASSUME NEW o \in {"Unsafe", "TimedOut"}
      PROVE  Calm(g, terminate(g, o), p) /\ terminate(g, o).outcome # None
  <2>1. o \in Decided \ {"Succeeded"} BY DEF Decided
  <2>2. PICK h : h = terminate(g, o) OBVIOUS
  <2>3. Coherent(h, p.budget) /\ Steady(g, h) /\ Sticky(g, h) /\ (g.outcome = None => h.outcome = o)
    BY <2>1, <2>2, TerminateIs DEF Sound
  <2>4. h.outcome # None BY <2>3 DEF Sticky, None
  <2>5. Calm(g, h, p) BY <2>3, SteadySound DEF Calm
  <2> QED BY <2>2, <2>4, <2>5
<1>2. Calm(g, safety(g), p) /\ safety(g).outcome # None BY <1>1 DEF safety
<1>3. ASSUME NEW x PROVE Calm(g, observe(g, x), p)
  <2>1. CASE x.now >= x.plan.deadline BY <1>1, <2>1 DEF observe
  <2>2. CASE ~(x.now >= x.plan.deadline) BY <2>2, CalmRefl DEF observe
  <2> QED BY <2>1, <2>2
<1> QED BY <1>2, <1>3

LEMMA DropStaleHead ==
    ASSUME NEW g \in Schedulers, DropStale(g).cancels # <<>>
    PROVE  LET h == DropStale(g)
           IN /\ Unissued(h, Head(h.cancels)) /\ Head(h.cancels) \in CallIds
              /\ Tail(h.cancels) \in Seq(CallIds) /\ h.frames = g.frames
<1>1. PICK due : due = {i \in DOMAIN g.cancels : Unissued(g, g.cancels[i])} OBVIOUS
<1>2. PICK first : first = CHOOSE i \in due : \A j \in due : i <= j OBVIOUS
<1>3. PICK q : q = IF due = {} THEN <<>> ELSE SubSeq(g.cancels, first, Len(g.cancels)) OBVIOUS
<1>4. DropStale(g) = [g EXCEPT !.cancels = q] BY <1>1, <1>2, <1>3 DEF DropStale
<1>5. DropStale(g).cancels = q /\ DropStale(g).frames = g.frames BY <1>4 DEF Schedulers
<1>6. due # {} BY <1>3, <1>5
<1>7. g.cancels \in Seq(CallIds) /\ due \subseteq 1..Len(g.cancels) BY <1>1 DEF Schedulers
<1>8. \E i \in due : \A j \in due : i <= j
  <2>1. due \subseteq Nat BY <1>7
  <2> QED BY <1>6, <2>1, LeastNat
<1>9. first \in due BY <1>2, <1>8
<1>10. first \in 1..Len(g.cancels) /\ q = SubSeq(g.cancels, first, Len(g.cancels))
  BY <1>3, <1>6, <1>7, <1>9
<1>11. Head(q) = g.cancels[first] /\ q \in Seq(CallIds) /\ q # <<>>
  <2>1. \A i \in first..Len(g.cancels) : g.cancels[i] \in CallIds BY <1>7, <1>10
  <2>2. first \in Int /\ Len(g.cancels) \in Int /\ first <= Len(g.cancels) BY <1>7, <1>10
  <2>3. q \in Seq(CallIds) /\ q[1] = g.cancels[first]
    <3>1. /\ SubSeq(g.cancels, first, Len(g.cancels)) \in Seq(CallIds)
          /\ \A i \in 1..(Len(g.cancels) - first + 1) :
                SubSeq(g.cancels, first, Len(g.cancels))[i] = g.cancels[first + i - 1]
      BY <2>1, <2>2, SubSeqProperties
    <3> QED BY <1>10, <2>2, <3>1
  <2> QED BY <1>3, <1>5, <2>3
<1> QED BY <1>1, <1>5, <1>7, <1>9, <1>11 DEF Unissued, Has, Frames

LEMMA NextCancelIs ==
    ASSUME NEW p \in Plans, NEW g, Sound(g, p), NEW call \in CallIds, Unissued(g, call),
           Tail(g.cancels) \in Seq(CallIds)
    PROVE  LET r == next_cancel(g, call) IN Calm(g, r.g, p) /\ Follows(g, r.g, r.update)
<1>1. call.frame \in Frames(g) /\ call.attempt \in DOMAIN g.frames[call.frame].calls
  BY DEF Unissued, Has
<1>2. PICK c : c = [g.frames[call.frame].calls EXCEPT ![call.attempt] = "CancelIssued"] OBVIOUS
<1>3. c \in [DOMAIN g.frames[call.frame].calls -> CallStates]
  <2>1. g.frames[call.frame].calls \in [DOMAIN g.frames[call.frame].calls -> CallStates]
    BY <1>1, SoundTypes, RecordTypes
  <2> QED BY <1>2, <2>1 DEF CallStates
<1>4. PICK q : q = Tail(g.cancels) OBVIOUS
<1>5. PICK h : h = [g EXCEPT !.frames[call.frame].calls = c, !.cancels = q] OBVIOUS
<1>6. next_cancel(g, call).g = h
  <2>1. g \in Schedulers /\ g.frames[call.frame] \in FrameRecords /\ g.frames \in [Frames(g) -> FrameRecords]
    BY <1>1, SoundTypes, FrameTypes
  <2>2. next_cancel(g, call).g =
          [g EXCEPT !.cancels = q, !.frames[call.frame].calls[call.attempt] = "CancelIssued"]
    BY <1>4 DEF next_cancel
  <2> QED BY <1>1, <1>2, <1>5, <2>1, <2>2 DEF Schedulers, FrameRecords
<1>7. Tidies(g, h) /\ Silent(g, h)
  BY <1>1, <1>3, <1>4, <1>5, SoundTypes, TidyCalls
<1>8. Calm(g, h, p) BY <1>7, SilentCalm
<1>9. call \in Books(g)
  <2>1. call = [frame |-> call.frame, attempt |-> call.attempt] BY DEF CallIds
  <2> QED BY <1>1, <2>1, BooksIs
<1>10. PICK u : u = next_cancel(g, call).update OBVIOUS
<1>11. u.k = "Cancel" /\ u.call = call BY <1>10 DEF next_cancel, Update
<1>12. Follows(g, h, u) BY <1>8, <1>9, <1>11, CalmFollows
<1> QED BY <1>6, <1>8, <1>10, <1>12

LEMMA TailOf ==
    ASSUME NEW s \in Seq(Nat), s # <<>>, IsInjective(s)
    PROVE  /\ Head(s) = s[1] /\ Len(s) >= 1 /\ Tail(s) \in Seq(Nat) /\ Len(Tail(s)) = Len(s) - 1
           /\ \A n \in 1..Len(Tail(s)) : n + 1 \in 1..Len(s) /\ Tail(s)[n] = s[n + 1]
           /\ Range(Tail(s)) = Range(s) \ {s[1]} /\ IsInjective(Tail(s)) /\ s[1] \in Range(s)
<1>1. /\ Head(s) = s[1] /\ Len(s) >= 1 /\ Tail(s) \in Seq(Nat) /\ Len(Tail(s)) = Len(s) - 1
      /\ \A n \in 1..Len(Tail(s)) : n + 1 \in 1..Len(s) /\ Tail(s)[n] = s[n + 1]
      /\ DOMAIN s = 1..Len(s) /\ DOMAIN Tail(s) = 1..(Len(s) - 1)
  OBVIOUS
<1>2. \A m, n \in 1..Len(s) : s[m] = s[n] => m = n BY <1>1 DEF IsInjective
<1>3. ASSUME NEW x PROVE x \in Range(Tail(s)) <=> x \in Range(s) \ {s[1]}
  <2>1. ASSUME x \in Range(Tail(s)) PROVE x \in Range(s) \ {s[1]}
    <3>1. PICK n \in 1..Len(Tail(s)) : x = s[n + 1] BY <1>1, <2>1 DEF Range
    <3>2. n + 1 # 1 /\ n + 1 \in 1..Len(s) /\ 1 \in 1..Len(s) BY <1>1
    <3>3. s[n + 1] # s[1] BY <1>2, <3>2
    <3> QED BY <1>1, <3>1, <3>2, <3>3 DEF Range
  <2>2. ASSUME x \in Range(s) \ {s[1]} PROVE x \in Range(Tail(s))
    <3>1. PICK n \in 1..Len(s) : x = s[n] BY <1>1, <2>2 DEF Range
    <3>2. n # 1 BY <2>2, <3>1
    <3>3. n - 1 \in 1..Len(Tail(s)) /\ n - 1 \in DOMAIN Tail(s) BY <1>1, <3>2
    <3>4. Tail(s)[n - 1] = x BY <1>1, <3>1, <3>3
    <3> QED BY <3>3, <3>4 DEF Range
  <2> QED BY <2>1, <2>2
<1>4. IsInjective(Tail(s))
  <2>1. ASSUME NEW m \in DOMAIN Tail(s), NEW n \in DOMAIN Tail(s), Tail(s)[m] = Tail(s)[n] PROVE m = n
    <3>1. m \in 1..Len(Tail(s)) /\ n \in 1..Len(Tail(s)) BY <1>1
    <3>2. s[m + 1] = s[n + 1] /\ m + 1 \in 1..Len(s) /\ n + 1 \in 1..Len(s) BY <1>1, <2>1, <3>1
    <3>3. m + 1 = n + 1 BY <1>2, <3>2
    <3> QED BY <3>1, <3>3
  <2> QED BY <2>1 DEF IsInjective
<1>5. s[1] \in Range(s) BY <1>1 DEF Range
<1> QED BY <1>1, <1>3, <1>4, <1>5

\* One frame is replaced.
LEMMA FrameSet ==
    ASSUME NEW g \in Schedulers, NEW i \in Frames(g), NEW e \in FrameRecords,
           NEW F, F = [g.frames EXCEPT ![i] = e]
    PROVE  /\ F \in Partial(Nat, FrameRecords) /\ DOMAIN F = Frames(g)
           /\ F[i] = e /\ \A j \in Frames(g) \ {i} : F[j] = g.frames[j]
<1>1. g.frames \in [Frames(g) -> FrameRecords] /\ Frames(g) \subseteq Nat BY FrameTypes
<1>2. F \in [Frames(g) -> FrameRecords] /\ F[i] = e /\ \A j \in Frames(g) \ {i} : F[j] = g.frames[j]
  BY <1>1
<1>3. DOMAIN F = Frames(g) BY <1>2
<1>4. F \in Partial(Nat, FrameRecords) BY <1>1, <1>2, <1>3, PartialFn
<1> QED BY <1>2, <1>3, <1>4

LEMMA PopNoticeIs ==
    ASSUME NEW p \in Plans, NEW g, Sound(g, p), g.pending # <<>>
    PROVE  LET r == pop_notice(g, Head(g.pending)) IN Sound(r.g, p) /\ Follows(g, r.g, r.update)
<1>1. /\ g \in Schedulers /\ Core(g, p.budget) /\ Branches(g) /\ Notified(g) /\ Still(g)
      /\ \A i \in Frames(g) : g.frames[i] \in FrameRecords
  BY SoundTypes, BranchesStill
<1>2. PICK child : child = Head(g.pending) OBVIOUS
<1>3. PICK q : q = Tail(g.pending) OBVIOUS
<1>4. /\ child = g.pending[1] /\ Len(g.pending) >= 1 /\ q \in Seq(Nat) /\ Len(q) = Len(g.pending) - 1
      /\ \A n \in 1..Len(q) : n + 1 \in 1..Len(g.pending) /\ q[n] = g.pending[n + 1]
      /\ Range(q) = Range(g.pending) \ {child} /\ IsInjective(q) /\ child \in Range(g.pending)
  <2>1. g.pending \in Seq(Nat) /\ IsInjective(g.pending) BY <1>1, FrameTypes DEF Notified
  <2> QED BY <1>2, <1>3, <2>1, TailOf
<1>5. /\ child \in Frames(g) /\ g.frames[child].notification = "Queued"
      /\ child # ROOT /\ Outcome(g.frames[child]) # None /\ g.frames[child].cancelling
  BY <1>1, <1>4 DEF Notified, Still
<1>6. PICK f : f = [g.frames[child] EXCEPT !.notification = "Emitted"] OBVIOUS
<1>7. /\ f \in FrameRecords /\ f.notification = "Emitted" /\ f.children = g.frames[child].children
      /\ f.phase = g.frames[child].phase /\ f.generation = g.frames[child].generation
      /\ f.parent = g.frames[child].parent /\ f.depth = g.frames[child].depth
      /\ f.round = g.frames[child].round /\ f.cancelling = g.frames[child].cancelling
      /\ f.calls = g.frames[child].calls
  <2>1. g.frames[child] \in FrameRecords BY <1>1, <1>5
  <2> QED BY <1>6, <2>1 DEF FrameRecords
<1>8. PICK F : F = [g.frames EXCEPT ![child] = f] OBVIOUS
<1>9. /\ F \in Partial(Nat, FrameRecords) /\ DOMAIN F = Frames(g)
      /\ F[child] = f /\ \A j \in Frames(g) \ {child} : F[j] = g.frames[j]
  BY <1>1, <1>5, <1>7, <1>8, FrameSet
<1>10. PICK e : e = [g EXCEPT !.pending = q, !.frames = F] OBVIOUS
<1>11. /\ e \in Schedulers /\ Frames(e) = Frames(g) /\ e.frames = F /\ e.pending = q
       /\ e.queued = g.queued /\ e.blocked = g.blocked /\ e.next = g.next
       /\ e.remaining = g.remaining /\ e.calls = g.calls /\ e.outcome = g.outcome
  <2>1. e \in Schedulers BY <1>1, <1>4, <1>9, <1>10 DEF Schedulers
  <2>2. e.frames = F /\ e.pending = q
        /\ e.queued = g.queued /\ e.blocked = g.blocked /\ e.next = g.next
        /\ e.remaining = g.remaining /\ e.calls = g.calls /\ e.outcome = g.outcome
    BY <1>1, <1>10 DEF Schedulers
  <2> QED BY <1>9, <2>1, <2>2 DEF Frames
<1>12. PICK r : r = pop_notice(g, child) OBVIOUS
<1>13. r.g = prune(e, child) /\ r.update.k = "ChildFinished" /\ r.update.child = child
       /\ r.update.call = NoCall
  <2>1. r.g = prune([g EXCEPT !.pending = q, !.frames = [g.frames EXCEPT ![child].notification = "Emitted"]],
                    child)
    <3>1. Has(g, child) BY <1>5 DEF Has
    <3>2. r.g = prune([g EXCEPT !.pending = q,
                                !.frames = IF Has(g, child)
                                           THEN [g.frames EXCEPT ![child].notification = "Emitted"]
                                           ELSE g.frames], child)
      BY <1>1, <1>3, <1>12 DEF pop_notice, Schedulers
    <3> QED BY <3>1, <3>2
  <2>2. [g.frames EXCEPT ![child].notification = "Emitted"] = F BY <1>6, <1>8
  <2> QED BY <1>10, <1>12, <2>1, <2>2 DEF pop_notice, Update
<1>14. ASSUME NEW i \in Frames(g)
       PROVE  /\ Alike(g.frames[i], F[i]) /\ F[i].children = g.frames[i].children
              /\ F[i].calls = g.frames[i].calls /\ F[i].parent = g.frames[i].parent
              /\ F[i].cancelling = g.frames[i].cancelling /\ F[i].round = g.frames[i].round
              /\ F[i].generation = g.frames[i].generation
              /\ Outcome(F[i]) = Outcome(g.frames[i])
              /\ F[i].notification = IF i = child THEN "Emitted" ELSE g.frames[i].notification
  <2>1. CASE i = child BY <2>1, <1>5, <1>7, <1>9 DEF Alike, Outcome
  <2>2. CASE i # child
    <3>1. F[i] = g.frames[i] BY <2>2, <1>9
    <3> QED BY <2>2, <3>1 DEF Alike
  <2> QED BY <2>1, <2>2
<1>15. Tidies(g, e)
  <2>1. \A i \in Frames(g) : g.frames[i].children \cap Frames(g) = g.frames[i].children
    BY <1>1 DEF Core, Tree
  <2>2. Queues(e) BY <1>1, <1>11 DEF Core, Queues
  <2> QED BY <2>1, <2>2, <1>11, <1>14 DEF Tidies
<1>16. Notified(e)
  <2>1. \A i \in Frames(e) :
           /\ e.frames[i].cancelling =>
                 Outcome(e.frames[i]) # None /\ (i # ROOT => e.frames[i].notification # "Waiting")
           /\ e.frames[i].notification # "Waiting" => i # ROOT /\ Outcome(e.frames[i]) # None
    BY <1>1, <1>5, <1>11, <1>14 DEF Notified
  <2>2. Range(e.pending) = {i \in Frames(e) : e.frames[i].notification = "Queued"}
    BY <1>1, <1>4, <1>5, <1>11, <1>14 DEF Notified
  <2>3. ASSUME NEW m \in 1..Len(q), NEW n \in 1..Len(q), m <= n
        PROVE  F[q[n]].parent.frame # q[m]
    <3>1. m + 1 \in 1..Len(g.pending) /\ n + 1 \in 1..Len(g.pending) /\ m + 1 <= n + 1
          /\ q[m] = g.pending[m + 1] /\ q[n] = g.pending[n + 1]
      <4>1. m \in Int /\ n \in Int /\ m + 1 <= n + 1 BY <2>3
      <4> QED BY <4>1, <1>4
    <3>2. g.frames[g.pending[n + 1]].parent.frame # g.pending[m + 1] BY <3>1, <1>1 DEF Notified
    <3>3. q[n] \in Range(q)
      <4>1. DOMAIN q = 1..Len(q) BY <1>4
      <4> QED BY <4>1 DEF Range
    <3>4. q[n] \in Frames(g) BY <3>3, <1>4, <1>1 DEF Notified
    <3> QED BY <3>1, <3>2, <3>4, <1>14
  <2>4. \A m, n \in 1..Len(e.pending) :
           m <= n => e.frames[e.pending[n]].parent.frame # e.pending[m]
    BY <2>3, <1>11
  <2> QED BY <2>1, <2>2, <2>4, <1>4, <1>11 DEF Notified
<1>17. Coherent(e, p.budget)
  <2>1. Core(e, p.budget) /\ Branches(e) BY <1>1, <1>15, TidyCore, TidyLive
  <2> QED BY <2>1, <1>11, <1>16 DEF Coherent, Sound
<1>18. \A n \in 1..Len(g.pending) : g.frames[g.pending[n]].parent.frame # child
  <2>1. ASSUME NEW n \in 1..Len(g.pending) PROVE g.frames[g.pending[n]].parent.frame # child
    <3>1. 1 \in 1..Len(g.pending) /\ 1 <= n BY <1>4
    <3> QED BY <3>1, <1>1, <1>4 DEF Notified
  <2> QED BY <2>1
<1>19. Nested(e)
  <2>1. ASSUME NEW i \in Frames(g) \ {ROOT}, F[F[i].parent.frame].notification = "Emitted"
        PROVE  F[i].notification = "Emitted"
    <3>1. g.frames[i].parent.frame \in Frames(g) BY <1>1 DEF Core, Tree
    <3>2. CASE g.frames[i].parent.frame = child
      <4>1. g.frames[i].notification # "Waiting"
        BY <3>2, <1>1, <1>5, CancelledBelow DEF Branches
      <4>2. g.frames[i].notification # "Queued"
        <5>1. SUFFICES ASSUME g.frames[i].notification = "Queued" PROVE FALSE OBVIOUS
        <5>2. i \in Range(g.pending) BY <5>1, <1>1 DEF Notified
        <5>3. DOMAIN g.pending = 1..Len(g.pending) BY <1>1, FrameTypes
        <5>4. PICK n \in 1..Len(g.pending) : i = g.pending[n] BY <5>2, <5>3 DEF Range
        <5> QED BY <5>4, <3>2, <1>18
      <4>3. g.frames[i].notification \in {"Waiting", "Queued", "Emitted"} BY <1>1, RecordTypes
      <4> QED BY <4>1, <4>2, <4>3, <1>14
    <3>3. CASE g.frames[i].parent.frame # child
      <4>1. g.frames[g.frames[i].parent.frame].notification = "Emitted" BY <2>1, <3>1, <3>3, <1>14
      <4>2. g.frames[i].notification = "Emitted" BY <4>1 DEF Sound, Nested
      <4> QED BY <4>2, <1>14
    <3> QED BY <3>2, <3>3
  <2> QED BY <2>1, <1>11 DEF Nested
<1>20. Books(e) = Books(g) BY <1>15, TidyBooks
<1>21. Sound(e, p)
  <2>1. Accounted(e, p) BY <1>11, <1>20 DEF Sound, Accounted
  <2> QED BY <1>17, <1>19, <2>1 DEF Sound
<1>22. Follows(g, e, r.update)
  <2>1. Started(r.update) = {} /\ Reported(r.update) = {child} /\ Opened(r.update) = {}
    BY <1>13 DEF Started, Reported, Opened
  <2>2. \A i \in Frames(g) : Grows(g.frames[i], F[i])
    <3>1. \A i \in Frames(g) : g.frames[i].generation \in Nat BY <1>1, RecordTypes
    <3> QED BY <3>1, <1>14 DEF Grows
  <2>3. Closes(g, e) BY <1>11, <1>14 DEF Closes
  <2>4. e.remaining <= g.remaining BY <1>11, SoundTypes
  <2> QED BY <2>1, <2>2, <2>3, <2>4, <1>5, <1>11, <1>13, <1>14, <1>20 DEF Follows, Sticky
<1>23. Calm(e, prune(e, child), p)
  <2>1. Tidies(e, prune(e, child)) /\ Silent(e, prune(e, child)) BY <1>21, SoundTypes, PruneIs
  <2> QED BY <2>1, <1>21, SilentCalm
<1>24. Opened(r.update) = {} /\ r.update.k # "ChildStarted" BY <1>13 DEF Opened
<1>25. Follows(g, r.g, r.update) BY <1>13, <1>22, <1>23, <1>24, CalmAfter
<1> QED BY <1>2, <1>12, <1>13, <1>23, <1>25 DEF Calm

\* what a method may return
Fine(g, r, p) == Sound(r.g, p) /\ Follows(g, r.g, r.update)

LEMMA FineBefore ==
    ASSUME NEW p \in Plans, NEW g, Sound(g, p), NEW h, Calm(g, h, p), NEW r, Fine(h, r, p)
    PROVE  Fine(g, r, p)
BY CalmBefore DEF Fine

LEMMA ObligationsIs ==
    ASSUME NEW p \in Plans, NEW g, Sound(g, p), NEW u, Uneventful(u),
           u.k = "Settled" => g.outcome # None
    PROVE  LET r == Obligations(g, u)
           IN Fine(g, r, p) /\ (r.update.k = "None" => Calm(g, r.g, p))
<1>1. PICK h : h = DropStale(g) OBVIOUS
<1>2. Calm(g, h, p)
  <2>1. Tidies(g, h) /\ Silent(g, h) BY <1>1, SoundTypes, DropStaleIs
  <2> QED BY <2>1, SilentCalm
<1>3. Sound(h, p) BY <1>2 DEF Calm
<1>4. PICK r : r = FirstDue(h, u) OBVIOUS
<1>5. Obligations(g, u) = r BY <1>1, <1>4 DEF Obligations
<1>6. CASE h.cancels # <<>>
  <2>1. PICK c : c = Head(h.cancels) OBVIOUS
  <2>2. Unissued(h, c) /\ c \in CallIds /\ Tail(h.cancels) \in Seq(CallIds)
    BY <1>1, <1>6, <2>1, SoundTypes, DropStaleHead
  <2>3. Calm(h, next_cancel(h, c).g, p) /\ Follows(h, next_cancel(h, c).g, next_cancel(h, c).update)
    BY <1>3, <2>2, NextCancelIs
  <2>4. r = next_cancel(h, c) BY <1>4, <1>6, <2>1 DEF FirstDue
  <2>5. Fine(h, r, p) BY <2>3, <2>4 DEF Calm, Fine
  <2>6. r.update.k = "Cancel" BY <2>4 DEF next_cancel, Update
  <2> QED BY <1>2, <1>5, <2>5, <2>6, FineBefore
<1>7. CASE h.cancels = <<>> /\ h.pending # <<>>
  <2>1. r = pop_notice(h, Head(h.pending)) BY <1>4, <1>7 DEF FirstDue
  <2>2. Fine(h, r, p) BY <1>3, <1>7, <2>1, PopNoticeIs DEF Fine
  <2>3. r.update.k = "ChildFinished" BY <2>1 DEF pop_notice, Update
  <2> QED BY <1>2, <1>5, <2>2, <2>3, FineBefore
<1>8. CASE h.cancels = <<>> /\ h.pending = <<>>
  <2>1. r = [g |-> h, update |-> u] BY <1>4, <1>8 DEF FirstDue
  <2>2. u.k = "Settled" => h.outcome # None BY <1>2 DEF Calm, Sticky
  <2>3. Follows(g, h, u) BY <1>2, <2>2, CalmFollows
  <2> QED BY <1>2, <1>3, <1>5, <2>1, <2>3 DEF Fine
<1> QED BY <1>6, <1>7, <1>8

LEMMA TerminalUpdateIs ==
    ASSUME NEW p \in Plans, NEW g, Sound(g, p)
    PROVE  Fine(g, terminal_update(g), p)
<1>1. PICK u : u = IF g.outcome = None THEN Plain("Yield") ELSE Plain("Settled") OBVIOUS
<1>2. Uneventful(u) /\ (u.k = "Settled" => g.outcome # None)
  BY <1>1 DEF Uneventful, Plain, Update
<1>3. terminal_update(g) = Obligations(g, u) BY <1>1 DEF terminal_update
<1> QED BY <1>2, <1>3, ObligationsIs

LEMMA UnsafeIs ==
    ASSUME NEW p \in Plans, NEW g, Sound(g, p)
    PROVE  Fine(g, terminal_update(safety(g)), p)
<1>1. Calm(g, safety(g), p) BY SafetyIs
<1>2. Fine(safety(g), terminal_update(safety(g)), p) BY <1>1, TerminalUpdateIs DEF Calm
<1> QED BY <1>1, <1>2, FineBefore

-----------------------------------------------------------------------------
(* The ready queue: what is due is woken, what does not act is skipped.     *)

LEMMA WakeBlockedIs ==
    ASSUME NEW p \in Plans, NEW g, Sound(g, p)
    PROVE  Calm(g, WakeBlocked(g), p)
<1>1. DOMAIN g.blocked \subseteq 0..(g.next - 1)
  <2>1. DOMAIN g.blocked \subseteq Frames(g) BY SoundTypes DEF Core, Queues
  <2> QED BY <2>1, SoundTypes
<1>2. Ascending(g, DOMAIN g.blocked) \in Seq(Nat) BY <1>1, SoundTypes, AscendingIs
<1> QED BY <1>2, SoundTypes, EnqueueAllIs, SilentCalm DEF WakeBlocked

LEMMA WakeDueIs ==
    ASSUME NEW p \in Plans, NEW g, Sound(g, p), NEW x
    PROVE  Calm(g, WakeDue(g, x), p)
<1>1. PICK due : due = {i \in Frames(g) : Timed(g.frames[i]) /\ x.now >= g.frames[i].phase.until}
  OBVIOUS
<1>2. due \subseteq 0..(g.next - 1) BY <1>1, SoundTypes
<1>3. Ascending(g, due) \in Seq(Nat) BY <1>2, SoundTypes, AscendingIs
<1>4. PICK h : h = EnqueueAll(g, Ascending(g, due)) OBVIOUS
<1>5. Calm(g, h, p) BY <1>3, <1>4, SoundTypes, EnqueueAllIs, SilentCalm
<1>6. Calm(h, WakeBlocked(h), p) BY <1>5, WakeBlockedIs DEF Calm
<1> QED BY <1>1, <1>4, <1>5, <1>6, CalmTrans DEF WakeDue

LEMMA PopIs ==
    ASSUME NEW p \in Plans, NEW g, Sound(g, p), g.ready # <<>>
    PROVE  /\ Calm(g, Pop(g), p) /\ Head(g.ready) \in Nat
           /\ Pop(g).frames = g.frames /\ Pop(g).outcome = g.outcome /\ Pop(g).next = g.next
           /\ Pop(g).remaining = g.remaining /\ Pop(g).calls = g.calls
<1>1. PICK q : q = Tail(g.ready) OBVIOUS
<1>2. PICK s : s = g.queued \ {Head(g.ready)} OBVIOUS
<1>3. g \in Schedulers /\ g.ready \in Seq(Nat) /\ g.queued \subseteq Nat /\ Core(g, p.budget)
  BY SoundTypes, FrameTypes
<1>4. q \in Seq(Nat) /\ s \subseteq Nat /\ Head(g.ready) \in Nat BY <1>1, <1>2, <1>3
<1>5. Pop(g) = [g EXCEPT !.ready = q, !.queued = s] BY <1>1, <1>2, <1>3 DEF Pop, Schedulers
<1>6. PICK h : h = Pop(g) OBVIOUS
<1>7. /\ h \in Schedulers /\ h.frames = g.frames /\ h.queued = s /\ h.blocked = g.blocked
      /\ h.next = g.next /\ h.remaining = g.remaining /\ h.calls = g.calls
      /\ h.outcome = g.outcome /\ h.pending = g.pending
  <2>1. h \in Schedulers BY <1>3, <1>4, <1>5, <1>6 DEF Schedulers
  <2> QED BY <1>3, <1>5, <1>6, <2>1 DEF Schedulers
<1>8. Queues(h) BY <1>2, <1>3, <1>7 DEF Core, Queues, Frames
<1>9. Tidies(g, h) /\ Silent(g, h) BY <1>3, <1>7, <1>8, TidyQueues
<1>10. Calm(g, h, p) BY <1>9, SilentCalm
<1> QED BY <1>4, <1>6, <1>7, <1>10

LEMMA PutIs ==
    ASSUME NEW R, NEW f, f \in Partial(Nat, R), NEW x \in Nat, NEW v \in R
    PROVE  Put(f, x, v) \in Partial(Nat, R)
<1>1. DOMAIN f \subseteq Nat /\ f \in [DOMAIN f -> R] BY PartialFn
<1>2. DOMAIN Put(f, x, v) = DOMAIN f \cup {x} BY DEF Put
<1>3. Put(f, x, v) \in [DOMAIN f \cup {x} -> R] BY <1>1 DEF Put
<1> QED BY <1>1, <1>2, <1>3, PartialFn

LEMMA SkipEntryIs ==
    ASSUME NEW p \in Plans, NEW g, Sound(g, p), NEW id \in Nat, NEW x
    PROVE  Calm(g, SkipEntry(g, id, x), p)
<1>1. CASE ~Has(g, id) BY <1>1, CalmRefl DEF SkipEntry
<1>2. CASE Has(g, id) /\ g.frames[id].cancelling
  <2>1. Tidies(g, prune(g, id)) /\ Silent(g, prune(g, id)) BY SoundTypes, PruneIs
  <2> QED BY <1>2, <2>1, SilentCalm DEF SkipEntry
<1>3. CASE Has(g, id) /\ ~g.frames[id].cancelling
  <2>1. CASE RoundVerdict(g, id, x) = "block"
    <3>1. PICK v : v = Acquire(g, x) OBVIOUS
    <3>2. v \in {"Local", "Global"} BY <2>1, <3>1 DEF RoundVerdict, Acquire
    <3>3. PICK B : B = Put(g.blocked, id, v) OBVIOUS
    <3>4. g \in Schedulers /\ Core(g, p.budget) BY SoundTypes
    <3>5. B \in Partial(Nat, {"Local", "Global"}) /\ DOMAIN B = DOMAIN g.blocked \cup {id}
      <4>1. g.blocked \in Partial(Nat, {"Local", "Global"}) BY <3>4, FrameTypes
      <4>2. PICK R : R = {"Local", "Global"} OBVIOUS
      <4>3. g.blocked \in Partial(Nat, R) /\ v \in R BY <3>2, <4>1, <4>2
      <4>5. B \in Partial(Nat, R) BY <3>3, <4>3, PutIs
      <4>6. DOMAIN Put(g.blocked, id, v) = DOMAIN g.blocked \cup {id} BY DEF Put
      <4> QED BY <3>3, <4>2, <4>5, <4>6
    <3>6. PICK h : h = [g EXCEPT !.blocked = B] OBVIOUS
    <3>7. /\ h \in Schedulers /\ h.frames = g.frames /\ h.queued = g.queued /\ h.blocked = B
          /\ h.next = g.next /\ h.remaining = g.remaining /\ h.calls = g.calls
          /\ h.outcome = g.outcome /\ h.pending = g.pending
      BY <3>4, <3>5, <3>6 DEF Schedulers
    <3>8. Queues(h) BY <1>3, <3>4, <3>5, <3>7 DEF Core, Queues, Frames, Has
    <3>9. Tidies(g, h) /\ Silent(g, h) BY <3>4, <3>7, <3>8, TidyQueues
    <3>10. h = [g EXCEPT !.blocked = Put(@, id, Acquire(g, x))] BY <3>1, <3>3, <3>4, <3>6 DEF Schedulers
    <3>11. SkipEntry(g, id, x) \in {g, h} BY <1>3, <3>10 DEF SkipEntry
    <3> QED BY <3>9, <3>11, SilentCalm, CalmRefl
  <2>2. CASE RoundVerdict(g, id, x) # "block"
    <3>1. SkipEntry(g, id, x) = g BY <1>3, <2>2 DEF SkipEntry
    <3> QED BY <3>1, CalmRefl
  <2> QED BY <2>1, <2>2
<1> QED BY <1>1, <1>2, <1>3

LEMMA SkipIs ==
    ASSUME NEW p \in Plans, NEW g, Sound(g, p), g.ready # <<>>, NEW x
    PROVE  Calm(g, Skip(g, x), p)
<1>1. Calm(g, Pop(g), p) /\ Head(g.ready) \in Nat BY PopIs
<1>2. Calm(Pop(g), SkipEntry(Pop(g), Head(g.ready), x), p) BY <1>1, SkipEntryIs DEF Calm
<1> QED BY <1>1, <1>2, CalmTrans DEF Skip

\* f[k] is the scheduler after k entries at most
SkipFold(f, g, x, n) ==
    f = [i \in 0..n |-> IF i = 0 THEN g ELSE SkipUnlessActs(f[i - 1], x)]

LEMMA SkipFoldExtends ==
    ASSUME NEW g, NEW x, NEW n \in Nat, NEW f, SkipFold(f, g, x, n)
    PROVE  \E e : SkipFold(e, g, x, n + 1)
<1>1. PICK last : last = SkipUnlessActs(f[n], x) OBVIOUS
<1>2. PICK e : e = [i \in 0..(n + 1) |-> IF i = n + 1 THEN last ELSE f[i]] OBVIOUS
<1>3. ASSUME NEW i \in 0..(n + 1)
      PROVE  e[i] = IF i = 0 THEN g ELSE SkipUnlessActs(e[i - 1], x)
  <2>1. CASE i = n + 1
    <3>1. n \in 0..(n + 1) /\ n # n + 1 /\ i - 1 = n /\ i # 0 BY <2>1
    <3>2. e[i] = last /\ e[i - 1] = f[n] BY <2>1, <3>1, <1>2
    <3> QED BY <3>1, <3>2, <1>1, <2>1
  <2>2. CASE i = 0
    <3>1. e[0] = f[0] BY <1>2
    <3>2. f[0] = g BY DEF SkipFold
    <3> QED BY <3>1, <3>2, <2>2
  <2>3. CASE i \in 1..n
    <3>1. i \in 0..n /\ i - 1 \in 0..(n + 1) /\ i # n + 1 /\ i - 1 # n + 1 /\ i # 0 BY <2>3
    <3>2. e[i] = f[i] /\ e[i - 1] = f[i - 1] BY <3>1, <1>2
    <3>3. f[i] = SkipUnlessActs(f[i - 1], x) BY <3>1 DEF SkipFold
    <3> QED BY <3>1, <3>2, <3>3
  <2> QED BY <2>1, <2>2, <2>3
<1>4. e = [i \in 0..(n + 1) |-> e[i]] BY <1>2
<1> QED BY <1>3, <1>4, Zenon DEF SkipFold

LEMMA SkipIdleIs ==
    ASSUME NEW g, NEW x, NEW m \in Nat
    PROVE  \E f : /\ SkipIdle(g, x, m) = f[m] /\ f[0] = g
                  /\ \A i \in 1..m : f[i] = SkipUnlessActs(f[i - 1], x)
<1>1. PICK T : T = {n \in Nat : \E f : SkipFold(f, g, x, n)} OBVIOUS
<1>2. 0 \in T
  <2>1. PICK f : f = [i \in 0..0 |-> g] OBVIOUS
  <2>2. SkipFold(f, g, x, 0) BY <2>1 DEF SkipFold
  <2> QED BY <1>1, <2>2
<1>3. ASSUME NEW n \in Nat, n \in T PROVE n + 1 \in T
  <2>1. PICK f : SkipFold(f, g, x, n) BY <1>1, <1>3
  <2>2. PICK e : SkipFold(e, g, x, n + 1) BY <2>1, SkipFoldExtends
  <2> QED BY <1>1, <2>2
<1>4. Nat \subseteq T BY <1>2, <1>3, Induction
<1>5. \E f : SkipFold(f, g, x, m) BY <1>1, <1>4
<1> DEFINE chosen == CHOOSE f : SkipFold(f, g, x, m)
<1>6. SkipFold(chosen, g, x, m) BY <1>5
<1>7. SkipIdle(g, x, m) = chosen[m] BY Zenon DEF SkipIdle, SkipFold
<1> HIDE DEF chosen
<1>8. chosen[0] = g BY <1>6 DEF SkipFold
<1>9. ASSUME NEW i \in 1..m PROVE chosen[i] = SkipUnlessActs(chosen[i - 1], x)
  <2>1. i \in 0..m /\ i # 0 OBVIOUS
  <2> QED BY <2>1, <1>6 DEF SkipFold
<1> QED BY <1>7, <1>8, <1>9

LEMMA SkipIdleCalm ==
    ASSUME NEW p \in Plans, NEW g, Sound(g, p), NEW x, NEW m \in Nat
    PROVE  Calm(g, SkipIdle(g, x, m), p)
<1>1. PICK f : /\ SkipIdle(g, x, m) = f[m] /\ f[0] = g
               /\ \A i \in 1..m : f[i] = SkipUnlessActs(f[i - 1], x)
  BY SkipIdleIs
<1>2. PICK T : T = {k \in Nat : k <= m => Calm(g, f[k], p)} OBVIOUS
<1>3. 0 \in T BY <1>1, <1>2, CalmRefl
<1>4. ASSUME NEW k \in Nat, k \in T PROVE k + 1 \in T
  <2>1. CASE k + 1 <= m
    <3>1. Calm(g, f[k], p) BY <1>2, <1>4, <2>1
    <3>2. f[k + 1] = SkipUnlessActs(f[k], x) BY <1>1, <2>1
    <3>3. Calm(f[k], f[k + 1], p)
      BY <3>1, <3>2, SkipIs, CalmRefl DEF SkipUnlessActs, Calm
    <3>4. Calm(g, f[k + 1], p) BY <3>1, <3>3, CalmTrans
    <3> QED BY <1>2, <3>4
  <2>2. CASE ~(k + 1 <= m) BY <1>2, <2>2
  <2> QED BY <2>1, <2>2
<1>5. Nat \subseteq T BY <1>3, <1>4, Induction
<1> QED BY <1>1, <1>2, <1>5

-----------------------------------------------------------------------------
(* One step of an interpreter.                                              *)

\* what a method sees
Sees(x, p) == x.plan = p /\ x.now \in Nat

\* what the step of a frame with generation gen and rem transitions may be
Steps(s, gen, rem) ==
    /\ s.phase \in Phases /\ s.phase.outcome \in {None, "Succeeded", "Failed", "Unsafe"}
    /\ s.remaining \in Nat /\ s.remaining <= rem
    /\ s.generation \in Nat /\ gen <= s.generation /\ s.generation + s.remaining <= gen + rem
    /\ s.effect.k \in {"none", "task", "fanout"} /\ s.cancelled \in Nat
    /\ s.effect.k # "none" => s.generation = gen + 1 /\ s.phase.outcome = None /\ s.cancelled = 0
    /\ s.effect.k = "fanout" =>
          s.phase.k = "Joining" /\ s.effect.count \in Nat /\ s.effect.max \in Nat

LEMMA PhaseIs ==
    ASSUME NEW k \in {"Ready", "Calling", "Joining", "Waiting", "Retrying"}, NEW a \in Nat,
           NEW t \in Nat
    PROVE  Phase(k, a, t, None) \in Phases /\ Phase(k, a, t, None).outcome = None
           /\ Phase(k, a, t, None).k = k
BY DEF Phase, Phases, Outcomes, None

LEMMA TerminalIs ==
    ASSUME NEW o \in {"Succeeded", "Failed", "Unsafe"}
    PROVE  Terminal(o) \in Phases /\ Terminal(o).outcome = o /\ o # None
BY DEF Terminal, Phase, Phases, Outcomes, None

LEMMA TimersAre ==
    ASSUME NEW p \in Plans, NEW x, Sees(x, p)
    PROVE  Timers(x) \subseteq Nat
BY PlanTypes DEF Timers, Sees

\* a step without effect
LEMMA PlainStep ==
    ASSUME NEW f \in FrameRecords, NEW rem \in Nat, NEW c \in Nat, NEW h \in Phases,
           h.outcome \in {None, "Succeeded", "Failed", "Unsafe"}
    PROVE  Steps(DriverStep(h, rem, f.generation, NoEffect, c), f.generation, rem)
BY RecordTypes DEF Steps, DriverStep, NoEffect

LEMMA RecoverIs ==
    ASSUME NEW p \in Plans, NEW x, Sees(x, p), NEW f \in FrameRecords, NEW rem \in Nat, NEW c \in Nat
    PROVE  \A s \in recover(f, x, rem, c) : Steps(s, f.generation, rem)
<1>1. ASSUME NEW s \in recover(f, x, rem, c) PROVE Steps(s, f.generation, rem)
  <2>1. PICK h : /\ s = DriverStep(h, rem, f.generation, NoEffect, c)
                 /\ \/ h = Ready \/ h = Terminal("Failed") \/ h = Terminal("Unsafe")
                    \/ \E t \in Timers(x) : h = Phase("Retrying", 0, t, None)
    BY DEF recover
  <2>2. Ready \in Phases /\ Ready.outcome = None BY PhaseIs DEF Ready
  <2>3. h \in Phases /\ h.outcome \in {None, "Succeeded", "Failed", "Unsafe"}
    <3>1. CASE h = Ready BY <3>1, <2>2
    <3>2. CASE h = Terminal("Failed") BY <3>2, TerminalIs
    <3>3. CASE h = Terminal("Unsafe") BY <3>3, TerminalIs
    <3>4. CASE \E t \in Timers(x) : h = Phase("Retrying", 0, t, None) BY <3>4, TimersAre, PhaseIs
    <3> QED BY <2>1, <3>1, <3>2, <3>3, <3>4
  <2> QED BY <2>1, <2>3, PlainStep
<1> QED BY <1>1

LEMMA TransferIs ==
    ASSUME NEW x, NEW f \in FrameRecords, NEW rem \in Nat
    PROVE  \A s \in transfer(f, x, rem) : Steps(s, f.generation, rem)
<1>1. ASSUME NEW s \in transfer(f, x, rem) PROVE Steps(s, f.generation, rem)
  <2>1. PICK h : /\ s = DriverStep(h, rem, f.generation, NoEffect, 0)
                 /\ h = Ready \/ h = Terminal("Succeeded")
    BY DEF transfer
  <2>2. Ready \in Phases /\ Ready.outcome = None BY PhaseIs DEF Ready
  <2>3. h \in Phases /\ h.outcome \in {None, "Succeeded", "Failed", "Unsafe"}
    BY <2>1, <2>2, TerminalIs
  <2> QED BY <2>1, <2>3, PlainStep
<1> QED BY <1>1

\* rem transitions were left before the step
LEMMA TaskIs ==
    ASSUME NEW p \in Plans, NEW x, Sees(x, p), NEW f \in FrameRecords, NEW rem \in Nat \ {0}
    PROVE  \A s \in task(f, x, rem - 1) : Steps(s, f.generation, rem)
<1>1. ASSUME NEW s \in task(f, x, rem - 1) PROVE Steps(s, f.generation, rem)
  <2>1. PICK t \in Timers(x) :
           s = DriverStep(Phase("Calling", f.generation + 1, t, None), rem - 1, f.generation + 1,
                          [NoEffect EXCEPT !.k = "task"], 0)
    BY DEF task
  <2>2. f.generation \in Nat /\ t \in Nat BY RecordTypes, TimersAre
  <2>3. PICK h : h = Phase("Calling", f.generation + 1, t, None) OBVIOUS
  <2>4. h \in Phases /\ h.outcome = None BY <2>2, <2>3, PhaseIs
  <2> QED BY <2>1, <2>2, <2>3, <2>4 DEF Steps, DriverStep, NoEffect
<1> QED BY <1>1

LEMMA FanoutIs ==
    ASSUME NEW p \in Plans, NEW x, Sees(x, p), NEW f \in FrameRecords, NEW rem \in Nat \ {0}
    PROVE  \A s \in fanout(f, x, rem - 1) : Steps(s, f.generation, rem)
<1>1. ASSUME NEW s \in fanout(f, x, rem - 1) PROVE Steps(s, f.generation, rem)
  <2>1. PICK q : /\ f.depth \in DOMAIN x.plan.fanouts /\ q \in x.plan.fanouts[f.depth]
                 /\ \/ s \in transfer(f, x, rem - 1)
                    \/ s = DriverStep(Phase("Joining", f.generation + 1, 0, None), rem - 1,
                                      f.generation + 1,
                                      [k |-> "fanout", count |-> q.count, max |-> q.max], 0)
    BY DEF fanout
  <2>2. q.count \in Nat /\ q.max \in Nat /\ f.generation \in Nat
    BY <2>1, PlanTypes, RecordTypes DEF Sees
  <2>3. CASE s \in transfer(f, x, rem - 1)
    <3>1. Steps(s, f.generation, rem - 1) BY <2>3, TransferIs
    <3> QED BY <2>2, <3>1 DEF Steps
  <2>4. CASE s = DriverStep(Phase("Joining", f.generation + 1, 0, None), rem - 1, f.generation + 1,
                            [k |-> "fanout", count |-> q.count, max |-> q.max], 0)
    <3>1. PICK h : h = Phase("Joining", f.generation + 1, 0, None) OBVIOUS
    <3>2. h \in Phases /\ h.outcome = None /\ h.k = "Joining" BY <2>2, <3>1, PhaseIs
    <3> QED BY <2>2, <2>4, <3>1, <3>2 DEF Steps, DriverStep
  <2> QED BY <2>1, <2>3, <2>4
<1> QED BY <1>1

LEMMA ExecuteIs ==
    ASSUME NEW p \in Plans, NEW x, Sees(x, p), NEW f \in FrameRecords, NEW rem \in Nat \ {0}
    PROVE  \A s \in execute(f, x, rem - 1) : Steps(s, f.generation, rem)
<1>1. ASSUME NEW s, Steps(s, f.generation, rem - 1) PROVE Steps(s, f.generation, rem)
  BY <1>1, RecordTypes DEF Steps
<1>2. x.plan.moves \subseteq {"Pass", "Succeed", "Fail", "Task", "Wait", "FanOut"}
  BY SchedulerAssumption DEF Sees, StateTypes
<1>3. ASSUME NEW s \in execute(f, x, rem - 1)
      PROVE  \/ s \in transfer(f, x, rem - 1)
             \/ s = DriverStep(Terminal("Succeeded"), rem - 1, f.generation, NoEffect, 0)
             \/ s = DriverStep(Terminal("Failed"), rem - 1, f.generation, NoEffect, 0)
             \/ s \in task(f, x, rem - 1) \/ s \in wait(f, x, rem - 1) \/ s \in fanout(f, x, rem - 1)
  BY <1>2 DEF execute
<1>4. ASSUME NEW s \in wait(f, x, rem - 1) PROVE Steps(s, f.generation, rem - 1)
  <2>1. CASE s \in transfer(f, x, rem - 1) BY <2>1, TransferIs
  <2>2. CASE s \notin transfer(f, x, rem - 1)
    <3>1. PICK t \in Timers(x) :
             s = DriverStep(Phase("Waiting", 0, t, None), rem - 1, f.generation, NoEffect, 0)
      BY <2>2 DEF wait
    <3>2. Phase("Waiting", 0, t, None) \in Phases /\ Phase("Waiting", 0, t, None).outcome = None
      BY TimersAre, PhaseIs
    <3> QED BY <3>1, <3>2, PlainStep
  <2> QED BY <2>1, <2>2
<1>5. ASSUME NEW s \in execute(f, x, rem - 1) PROVE Steps(s, f.generation, rem)
  <2>1. CASE s \in transfer(f, x, rem - 1) BY <2>1, <1>1, TransferIs
  <2>2. CASE s = DriverStep(Terminal("Succeeded"), rem - 1, f.generation, NoEffect, 0)
    BY <2>2, <1>1, TerminalIs, PlainStep
  <2>3. CASE s = DriverStep(Terminal("Failed"), rem - 1, f.generation, NoEffect, 0)
    BY <2>3, <1>1, TerminalIs, PlainStep
  <2>4. CASE s \in task(f, x, rem - 1) BY <2>4, TaskIs
  <2>5. CASE s \in wait(f, x, rem - 1) BY <2>5, <1>1, <1>4
  <2>6. CASE s \in fanout(f, x, rem - 1) BY <2>6, FanoutIs
  <2> QED BY <1>3, <2>1, <2>2, <2>3, <2>4, <2>5, <2>6
<1> QED BY <1>5

LEMMA ReadyIs ==
    ASSUME NEW p \in Plans, NEW x, Sees(x, p), NEW f \in FrameRecords, NEW rem \in Nat
    PROVE  \A s \in ready(f, x, rem) : Steps(s, f.generation, rem)
<1>1. ASSUME rem = 0, NEW s \in ready(f, x, rem) PROVE Steps(s, f.generation, rem)
  <2>1. s = DriverStep(Terminal("Unsafe"), rem, f.generation, NoEffect, 0) BY <1>1 DEF ready
  <2> QED BY <2>1, TerminalIs, PlainStep
<1>2. ASSUME rem # 0, NEW s \in ready(f, x, rem) PROVE Steps(s, f.generation, rem)
  <2>1. s \in execute(f, x, rem - 1) \/ s \in recover(f, x, rem - 1, 0) BY <1>2 DEF ready
  <2>2. CASE s \in execute(f, x, rem - 1) BY <1>2, <2>2, ExecuteIs
  <2>3. CASE s \in recover(f, x, rem - 1, 0)
    <3>1. rem - 1 \in Nat BY <1>2
    <3>2. Steps(s, f.generation, rem - 1) BY <2>3, <3>1, RecoverIs
    <3> QED BY <3>2, RecordTypes DEF Steps
  <2> QED BY <2>1, <2>2, <2>3
<1> QED BY <1>1, <1>2

LEMMA DriverAdvanceIs ==
    ASSUME NEW p \in Plans, NEW x, Sees(x, p), NEW f \in FrameRecords, Outcome(f) = None,
           NEW rem \in Nat
    PROVE  \A s \in driver_advance(f, x, rem) : Steps(s, f.generation, rem)
<1>1. f.phase \in Phases /\ f.phase.outcome = None /\ f.phase.attempt \in Nat
  BY RecordTypes DEF Outcome, Phases
<1>2. Ready \in Phases /\ Ready.outcome = None BY PhaseIs DEF Ready
<1>3. ASSUME NEW s \in driver_advance(f, x, rem)
      PROVE  \/ s \in ready(f, x, rem)
             \/ s \in recover(f, x, rem, f.phase.attempt)
             \/ s \in transfer(f, x, rem)
             \/ s = DriverStep(Ready, rem, f.generation, NoEffect, 0)
             \/ s = DriverStep(f.phase, rem, f.generation, NoEffect, 0)
  BY DEF driver_advance
<1>4. ASSUME NEW s \in driver_advance(f, x, rem) PROVE Steps(s, f.generation, rem)
  <2>1. CASE s \in ready(f, x, rem) BY <2>1, ReadyIs
  <2>2. CASE s \in recover(f, x, rem, f.phase.attempt) BY <2>2, <1>1, RecoverIs
  <2>3. CASE s \in transfer(f, x, rem) BY <2>3, TransferIs
  <2>4. CASE s = DriverStep(Ready, rem, f.generation, NoEffect, 0) BY <2>4, <1>2, PlainStep
  <2>5. CASE s = DriverStep(f.phase, rem, f.generation, NoEffect, 0) BY <2>5, <1>1, PlainStep
  <2> QED BY <1>3, <2>1, <2>2, <2>3, <2>4, <2>5
<1> QED BY <1>4

LEMMA DriverCompleteIs ==
    ASSUME NEW p \in Plans, NEW x, Sees(x, p), NEW f \in FrameRecords, Outcome(f) = None,
           NEW rem \in Nat, NEW ok
    PROVE  \A s \in driver_complete(f, ok, x, rem) : Steps(s, f.generation, rem)
<1>1. ASSUME NEW s \in driver_complete(f, ok, x, rem)
      PROVE  s \in driver_advance(f, x, rem) \/ s \in transfer(f, x, rem) \/ s \in recover(f, x, rem, 0)
  BY DEF driver_complete
<1> QED BY <1>1, DriverAdvanceIs, TransferIs, RecoverIs

LEMMA DriverJoinIs ==
    ASSUME NEW p \in Plans, NEW x, Sees(x, p), NEW f \in FrameRecords, NEW rem \in Nat, NEW failed
    PROVE  \A s \in driver_join(f, failed, x, rem) : Steps(s, f.generation, rem)
BY TransferIs, RecoverIs DEF driver_join

-----------------------------------------------------------------------------
(* One frame moves on while all the branches it has had have told it.       *)

Free(g, id) ==
    \A i \in Frames(g) \ {ROOT} :
        g.frames[i].parent.frame = id => g.frames[i].notification = "Emitted"

\* a live frame that has not settled
Runs(g, id) ==
    /\ id \in Frames(g) /\ ~g.frames[id].cancelling
    /\ Outcome(g.frames[id]) = None /\ g.frames[id].notification = "Waiting"

\* a frame may have no round, or a new one
Starts(e) ==
    \/ e.round = NoRound
    \/ /\ e.round.attempt # 0 /\ e.phase.k = "Joining" /\ e.phase.outcome = None
       /\ e.round.next = 0 /\ e.round.running = {} /\ e.round.outputs = {}

\* h is g with frame id replaced by e
Replaces(g, h, id, e) ==
    /\ h \in Schedulers /\ h.frames = [g.frames EXCEPT ![id] = e]
    /\ DOMAIN h.blocked \subseteq DOMAIN g.blocked /\ h.queued = g.queued
    /\ h.pending = g.pending /\ h.next = g.next /\ h.outcome = g.outcome
    /\ h.remaining <= g.remaining
    /\ e \in FrameRecords /\ e.parent = g.frames[id].parent /\ e.children = g.frames[id].children
    /\ ~e.cancelling /\ e.notification = "Waiting"
    /\ g.frames[id].generation <= e.generation
    /\ Starts(e)

\* the part of the invariant that a frame which has just settled keeps
Open(g, b) == Core(g, b) /\ Expected(g) /\ Joins(g) /\ Unreported(g) /\ Notified(g) /\ Still(g)

LEMMA RunsIs ==
    ASSUME NEW p \in Plans, NEW g, Sound(g, p), NEW id \in Frames(g), ~g.frames[id].cancelling,
           Outcome(g.frames[id]) = None
    PROVE  Runs(g, id) /\ Open(g, p.budget) /\ g.outcome = None
<1>1. Runs(g, id) BY SoundTypes DEF Runs, Branches, Settled
<1>2. Open(g, p.budget) BY SoundTypes, BranchesStill DEF Open, Branches
<1>3. g.outcome = None BY SoundTypes DEF Core, Halted
<1> QED BY <1>1, <1>2, <1>3

\* Without an open round a live frame has nobody left to wait for.
LEMMA FreeIs ==
    ASSUME NEW b, NEW g, Open(g, b), NEW id \in Frames(g), ~g.frames[id].cancelling,
           g.frames[id].round = NoRound
    PROVE  Free(g, id)
<1>1. ASSUME NEW i \in Frames(g) \ {ROOT}, g.frames[i].parent.frame = id,
             g.frames[i].notification # "Emitted"
      PROVE  FALSE
  <2>1. g.frames[id].round.attempt = g.frames[i].parent.round BY <1>1 DEF Open, Unreported
  <2>2. g.frames[i].parent.round >= 1 BY DEF Open, Core, Tree
  <2> QED BY <2>1, <2>2 DEF NoRound
<1> QED BY <1>1 DEF Free

LEMMA ReplaceIs ==
    ASSUME NEW b \in Nat, NEW g, Open(g, b), NEW id, Runs(g, id), Free(g, id), NEW e, NEW h,
           Replaces(g, h, id, e), e.generation + h.remaining <= b,
           DOMAIN e.calls \subseteq 1..e.generation, e.round.attempt <= e.generation
    PROVE  /\ Open(h, b) /\ Frames(h) = Frames(g) /\ h.frames[id] = e
           /\ \A i \in Frames(g) \ {id} : h.frames[i] = g.frames[i]
           /\ (\A i \in Frames(g) \ {id} : ~g.frames[i].cancelling =>
                  /\ Outcome(g.frames[i]) \in {None, "Succeeded", "Failed"}
                  /\ Outcome(g.frames[i]) = None => g.frames[i].notification = "Waiting"
                  /\ g.frames[i].notification # "Queued"
                  /\ i = ROOT => Outcome(g.frames[i]) = None)
              /\ Outcome(e) \in {None, "Succeeded", "Failed"} /\ (id = ROOT => Outcome(e) = None)
              => Branches(h)
<1>1. /\ g \in Schedulers /\ Core(g, b) /\ Tree(g) /\ Queues(g) /\ Budget(g, b) /\ Halted(g)
      /\ Expected(g) /\ Joins(g) /\ Unreported(g) /\ Notified(g) /\ Still(g)
  BY DEF Open, Core
<1>2. /\ g.frames \in [Frames(g) -> FrameRecords] /\ Frames(g) \subseteq Nat
      /\ \A i \in Frames(g) : g.frames[i] \in FrameRecords
  BY <1>1, FrameTypes
<1>3. /\ id \in Frames(g) /\ ~g.frames[id].cancelling /\ Outcome(g.frames[id]) = None
      /\ g.frames[id].notification = "Waiting"
  BY DEF Runs
<1>4. e \in FrameRecords /\ h \in Schedulers BY DEF Replaces
<1>5. h.frames[id] = e /\ Frames(h) = Frames(g) /\ \A i \in Frames(g) \ {id} : h.frames[i] = g.frames[i]
  BY <1>2, <1>3 DEF Replaces, Frames
<1>6. ASSUME NEW i \in Frames(g)
      PROVE  /\ h.frames[i].parent = g.frames[i].parent
             /\ h.frames[i].children = g.frames[i].children
             /\ h.frames[i].cancelling = g.frames[i].cancelling
             /\ h.frames[i].notification = g.frames[i].notification
             /\ h.frames[i] \in FrameRecords
             /\ i # id => h.frames[i].round = g.frames[i].round /\ h.frames[i].phase = g.frames[i].phase
  <2>1. CASE i = id
    <3>1. e.cancelling \in BOOLEAN /\ g.frames[id].cancelling \in BOOLEAN
      BY <1>2, <1>3, <1>4, RecordTypes
    <3> QED BY <2>1, <3>1, <1>3, <1>4, <1>5 DEF Replaces
  <2>2. CASE i # id
    <3>1. h.frames[i] = g.frames[i] BY <2>2, <1>5
    <3> QED BY <3>1, <2>2, <1>2
  <2> QED BY <2>1, <2>2
<1>7. Core(h, b)
  <2>1. Tree(h) BY <1>1, <1>5, <1>6, TreeSame DEF Replaces
  <2>2. Queues(h) BY <1>1, <1>5 DEF Queues, Replaces
  <2>3. Budget(h, b)
    <3>1. ASSUME NEW i \in Frames(g)
          PROVE  /\ h.frames[i].generation + h.remaining <= b
                 /\ DOMAIN h.frames[i].calls \subseteq 1..h.frames[i].generation
                 /\ h.frames[i].round.attempt <= h.frames[i].generation
      <4>1. CASE i = id BY <4>1, <1>5
      <4>2. CASE i # id
        <5>1. h.frames[i] = g.frames[i] BY <4>2, <1>5
        <5>2. /\ g.frames[i].generation + g.remaining <= b
              /\ DOMAIN g.frames[i].calls \subseteq 1..g.frames[i].generation
              /\ g.frames[i].round.attempt <= g.frames[i].generation
          BY <1>1 DEF Budget
        <5>3. g.frames[i].generation \in Nat /\ g.remaining \in Nat /\ h.remaining \in Nat
              /\ h.remaining <= g.remaining
          BY <1>1, <1>2, <1>4, FrameTypes, RecordTypes DEF Replaces
        <5>4. g.frames[i].generation + h.remaining <= b BY <5>2, <5>3
        <5> QED BY <5>1, <5>2, <5>4
      <4> QED BY <4>1, <4>2
    <3> QED BY <3>1, <1>5 DEF Budget
  <2>4. Halted(h) BY <1>1, <1>5, <1>6 DEF Halted, Replaces
  <2> QED BY <1>4, <2>1, <2>2, <2>3, <2>4 DEF Core
<1>8. \A i \in Frames(g) : Waits(h.frames[i]) <=> Waits(g.frames[i]) BY <1>6 DEF Waits
<1>9. Expected(h)
  <2>1. ASSUME NEW i \in Frames(g) \ {ROOT}, Waits(h.frames[i])
        PROVE  LET p == h.frames[i].parent
               IN h.frames[p.frame].round.attempt = p.round /\ i \in h.frames[p.frame].round.running
    <3>1. g.frames[i].parent.frame \in Frames(g) BY <1>1 DEF Tree
    <3>2. g.frames[i].notification = "Waiting" BY <1>8, <2>1 DEF Waits
    <3>3. g.frames[i].parent.frame # id BY <3>2 DEF Free
    <3>4. Waits(g.frames[i]) BY <1>8, <2>1
    <3>5. PICK j \in Frames(g) : j = g.frames[i].parent.frame BY <3>1
    <3>6. h.frames[j].round = g.frames[j].round /\ h.frames[i].parent = g.frames[i].parent
      BY <3>3, <3>5, <1>6
    <3>7. g.frames[j].round.attempt = g.frames[i].parent.round /\ i \in g.frames[j].round.running
      BY <3>4, <3>5, <1>1 DEF Expected
    <3> QED BY <3>5, <3>6, <3>7
  <2> QED BY <2>1, <1>5 DEF Expected
<1>10. Joins(h)
  <2>1. ASSUME NEW i \in Frames(g)
        PROVE  LET f == h.frames[i]
               IN IF f.round.attempt = 0 THEN f.round = NoRound
                  ELSE /\ ~f.cancelling /\ f.phase.k = "Joining" /\ f.phase.outcome = None
                       /\ ~f.round.failed => Owed(h, i)
    <3>1. CASE i = id
      <4>1. CASE e.round = NoRound BY <4>1, <3>1, <1>5 DEF NoRound
      <4>2. CASE /\ e.round.attempt # 0 /\ e.phase.k = "Joining" /\ e.phase.outcome = None
                 /\ e.round.next = 0 /\ e.round.running = {} /\ e.round.outputs = {}
        <5>1. e.round.count \in Nat BY <1>4, RecordTypes DEF Rounds
        <5>2. Owed(h, id) BY <1>5, <4>2, <5>1 DEF Owed
        <5>3. ~e.cancelling BY DEF Replaces
        <5> QED BY <3>1, <4>2, <5>2, <5>3, <1>5
      <4> QED BY <4>1, <4>2 DEF Replaces, Starts
    <3>2. CASE i # id
      <4>1. CASE g.frames[i].round.attempt = 0 BY <4>1, <3>2, <1>1, <1>6 DEF Joins
      <4>2. CASE g.frames[i].round.attempt # 0
        <5>1. /\ ~g.frames[i].cancelling /\ g.frames[i].phase.k = "Joining"
              /\ g.frames[i].phase.outcome = None
              /\ ~g.frames[i].round.failed => Owed(g, i) BY <4>2, <1>1 DEF Joins
        <5>2. /\ h.frames[i].round = g.frames[i].round /\ h.frames[i].phase = g.frames[i].phase
              /\ h.frames[i].cancelling = g.frames[i].cancelling BY <3>2, <1>6
        <5>3. Owed(g, i) => Owed(h, i) BY <5>2, <1>5, <1>6, <1>8 DEF Owed
        <5> QED BY <4>2, <5>1, <5>2, <5>3
      <4> QED BY <4>1, <4>2
    <3> QED BY <3>1, <3>2
  <2> QED BY <2>1, <1>5 DEF Joins
<1>11. Unreported(h)
  <2>1. ASSUME NEW i \in Frames(g) \ {ROOT}
        PROVE  LET p == h.frames[i].parent
                   f == h.frames[p.frame]
               IN ~f.cancelling /\ h.frames[i].notification # "Emitted" =>
                     /\ f.round.attempt = p.round
                     /\ ~f.round.failed => ~h.frames[i].cancelling
    <3>1. g.frames[i].parent.frame \in Frames(g) BY <1>1 DEF Tree
    <3>2. CASE g.frames[i].parent.frame = id
      <4>1. g.frames[i].notification = "Emitted" BY <3>2 DEF Free
      <4> QED BY <4>1, <1>6
    <3>3. CASE g.frames[i].parent.frame # id
      <4>1. PICK j \in Frames(g) : j = g.frames[i].parent.frame BY <3>1
      <4>2. /\ h.frames[j].round = g.frames[j].round /\ h.frames[i].parent = g.frames[i].parent
            /\ h.frames[j].cancelling = g.frames[j].cancelling
            /\ h.frames[i].cancelling = g.frames[i].cancelling
            /\ h.frames[i].notification = g.frames[i].notification
        BY <3>3, <4>1, <1>6
      <4>3. ~g.frames[j].cancelling /\ g.frames[i].notification # "Emitted" =>
               /\ g.frames[j].round.attempt = g.frames[i].parent.round
               /\ ~g.frames[j].round.failed => ~g.frames[i].cancelling
        BY <4>1, <1>1 DEF Unreported
      <4> QED BY <4>1, <4>2, <4>3
    <3> QED BY <3>2, <3>3
  <2> QED BY <2>1, <1>5 DEF Unreported
<1>12. Notified(h)
  <2>1. \A i \in Frames(h) :
           /\ h.frames[i].cancelling =>
                 Outcome(h.frames[i]) # None /\ (i # ROOT => h.frames[i].notification # "Waiting")
           /\ h.frames[i].notification # "Waiting" => i # ROOT /\ Outcome(h.frames[i]) # None
    <3>1. ASSUME NEW i \in Frames(g)
          PROVE /\ h.frames[i].cancelling =>
                      Outcome(h.frames[i]) # None /\ (i # ROOT => h.frames[i].notification # "Waiting")
                /\ h.frames[i].notification # "Waiting" => i # ROOT /\ Outcome(h.frames[i]) # None
      <4>1. CASE i = id BY <4>1, <1>3, <1>6
      <4>2. CASE i # id BY <4>2, <1>1, <1>5 DEF Notified
      <4> QED BY <4>1, <4>2
    <3> QED BY <3>1, <1>5
  <2>2. h.pending = g.pending BY DEF Replaces
  <2>3. Range(h.pending) = {i \in Frames(h) : h.frames[i].notification = "Queued"}
    BY <2>2, <1>1, <1>5, <1>6 DEF Notified
  <2>4. ASSUME NEW m \in 1..Len(h.pending), NEW n \in 1..Len(h.pending), m <= n
        PROVE  h.frames[h.pending[n]].parent.frame # h.pending[m]
    <3>1. DOMAIN h.pending = 1..Len(h.pending) BY <1>4, FrameTypes
    <3>2. h.pending[n] \in Frames(g) BY <3>1, <2>3, <1>5 DEF Range
    <3> QED BY <2>2, <2>4, <3>2, <1>1, <1>6 DEF Notified
  <2> QED BY <2>1, <2>2, <2>3, <2>4, <1>1 DEF Notified
<1>13. Still(h) BY <1>1, <1>5, <1>6 DEF Still
<1>14. ASSUME (\A i \in Frames(g) \ {id} : ~g.frames[i].cancelling =>
                  /\ Outcome(g.frames[i]) \in {None, "Succeeded", "Failed"}
                  /\ Outcome(g.frames[i]) = None => g.frames[i].notification = "Waiting"
                  /\ g.frames[i].notification # "Queued"
                  /\ i = ROOT => Outcome(g.frames[i]) = None),
              Outcome(e) \in {None, "Succeeded", "Failed"}, id = ROOT => Outcome(e) = None
       PROVE  Branches(h)
  <2>1. ASSUME NEW i \in Frames(g), ~h.frames[i].cancelling
        PROVE  /\ Outcome(h.frames[i]) \in {None, "Succeeded", "Failed"}
               /\ Outcome(h.frames[i]) = None => h.frames[i].notification = "Waiting"
               /\ h.frames[i].notification # "Queued"
               /\ i = ROOT => Outcome(h.frames[i]) = None
    <3>1. CASE i = id BY <3>1, <1>3, <1>5, <1>6, <1>14
    <3>2. CASE i # id BY <3>2, <2>1, <1>5, <1>14
    <3> QED BY <3>1, <3>2
  <2>2. Settled(h) BY <2>1, <1>5 DEF Settled
  <2> QED BY <2>2, <1>9, <1>10, <1>11 DEF Branches
<1> QED BY <1>5, <1>7, <1>9, <1>10, <1>11, <1>12, <1>13, <1>14 DEF Open

\* What a replacement does to frames and calls.
LEMMA ReplaceFollows ==
    ASSUME NEW p \in Plans, NEW g, Open(g, p.budget), Nested(g), g.outcome = None,
           NEW id, Runs(g, id), Free(g, id), NEW e, NEW h, Replaces(g, h, id, e),
           NEW u, u.k = "Transition", Books(h) = Books(g) \cup Started(u),
           \A c \in Started(u) : c \in CallIds /\ c.frame = id /\ c.attempt = g.frames[id].generation + 1,
           g.frames[id].round.failed =>
               \A c \in Frames(g) \ {ROOT} : g.frames[c].parent.frame = id =>
                   g.frames[c].parent.round # g.frames[id].round.attempt
    PROVE  Follows(g, h, u) /\ Nested(h)
<1>1. /\ g \in Schedulers /\ g.frames \in [Frames(g) -> FrameRecords] /\ Tree(g)
      /\ \A i \in Frames(g) : g.frames[i] \in FrameRecords
  BY FrameTypes DEF Open, Core
<1>2. id \in Frames(g) /\ ~g.frames[id].cancelling /\ g.frames[id].notification = "Waiting"
  BY DEF Runs
<1>3. h.frames[id] = e /\ Frames(h) = Frames(g) /\ \A i \in Frames(g) \ {id} : h.frames[i] = g.frames[i]
  BY <1>1, <1>2 DEF Replaces, Frames
<1>4. ASSUME NEW i \in Frames(g)
      PROVE  /\ Grows(g.frames[i], h.frames[i])
             /\ h.frames[i].notification = g.frames[i].notification
             /\ h.frames[i].parent = g.frames[i].parent
  <2>1. g.frames[i].generation \in Nat BY <1>1, RecordTypes
  <2>2. CASE i = id BY <2>2, <1>2, <1>3 DEF Replaces, Grows
  <2>3. CASE i # id
    <3>1. h.frames[i] = g.frames[i] BY <2>3, <1>3
    <3> QED BY <2>1, <3>1 DEF Grows
  <2> QED BY <2>2, <2>3
<1>5. Closes(g, h)
  <2>1. ASSUME NEW i \in Frames(g), g.frames[i].round.failed
        PROVE  \/ h.frames[i].round.failed /\ h.frames[i].round.attempt = g.frames[i].round.attempt
               \/ \A c \in Frames(g) \ {ROOT} :
                     h.frames[c].parent.frame = i =>
                         h.frames[c].parent.round # g.frames[i].round.attempt
    <3>1. CASE i = id BY <3>1, <2>1, <1>4
    <3>2. CASE i # id BY <3>2, <2>1, <1>3
    <3> QED BY <3>1, <3>2
  <2> QED BY <2>1, <1>3 DEF Closes
<1>6. Opened(u) = {} /\ Reported(u) = {} BY DEF Opened, Reported
<1>7. Nested(h)
  <2>1. ASSUME NEW i \in Frames(g) \ {ROOT}, h.frames[h.frames[i].parent.frame].notification = "Emitted"
        PROVE  h.frames[i].notification = "Emitted"
    <3>1. g.frames[i].parent.frame \in Frames(g) BY <1>1 DEF Tree
    <3>2. g.frames[g.frames[i].parent.frame].notification = "Emitted" BY <2>1, <3>1, <1>4
    <3>3. g.frames[i].notification = "Emitted" BY <3>2 DEF Nested
    <3> QED BY <3>3, <1>4
  <2> QED BY <2>1, <1>3 DEF Nested
<1>8. Follows(g, h, u)
  <2>1. h.next = g.next /\ h.remaining <= g.remaining BY DEF Replaces
  <2>2. \A i \in Frames(g) \ {ROOT} :
          i \notin Frames(h) \/ h.frames[i].notification = "Emitted" =>
              g.frames[i].notification = "Emitted" \/ i \in Reported(u)
    BY <1>3, <1>4
  <2>3. \A i \in Frames(g) \cap Frames(h) : Grows(g.frames[i], h.frames[i]) BY <1>4
  <2>4. Sticky(g, h) BY DEF Sticky
  <2> QED BY <1>2, <1>3, <1>5, <1>6, <2>1, <2>2, <2>3, <2>4 DEF Follows
<1> QED BY <1>7, <1>8

\* A step that changes no generation, and then another.
LEMMA FollowsTrans ==
    ASSUME NEW p \in Plans, NEW g, Sound(g, p), NEW h, NEW k, NEW v, NEW u, Follows(g, h, v),
           Started(v) = {}, Reported(v) = {}, Opened(v) = {}, v.k # "ChildStarted",
           \/ Started(u) = {}
           \/ \A i \in Frames(g) \cap Frames(h) : h.frames[i].generation = g.frames[i].generation,
           Follows(h, k, u), Opened(u) = {}, u.k # "ChildStarted", Sound(h, p), Sound(k, p)
    PROVE  Follows(g, k, u)
<1>1. /\ h.next = g.next /\ Frames(h) \subseteq Frames(g) /\ Frames(k) \subseteq Frames(h)
      /\ k.next = h.next /\ Books(h) = Books(g)
      /\ \A i \in Frames(h) : Grows(g.frames[i], h.frames[i])
      /\ \A i \in Frames(k) : Grows(h.frames[i], k.frames[i])
  BY DEF Follows
<1>2. \A i \in Frames(k) : Grows(g.frames[i], k.frames[i])
  <2>1. ASSUME NEW i \in Frames(k) PROVE Grows(g.frames[i], k.frames[i])
    <3>1. Grows(g.frames[i], h.frames[i]) /\ Grows(h.frames[i], k.frames[i]) BY <1>1
    <3>2. g.frames[i] \in FrameRecords /\ h.frames[i] \in FrameRecords /\ k.frames[i] \in FrameRecords
      BY <1>1, SoundTypes
    <3>3. g.frames[i].generation \in Nat /\ h.frames[i].generation \in Nat
          /\ k.frames[i].generation \in Nat BY <3>2, RecordTypes
    <3> QED BY <3>1, <3>3 DEF Grows
  <2> QED BY <2>1
<1>3. Closes(g, k)
  <2>1. ASSUME NEW i \in Frames(g) \cap Frames(k), g.frames[i].round.failed, ~k.frames[i].cancelling
        PROVE  \/ /\ k.frames[i].round.failed
                  /\ k.frames[i].round.attempt = g.frames[i].round.attempt
               \/ \A c \in Frames(k) \ {ROOT} :
                     k.frames[c].parent.frame = i =>
                         k.frames[c].parent.round # g.frames[i].round.attempt
    <3>1. i \in Frames(h) /\ ~h.frames[i].cancelling BY <1>1, <2>1 DEF Grows
    <3>2. CASE h.frames[i].round.failed /\ h.frames[i].round.attempt = g.frames[i].round.attempt
      BY <2>1, <3>1, <3>2 DEF Follows, Closes
    <3>3. CASE \A c \in Frames(h) \ {ROOT} :
                  h.frames[c].parent.frame = i =>
                      h.frames[c].parent.round # g.frames[i].round.attempt
      BY <3>3, <1>1 DEF Grows
    <3> QED BY <2>1, <3>1, <3>2, <3>3 DEF Follows, Closes
  <2> QED BY <2>1 DEF Closes
<1>4. k.remaining <= g.remaining
  <2>1. g.remaining \in Nat /\ h.remaining \in Nat /\ k.remaining \in Nat BY SoundTypes
  <2> QED BY <2>1 DEF Follows
<1>5. \A i \in Frames(g) \ {ROOT} :
          i \notin Frames(k) \/ k.frames[i].notification = "Emitted" =>
              g.frames[i].notification = "Emitted" \/ i \in Reported(u)
  BY <1>1 DEF Follows
<1>6. \A i \in Reported(u) : i \in Frames(g) \ {ROOT} /\ g.frames[i].notification # "Emitted"
  <2>1. ASSUME NEW i \in Reported(u) PROVE i \in Frames(g) \ {ROOT} /\ g.frames[i].notification # "Emitted"
    <3>1. i \in Frames(h) \ {ROOT} /\ h.frames[i].notification # "Emitted" BY <2>1 DEF Follows
    <3> QED BY <3>1, <1>1 DEF Grows
  <2> QED BY <2>1
<1>7. \A c \in Started(u) :
          /\ c \in CallIds /\ c.frame \in Frames(g)
          /\ c.attempt = g.frames[c.frame].generation + 1
  BY <1>1 DEF Follows
<1>8. Sticky(g, k) BY DEF Follows, Sticky
<1> QED BY <1>1, <1>2, <1>3, <1>4, <1>5, <1>6, <1>7, <1>8 DEF Follows

-----------------------------------------------------------------------------
(* perform: the frame takes the step of its interpreter.                    *)

\* the frames besides id are settled or live
Bystanders(g, id) ==
    \A i \in Frames(g) \ {id} : ~g.frames[i].cancelling =>
        /\ Outcome(g.frames[i]) \in {None, "Succeeded", "Failed"}
        /\ Outcome(g.frames[i]) = None => g.frames[i].notification = "Waiting"
        /\ g.frames[i].notification # "Queued"
        /\ i = ROOT => Outcome(g.frames[i]) = None

\* frame id of m has taken step s from g; its effect is still to come
Moves(g, m, id, s, p) ==
    /\ Open(m, p.budget) /\ Nested(m) /\ Accounted(m, p) /\ m.outcome = None
    /\ id \in Frames(m) /\ ~m.frames[id].cancelling /\ m.frames[id].notification = "Waiting"
    /\ m.frames[id].round = NoRound /\ m.frames[id].phase = s.phase
    /\ m.frames[id].generation = s.generation /\ m.remaining = s.remaining
    /\ DOMAIN m.frames[id].calls \subseteq 1..g.frames[id].generation
    /\ Bystanders(m, id) /\ Books(m) = Books(g)
    /\ \A u : u.k = "Transition" /\ Started(u) = {} => Follows(g, m, u)

LEMMA MovedIs ==
    ASSUME NEW p \in Plans, NEW g, Sound(g, p), NEW id, Runs(g, id), g.frames[id].round = NoRound,
           NEW s, Steps(s, g.frames[id].generation, g.remaining)
    PROVE  Moves(g, Moved(g, id, s), id, s, p)
<1>1. /\ Open(g, p.budget) /\ g.outcome = None /\ id \in Frames(g) /\ ~g.frames[id].cancelling
      /\ g.frames[id].notification = "Waiting" /\ p.budget \in Nat
  BY RunsIs, PlanTypes DEF Runs
<1>2. Free(g, id) BY <1>1, FreeIs
<1>3. PICK f \in FrameRecords : f = g.frames[id] BY <1>1, SoundTypes
<1>4. PICK e : e = [f EXCEPT !.phase = s.phase, !.generation = s.generation] OBVIOUS
<1>5. /\ e \in FrameRecords /\ e.phase = s.phase /\ e.generation = s.generation
      /\ e.parent = f.parent /\ e.children = f.children /\ e.cancelling = f.cancelling
      /\ e.notification = f.notification /\ e.round = f.round /\ e.calls = f.calls
  <2>1. s.phase \in Phases /\ s.generation \in Nat BY DEF Steps
  <2> QED BY <1>4, <2>1 DEF FrameRecords
<1>6. PICK F : F = [g.frames EXCEPT ![id] = e] OBVIOUS
<1>7. /\ F \in Partial(Nat, FrameRecords) /\ DOMAIN F = Frames(g)
      /\ F[id] = e /\ \A j \in Frames(g) \ {id} : F[j] = g.frames[j]
  BY <1>1, <1>5, <1>6, SoundTypes, FrameSet
<1>8. PICK m : m = Moved(g, id, s) OBVIOUS
<1>9. m = [g EXCEPT !.frames = F, !.remaining = s.remaining]
  BY <1>3, <1>4, <1>6, <1>8, SoundTypes DEF Moved, Schedulers
<1>10. /\ m \in Schedulers /\ m.frames = F /\ m.blocked = g.blocked /\ m.queued = g.queued
       /\ m.pending = g.pending /\ m.next = g.next /\ m.outcome = g.outcome
       /\ m.remaining = s.remaining /\ m.calls = g.calls /\ s.remaining <= g.remaining
  <2>1. s.remaining \in Nat /\ s.remaining <= g.remaining BY DEF Steps
  <2>3. g \in Schedulers BY SoundTypes
  <2>2. m \in Schedulers BY <1>7, <1>9, <2>1, <2>3 DEF Schedulers
  <2> QED BY <1>9, <2>1, <2>2, <2>3 DEF Schedulers
<1>11. Replaces(g, m, id, e)
  <2>1. g.frames[id].generation <= e.generation BY <1>5 DEF Steps
  <2>2. Starts(e) BY <1>3, <1>5 DEF Starts
  <2> QED BY <1>1, <1>3, <1>5, <1>6, <1>10, <2>1, <2>2 DEF Replaces
<1>12. /\ e.generation + m.remaining <= p.budget /\ DOMAIN e.calls \subseteq 1..e.generation
       /\ DOMAIN e.calls \subseteq 1..g.frames[id].generation
       /\ e.round.attempt <= e.generation
  <2>1. /\ g.frames[id].generation + g.remaining <= p.budget
        /\ DOMAIN g.frames[id].calls \subseteq 1..g.frames[id].generation
    BY <1>1 DEF Open, Core, Budget
  <2>2. /\ s.generation \in Nat /\ s.remaining \in Nat /\ g.frames[id].generation <= s.generation
        /\ s.generation + s.remaining <= g.frames[id].generation + g.remaining
    BY DEF Steps
  <2>3. g.frames[id].generation \in Nat /\ g.remaining \in Nat BY <1>3, RecordTypes, SoundTypes
  <2>4. e.round.attempt = 0 BY <1>3, <1>5 DEF NoRound
  <2> QED BY <1>1, <1>3, <1>5, <1>10, <2>1, <2>2, <2>3, <2>4
<1>13. /\ Open(m, p.budget) /\ Frames(m) = Frames(g) /\ m.frames[id] = e
       /\ \A i \in Frames(g) \ {id} : m.frames[i] = g.frames[i]
  BY <1>1, <1>2, <1>11, <1>12, ReplaceIs
<1>14. Books(m) = Books(g)
  <2>1. \A i \in Frames(g) : DOMAIN m.frames[i].calls = DOMAIN g.frames[i].calls
    BY <1>3, <1>5, <1>13
  <2> QED BY <1>13, <2>1, BooksSame
<1>15. ASSUME NEW u, u.k = "Transition", Started(u) = {} PROVE Follows(g, m, u) /\ Nested(m)
  <2>1. ~g.frames[id].round.failed BY DEF NoRound
  <2> QED BY <1>1, <1>2, <1>11, <1>14, <1>15, <2>1, ReplaceFollows DEF Sound
<1>16. Nested(m)
  <2>1. PICK u : u = Update("Transition", NoCall, -1, 0, FALSE) OBVIOUS
  <2>2. u.k = "Transition" /\ u.call = NoCall BY <2>1 DEF Update
  <2>3. Started(u) = {} BY <2>2 DEF Started
  <2> QED BY <2>2, <2>3, <1>15
<1>17. Accounted(m, p)
  <2>1. m.remaining <= p.budget
    <3>1. g.remaining <= p.budget /\ g.remaining \in Nat /\ m.remaining \in Nat
      BY <1>10, SoundTypes, FrameTypes DEF Sound, Accounted
    <3> QED BY <1>1, <1>10, <3>1
  <2> QED BY <1>10, <1>13, <1>14, <2>1 DEF Sound, Accounted
<1>18. Bystanders(m, id)
  BY <1>13, SoundTypes DEF Bystanders, Branches, Settled
<1>19. /\ m.outcome = None /\ id \in Frames(m) /\ ~m.frames[id].cancelling
       /\ m.frames[id].notification = "Waiting"
       /\ m.frames[id].round = NoRound /\ m.frames[id].phase = s.phase
       /\ m.frames[id].generation = s.generation /\ m.remaining = s.remaining
       /\ DOMAIN m.frames[id].calls \subseteq 1..g.frames[id].generation
  BY <1>1, <1>3, <1>5, <1>10, <1>12, <1>13
<1> QED BY <1>8, <1>13, <1>14, <1>15, <1>16, <1>17, <1>18, <1>19 DEF Moves

LEMMA CancelKeepsFrames ==
    ASSUME NEW g \in Schedulers, NEW c
    PROVE  Frames(cancel(g, c)) = Frames(g)
BY DEF cancel, Frames, Schedulers

\* A cancelled call changes nothing of this.
LEMMA MovesCancel ==
    ASSUME NEW p \in Plans, NEW g, NEW m, NEW id, NEW s, Moves(g, m, id, s, p), NEW c \in CallIds
    PROVE  Moves(g, cancel(m, c), id, s, p)
<1>1. Core(m, p.budget) /\ Expected(m) /\ Joins(m) /\ Unreported(m) /\ Notified(m) /\ Still(m)
      /\ m \in Schedulers /\ Tree(m)
  BY DEF Moves, Open, Core
<1>2. PICK h : h = cancel(m, c) OBVIOUS
<1>3. Tidies(m, h) /\ Silent(m, h) BY <1>1, <1>2, CancelIs
<1>4. Frames(h) = Frames(m) BY <1>1, <1>2, CancelKeepsFrames
<1>5. \A i \in Frames(m) : Alike(m.frames[i], h.frames[i])
                           /\ h.frames[i].notification = m.frames[i].notification
  BY <1>3, <1>4 DEF Tidies, Silent
<1>6. \A i \in Frames(m) : /\ h.frames[i].parent = m.frames[i].parent
                           /\ h.frames[i].phase = m.frames[i].phase
                           /\ h.frames[i].round = m.frames[i].round
                           /\ h.frames[i].cancelling = m.frames[i].cancelling
                           /\ h.frames[i].notification = m.frames[i].notification
                           /\ h.frames[i].generation = m.frames[i].generation
                           /\ DOMAIN h.frames[i].calls = DOMAIN m.frames[i].calls
                           /\ Outcome(h.frames[i]) = Outcome(m.frames[i])
  BY <1>5 DEF Alike, Outcome
<1>7. Core(h, p.budget) BY <1>1, <1>3, TidyCore
<1>8. Expected(h) /\ Joins(h) BY <1>1, <1>3, TidyOpen
<1>9. Notified(h) BY <1>1, <1>3, TidyNotified
<1>10. Unreported(h)
  <2>1. ASSUME NEW i \in Frames(m) \ {ROOT}
        PROVE  LET q == h.frames[i].parent
                   f == h.frames[q.frame]
               IN ~f.cancelling /\ h.frames[i].notification # "Emitted" =>
                     /\ f.round.attempt = q.round
                     /\ ~f.round.failed => ~h.frames[i].cancelling
    <3>1. PICK j \in Frames(m) : j = m.frames[i].parent.frame BY <1>1 DEF Tree
    <3>2. ~m.frames[j].cancelling /\ m.frames[i].notification # "Emitted" =>
               /\ m.frames[j].round.attempt = m.frames[i].parent.round
               /\ ~m.frames[j].round.failed => ~m.frames[i].cancelling
      BY <3>1, <1>1 DEF Unreported
    <3> QED BY <3>1, <3>2, <1>6
  <2> QED BY <2>1, <1>4 DEF Unreported
<1>11. Still(h) BY <1>1, <1>4, <1>6 DEF Still
<1>12. Quiet(m, h) BY <1>1, <1>3, SilentQuiet
<1>13. Steady(m, h) /\ Sticky(m, h) BY <1>3, <1>12, TidySteady
<1>14. Nested(h)
  <2>1. ASSUME NEW i \in Frames(m) \ {ROOT}, h.frames[h.frames[i].parent.frame].notification = "Emitted"
        PROVE  h.frames[i].notification = "Emitted"
    <3>1. PICK j \in Frames(m) : j = m.frames[i].parent.frame BY <1>1 DEF Tree
    <3>2. m.frames[j].notification = "Emitted" BY <2>1, <3>1, <1>6
    <3>3. m.frames[i].notification = "Emitted" BY <3>1, <3>2 DEF Moves, Nested
    <3> QED BY <3>3, <1>6
  <2> QED BY <2>1, <1>4 DEF Nested
<1>15. /\ Books(h) = Books(m) /\ h.calls = m.calls /\ h.remaining = m.remaining
       /\ h.outcome = m.outcome
  BY <1>3, TidyBooks DEF Tidies
<1>16. Accounted(h, p) BY <1>4, <1>15 DEF Moves, Accounted
<1>17. Bystanders(h, id) BY <1>4, <1>6 DEF Moves, Bystanders
<1>18. ASSUME NEW u, u.k = "Transition", Started(u) = {} PROVE Follows(g, h, u)
  <2>1. Follows(g, m, u) BY <1>18 DEF Moves
  <2>2. Opened(u) = {} BY <1>18 DEF Opened
  <2> QED BY <2>1, <2>2, <1>13, <1>18, SteadyAfter
<1>19. Open(h, p.budget) BY <1>7, <1>8, <1>9, <1>10, <1>11 DEF Open
<1> QED BY <1>2, <1>4, <1>6, <1>14, <1>15, <1>16, <1>17, <1>18, <1>19 DEF Moves

LEMMA MovesSound ==
    ASSUME NEW p \in Plans, NEW g, NEW m, NEW id, NEW s, Moves(g, m, id, s, p),
           s.phase.outcome \in {None, "Succeeded", "Failed"}, id = ROOT => s.phase.outcome = None
    PROVE  Sound(m, p)
<1>1. ASSUME NEW i \in Frames(m), ~m.frames[i].cancelling
      PROVE  /\ Outcome(m.frames[i]) \in {None, "Succeeded", "Failed"}
             /\ Outcome(m.frames[i]) = None => m.frames[i].notification = "Waiting"
             /\ m.frames[i].notification # "Queued"
             /\ i = ROOT => Outcome(m.frames[i]) = None
  <2>1. CASE i = id BY <2>1 DEF Moves, Outcome
  <2>2. CASE i # id BY <1>1, <2>2 DEF Moves, Bystanders
  <2> QED BY <2>1, <2>2
<1>2. Branches(m) BY <1>1 DEF Moves, Open, Branches, Settled
<1>3. m.outcome # "Internal" BY DEF Moves, None
<1> QED BY <1>2, <1>3 DEF Moves, Open, Sound, Coherent

\* The root finishes last.
LEMMA AllSettled ==
    ASSUME NEW p \in Plans, NEW g, NEW m, NEW s, Moves(g, m, ROOT, s, p)
    PROVE  \A i \in Frames(m) \ {ROOT} : Outcome(m.frames[i]) # None
<1> DEFINE B == {i \in Frames(m) \ {ROOT} : Outcome(m.frames[i]) = None}
<1>1. /\ Tree(m) /\ Expected(m) /\ Joins(m) /\ Notified(m) /\ Bystanders(m, ROOT)
      /\ m.frames[ROOT].round = NoRound /\ Frames(m) \subseteq Nat
  BY FrameTypes DEF Moves, Open, Core
<1>2. SUFFICES ASSUME B # {} PROVE FALSE OBVIOUS
<1>3. PICK i \in B : \A j \in B : i <= j
  <2>1. B \subseteq Nat BY <1>1
  <2> HIDE DEF B
  <2> QED BY <1>2, <2>1, LeastNat
<1>4. i \in Frames(m) \ {ROOT} /\ Outcome(m.frames[i]) = None OBVIOUS
<1>5. ~m.frames[i].cancelling BY <1>1, <1>4 DEF Notified
<1>6. Waits(m.frames[i]) BY <1>1, <1>4, <1>5 DEF Bystanders, Waits
<1>7. PICK j \in Frames(m) : j = m.frames[i].parent.frame /\ j < i /\ m.frames[i].parent.round >= 1
  BY <1>1, <1>4 DEF Tree
<1>8. m.frames[j].round.attempt = m.frames[i].parent.round BY <1>1, <1>4, <1>6, <1>7 DEF Expected
<1>9. m.frames[j].round.attempt # 0 BY <1>7, <1>8
<1>10. Outcome(m.frames[j]) = None BY <1>1, <1>9 DEF Joins, Outcome
<1>11. j # ROOT BY <1>1, <1>9 DEF NoRound
<1>12. j \in B BY <1>10, <1>11
<1>13. i <= j /\ i \in Nat /\ j \in Nat BY <1>1, <1>3, <1>4, <1>12
<1> QED BY <1>7, <1>13

LEMMA EnqueueCalm ==
    ASSUME NEW p \in Plans, NEW g, Sound(g, p), NEW id \in Nat, NEW front \in BOOLEAN
    PROVE  Calm(g, enqueue(g, id, front), p)
BY SoundTypes, EnqueueIs, SilentCalm

LEMMA SettleIs ==
    ASSUME NEW p \in Plans, NEW g, NEW m, NEW id, NEW s, Moves(g, m, id, s, p),
           s.phase.outcome \in {"Succeeded", "Failed", "Unsafe"}
    PROVE  Calm(m, settle_frame(m, id, m.frames[id]), p)
<1>1. /\ Core(m, p.budget) /\ Expected(m) /\ Joins(m) /\ Notified(m) /\ Still(m)
      /\ Outcome(m.frames[id]) = s.phase.outcome /\ m.outcome = None /\ id \in Frames(m)
      /\ Nested(m) /\ Accounted(m, p)
  BY DEF Moves, Open, Outcome
<1>2. CASE id = ROOT \/ s.phase.outcome = "Unsafe"
  <2>1. PICK o : o = s.phase.outcome OBVIOUS
  <2>2. o \in Decided BY <2>1 DEF Decided
  <2>3. o = "Succeeded" => \A i \in Frames(m) \ {ROOT} : Outcome(m.frames[i]) # None
    BY <1>2, <2>1, AllSettled
  <2>4. PICK h : h = Retire(Stopped(m, o), Frames(m), Ascending(m, Frames(m))) OBVIOUS
  <2>5. Coherent(h, p.budget) /\ Steady(m, h) /\ h.outcome = o
    BY <1>1, <2>2, <2>3, <2>4, StopIs
  <2>6. Frames(Stopped(m, o)) = Frames(m)
    BY <1>1, <2>2, <2>3, StoppedIs
  <2>7. settle_frame(m, id, m.frames[id]) = h
    <3>1. settle_frame(m, id, m.frames[id]) = terminate(m, o)
      BY <1>1, <1>2, <2>1 DEF settle_frame
    <3> QED BY <1>1, <2>4, <3>1 DEF terminate
  <2>8. Sound(h, p) BY <1>1, <2>5, SteadyAccounts
  <2>9. Sticky(m, h) BY <1>1 DEF Sticky
  <2> QED BY <2>5, <2>7, <2>8, <2>9 DEF Calm
<1>3. CASE id # ROOT /\ s.phase.outcome # "Unsafe"
  <2>1. Sound(m, p) BY <1>3, MovesSound
  <2>2. PICK k : k = FailOwner(m, id, m.frames[id]) OBVIOUS
  <2>3. settle_frame(m, id, m.frames[id]) = enqueue(k, id, TRUE)
    BY <1>1, <1>3, <2>2 DEF settle_frame
  <2>4. Calm(m, k, p)
    <3>1. CASE k = m BY <2>1, <3>1, CalmRefl
    <3>2. CASE k # m
      <4>1. PICK q : q = m.frames[id].parent.frame OBVIOUS
      <4>2. k = fail_round_from(m, q, id) /\ Outcome(m.frames[id]) = "Failed"
        BY <2>2, <3>2, <4>1 DEF FailOwner
      <4>3. q \in Frames(m) /\ m.frames[id].parent.round >= 1
        BY <1>1, <1>3, <4>1 DEF Core, Tree
      <4>4. Waits(m.frames[id]) BY DEF Moves, Waits
      <4>5. m.frames[q].round.attempt = m.frames[id].parent.round
        BY <1>1, <1>3, <4>1, <4>4 DEF Expected
      <4>6. m.frames[q].round # NoRound BY <4>3, <4>5 DEF NoRound
      <4>7. Spared(m, q, id) BY <4>1, <4>2 DEF Moves, Spared
      <4>8. Coherent(m, p.budget) BY <2>1, SoundTypes
      <4>9. Coherent(k, p.budget) /\ Steady(m, k) /\ k.outcome = m.outcome
        BY <4>2, <4>3, <4>6, <4>7, <4>8, FailRoundIs
      <4> QED BY <2>1, <4>9, SteadySound DEF Calm, Sticky
    <3> QED BY <3>1, <3>2
  <2>5. id \in Nat BY <1>1, <2>1, SoundTypes
  <2>6. Calm(k, enqueue(k, id, TRUE), p) BY <2>4, <2>5, EnqueueCalm DEF Calm
  <2> QED BY <2>3, <2>4, <2>6, CalmTrans
<1> QED BY <1>2, <1>3

\* A frame that starts a call or a round, or is through with one: e is what becomes of it.
LEMMA TakenIs ==
    ASSUME NEW p \in Plans, NEW g, Sound(g, p), NEW id, Runs(g, id), Free(g, id),
           g.frames[id].round.failed =>
               \A c \in Frames(g) \ {ROOT} : g.frames[c].parent.frame = id =>
                   g.frames[c].parent.round # g.frames[id].round.attempt,
           NEW e, NEW h, Replaces(g, h, id, e), e.generation + h.remaining <= p.budget,
           DOMAIN e.calls \subseteq 1..e.generation, e.round.attempt <= e.generation,
           Outcome(e) = None, NEW u, u.k = "Transition", Books(h) = Books(g) \cup Started(u),
           \A c \in Started(u) : c \in CallIds /\ c.frame = id /\ c.attempt = g.frames[id].generation + 1,
           IsFiniteSet(Books(h)), h.calls = Cardinality(Books(h))
    PROVE  Sound(h, p) /\ Follows(g, h, u)
<1>1. /\ Open(g, p.budget) /\ g.outcome = None /\ id \in Frames(g) /\ ~g.frames[id].cancelling
      /\ p.budget \in Nat
  BY RunsIs, PlanTypes DEF Runs
<1>3. \A i \in Frames(g) \ {id} : ~g.frames[i].cancelling =>
                  /\ Outcome(g.frames[i]) \in {None, "Succeeded", "Failed"}
                  /\ Outcome(g.frames[i]) = None => g.frames[i].notification = "Waiting"
                  /\ g.frames[i].notification # "Queued"
                  /\ i = ROOT => Outcome(g.frames[i]) = None
  BY SoundTypes DEF Branches, Settled
<1>4. Open(h, p.budget) /\ Frames(h) = Frames(g) /\ Branches(h)
  BY <1>1, <1>3, ReplaceIs
<1>6. Nested(g) BY DEF Sound
<1>7. Follows(g, h, u) /\ Nested(h) BY <1>1, <1>6, ReplaceFollows
<1>8. h.outcome = None BY <1>1 DEF Replaces
<1>9. Coherent(h, p.budget) BY <1>4, <1>8 DEF Open, Coherent, None
<1>10. h.remaining <= p.budget
  <2>1. h.remaining \in Nat /\ g.remaining \in Nat /\ h.remaining <= g.remaining
        /\ g.remaining <= p.budget
    BY SoundTypes, FrameTypes DEF Replaces, Sound, Accounted
  <2> QED BY <1>1, <2>1
<1>11. Accounted(h, p) BY <1>4, <1>10 DEF Sound, Accounted
<1> QED BY <1>7, <1>9, <1>11 DEF Sound

TransitionOf(id, s) ==
    Update("Transition", IF s.effect.k = "task" THEN [frame |-> id, attempt |-> s.generation]
                                               ELSE NoCall, -1, 0, FALSE)

LEMMA TaskTaken ==
    ASSUME NEW p \in Plans, NEW g, Sound(g, p), NEW id, Runs(g, id), g.frames[id].round = NoRound,
           NEW s, Steps(s, g.frames[id].generation, g.remaining), s.effect.k = "task"
    PROVE  LET h == capture_effect(Moved(g, id, s), id, s)
           IN Sound(h, p) /\ Follows(g, h, TransitionOf(id, s))
<1>1. id \in Frames(g) /\ g \in Schedulers /\ id \in Nat BY SoundTypes DEF Runs
<1>2. PICK f \in FrameRecords : f = g.frames[id] BY <1>1, SoundTypes
<1>3. PICK a : a = s.generation OBVIOUS
<1>4. /\ a = f.generation + 1 /\ a \in Nat /\ f.generation \in Nat /\ s.phase \in Phases
      /\ s.phase.outcome = None /\ s.remaining \in Nat /\ s.remaining <= g.remaining
      /\ a + s.remaining <= f.generation + g.remaining
  BY <1>2, <1>3, RecordTypes DEF Steps
<1>5. PICK C : C = Put(f.calls, a, "Active") OBVIOUS
<1>6. C \in Partial(Nat, CallStates)
  <2>1. PICK v : v = "Active" OBVIOUS
  <2>2. v \in CallStates /\ f.calls \in Partial(Nat, CallStates) BY <1>2, <2>1, RecordTypes DEF CallStates
  <2>3. PICK R : R = CallStates OBVIOUS
  <2>4. f.calls \in Partial(Nat, R) /\ v \in R BY <2>2, <2>3
  <2>5. Put(f.calls, a, v) \in Partial(Nat, R) BY <1>4, <2>4, PutIs
  <2> QED BY <1>5, <2>1, <2>3, <2>5
<1>7. \A b : b \in DOMAIN C <=> b \in DOMAIN f.calls \/ b = a BY <1>5 DEF Put
<1>8. PICK e : e = [f EXCEPT !.phase = s.phase, !.generation = a, !.calls = C] OBVIOUS
<1>9. /\ e \in FrameRecords /\ e.phase = s.phase /\ e.generation = a
      /\ e.parent = f.parent /\ e.children = f.children /\ e.cancelling = f.cancelling
      /\ e.notification = f.notification /\ e.round = f.round /\ e.calls = C
  BY <1>4, <1>6, <1>8 DEF FrameRecords
<1>10. PICK F : F = [g.frames EXCEPT ![id] = e] OBVIOUS
<1>11. /\ F \in Partial(Nat, FrameRecords) /\ DOMAIN F = Frames(g)
       /\ F[id] = e /\ \A j \in Frames(g) \ {id} : F[j] = g.frames[j]
  BY <1>1, <1>9, <1>10, FrameSet
<1>12. PICK h : h = capture_effect(Moved(g, id, s), id, s) OBVIOUS
<1>13. h = [g EXCEPT !.frames = F, !.remaining = s.remaining, !.calls = g.calls + 1]
  <2>1. PICK d : d = [f EXCEPT !.phase = s.phase, !.generation = a] OBVIOUS
  <2>2. d.calls = f.calls /\ e = [d EXCEPT !.calls = C] BY <1>8, <2>1 DEF FrameRecords
  <2>3. PICK m : m = Moved(g, id, s) OBVIOUS
  <2>4. m = [g EXCEPT !.frames = [g.frames EXCEPT ![id] = d], !.remaining = s.remaining]
    BY <1>1, <1>2, <1>3, <2>1, <2>3 DEF Moved, Schedulers
  <2>5. m.frames = [g.frames EXCEPT ![id] = d] /\ m.frames[id] = d /\ m.calls = g.calls
    BY <1>1, <2>4 DEF Schedulers, Frames
  <2>6. h = [m EXCEPT !.frames[id].calls = Put(@, a, "Active"), !.calls = @ + 1]
    BY <1>3, <1>12, <2>3 DEF capture_effect
  <2>7. h = [m EXCEPT !.frames = [m.frames EXCEPT ![id] = [d EXCEPT !.calls = C]], !.calls = g.calls + 1]
    BY <1>5, <2>2, <2>5, <2>6
  <2>8. [m.frames EXCEPT ![id] = e] = F BY <1>10, <2>5
  <2> QED BY <1>1, <2>2, <2>4, <2>7, <2>8 DEF Schedulers
<1>14. /\ h \in Schedulers /\ h.frames = F /\ h.blocked = g.blocked /\ h.queued = g.queued
       /\ h.pending = g.pending /\ h.next = g.next /\ h.outcome = g.outcome
       /\ h.remaining = s.remaining /\ h.calls = g.calls + 1
  <2>1. g.calls \in Int BY <1>1, FrameTypes
  <2>2. PICK n \in Int : n = g.calls + 1 BY <2>1
  <2>3. h = [g EXCEPT !.frames = F, !.remaining = s.remaining, !.calls = n] BY <1>13, <2>2
  <2>4. h \in Schedulers BY <1>1, <1>4, <1>11, <2>3 DEF Schedulers
  <2>5. h.calls = n BY <1>1, <2>3 DEF Schedulers
  <2>6. /\ h.frames = F /\ h.blocked = g.blocked /\ h.queued = g.queued
        /\ h.pending = g.pending /\ h.next = g.next /\ h.outcome = g.outcome
        /\ h.remaining = s.remaining
    BY <1>1, <2>3 DEF Schedulers
  <2> QED BY <2>2, <2>4, <2>5, <2>6
<1>15. Replaces(g, h, id, e)
  <2>1. ~g.frames[id].cancelling /\ g.frames[id].notification = "Waiting" BY DEF Runs
  <2>2. Starts(e) BY <1>2, <1>9 DEF Starts
  <2> QED BY <1>2, <1>4, <1>9, <1>10, <1>14, <2>1, <2>2 DEF Replaces
<1>16. /\ f.generation + g.remaining <= p.budget /\ DOMAIN f.calls \subseteq 1..f.generation
  BY <1>1, <1>2, SoundTypes DEF Core, Budget
<1>17. /\ e.generation + h.remaining <= p.budget /\ DOMAIN e.calls \subseteq 1..e.generation
       /\ e.round.attempt <= e.generation /\ Outcome(e) = None
  <2>1. g.remaining \in Nat /\ p.budget \in Nat BY SoundTypes, PlanTypes
  <2>2. e.round.attempt = 0 BY <1>2, <1>9 DEF NoRound
  <2>3. \A b \in DOMAIN C : b \in 1..a BY <1>4, <1>7, <1>16
  <2> QED BY <1>4, <1>9, <1>14, <1>16, <2>1, <2>2, <2>3 DEF Outcome
<1>18. PICK c : c = [frame |-> id, attempt |-> a] OBVIOUS
<1>19. PICK u : u = TransitionOf(id, s) OBVIOUS
<1>20. u.k = "Transition" /\ Started(u) = {c}
  <2>1. u.k = "Transition" /\ u.call = c BY <1>3, <1>18, <1>19 DEF TransitionOf, Update
  <2>2. c # NoCall BY <1>1, <1>18 DEF NoCall
  <2> QED BY <2>1, <2>2 DEF Started
<1>21. c \in CallIds /\ c.frame = id /\ c.attempt = g.frames[id].generation + 1
  BY <1>1, <1>2, <1>4, <1>18 DEF CallIds
<1>22. c \notin Books(g)
  <2>1. SUFFICES ASSUME c \in Books(g) PROVE FALSE OBVIOUS
  <2>2. PICK i, b : i \in Frames(g) /\ b \in DOMAIN g.frames[i].calls /\ c = [frame |-> i, attempt |-> b]
    BY <2>1, BooksIs
  <2>3. i = id /\ b = a BY <1>18, <2>2
  <2>4. a \in 1..f.generation BY <1>2, <1>16, <2>2, <2>3
  <2> QED BY <1>4, <2>4
<1>23. Frames(h) = Frames(g) /\ h.frames[id] = e /\ \A j \in Frames(g) \ {id} : h.frames[j] = g.frames[j]
  BY <1>11, <1>14 DEF Frames
<1>24. Books(h) = Books(g) \cup {c}
  <2>1. ASSUME NEW k PROVE k \in Books(h) <=> k \in Books(g) \/ k = c
    <3>1. ASSUME k \in Books(h) PROVE k \in Books(g) \/ k = c
      <4>1. PICK i, b : i \in Frames(g) /\ b \in DOMAIN h.frames[i].calls /\ k = [frame |-> i, attempt |-> b]
        BY <1>23, <3>1, BooksIs
      <4>2. CASE i = id
        <5>1. b \in DOMAIN f.calls \/ b = a BY <1>7, <1>9, <1>23, <4>1, <4>2
        <5> QED BY <1>1, <1>2, <1>18, <4>1, <4>2, <5>1, BooksIs
      <4>3. CASE i # id BY <1>23, <4>1, <4>3, BooksIs
      <4> QED BY <4>2, <4>3
    <3>2. ASSUME k \in Books(g) PROVE k \in Books(h)
      <4>1. PICK i, b : i \in Frames(g) /\ b \in DOMAIN g.frames[i].calls /\ k = [frame |-> i, attempt |-> b]
        BY <3>2, BooksIs
      <4>2. b \in DOMAIN h.frames[i].calls
        <5>1. CASE i = id BY <1>2, <1>7, <1>9, <1>23, <4>1, <5>1
        <5>2. CASE i # id BY <1>23, <4>1, <5>2
        <5> QED BY <5>1, <5>2
      <4> QED BY <1>23, <4>1, <4>2, BooksIs
    <3>3. c \in Books(h)
      <4>1. a \in DOMAIN h.frames[id].calls BY <1>7, <1>9, <1>23
      <4> QED BY <1>1, <1>18, <1>23, <4>1, BooksIs
    <3> QED BY <3>1, <3>2, <3>3
  <2> QED BY <2>1
<1>25. IsFiniteSet(Books(h)) /\ h.calls = Cardinality(Books(h))
  <2>1. IsFiniteSet(Books(g)) /\ g.calls = Cardinality(Books(g)) BY DEF Sound, Accounted
  <2>2. IsFiniteSet(Books(g) \cup {c}) /\ Cardinality(Books(g) \cup {c}) = Cardinality(Books(g)) + 1
    BY <1>22, <2>1, FS_AddElement
  <2> QED BY <1>14, <1>24, <2>1, <2>2
<1>26. Sound(h, p) /\ Follows(g, h, u)
  <2>1. Books(h) = Books(g) \cup Started(u) BY <1>20, <1>24
  <2>2. \A k \in Started(u) : k \in CallIds /\ k.frame = id /\ k.attempt = g.frames[id].generation + 1
    BY <1>20, <1>21
  <2>3. Free(g, id) /\ ~g.frames[id].round.failed BY <1>1, RunsIs, FreeIs DEF Runs, NoRound
  <2> QED BY <1>15, <1>17, <1>20, <1>25, <2>1, <2>2, <2>3, TakenIs
<1> QED BY <1>12, <1>19, <1>26

LEMMA FanoutTaken ==
    ASSUME NEW p \in Plans, NEW g, Sound(g, p), NEW id, Runs(g, id), g.frames[id].round = NoRound,
           NEW s, Steps(s, g.frames[id].generation, g.remaining), s.effect.k = "fanout"
    PROVE  LET h == capture_effect(Moved(g, id, s), id, s)
           IN Sound(h, p) /\ Follows(g, h, TransitionOf(id, s))
<1>1. id \in Frames(g) /\ g \in Schedulers /\ id \in Nat BY SoundTypes DEF Runs
<1>2. PICK f \in FrameRecords : f = g.frames[id] BY <1>1, SoundTypes
<1>3. PICK a : a = s.generation OBVIOUS
<1>4. /\ a = f.generation + 1 /\ a \in Nat /\ f.generation \in Nat /\ s.phase \in Phases
      /\ s.phase.outcome = None /\ s.remaining \in Nat /\ s.remaining <= g.remaining
      /\ a + s.remaining <= f.generation + g.remaining
      /\ s.phase.k = "Joining" /\ s.effect.count \in Nat /\ s.effect.max \in Nat
  BY <1>2, <1>3, RecordTypes DEF Steps
<1>5. PICK r : r = [NoRound EXCEPT !.attempt = a, !.count = s.effect.count, !.max = s.effect.max] OBVIOUS
<1>6. r \in Rounds /\ r.attempt = a /\ r.next = 0 /\ r.running = {} /\ r.outputs = {}
  BY <1>4, <1>5 DEF Rounds, NoRound
<1>7. PICK e : e = [f EXCEPT !.phase = s.phase, !.generation = a, !.round = r] OBVIOUS
<1>8. /\ e \in FrameRecords /\ e.phase = s.phase /\ e.generation = a
      /\ e.parent = f.parent /\ e.children = f.children /\ e.cancelling = f.cancelling
      /\ e.notification = f.notification /\ e.round = r /\ e.calls = f.calls
  BY <1>4, <1>6, <1>7 DEF FrameRecords
<1>9. PICK F : F = [g.frames EXCEPT ![id] = e] OBVIOUS
<1>10. /\ F \in Partial(Nat, FrameRecords) /\ DOMAIN F = Frames(g)
       /\ F[id] = e /\ \A j \in Frames(g) \ {id} : F[j] = g.frames[j]
  BY <1>1, <1>8, <1>9, FrameSet
<1>11. PICK h : h = capture_effect(Moved(g, id, s), id, s) OBVIOUS
<1>12. h = [g EXCEPT !.frames = F, !.remaining = s.remaining]
  <2>1. PICK d : d = [f EXCEPT !.phase = s.phase, !.generation = a] OBVIOUS
  <2>2. e = [d EXCEPT !.round = r] BY <1>7, <2>1 DEF FrameRecords
  <2>3. PICK m : m = Moved(g, id, s) OBVIOUS
  <2>4. m = [g EXCEPT !.frames = [g.frames EXCEPT ![id] = d], !.remaining = s.remaining]
    BY <1>1, <1>2, <1>3, <2>1, <2>3 DEF Moved, Schedulers
  <2>5. m.frames = [g.frames EXCEPT ![id] = d] /\ m.frames[id] = d
    BY <1>1, <2>4 DEF Schedulers, Frames
  <2>6. h = [m EXCEPT !.frames[id].round =
                 [NoRound EXCEPT !.attempt = a, !.count = s.effect.count, !.max = s.effect.max]]
    BY <1>3, <1>11, <2>3 DEF capture_effect
  <2>7. h = [m EXCEPT !.frames = [m.frames EXCEPT ![id] = [d EXCEPT !.round = r]]]
    BY <1>5, <2>2, <2>5, <2>6
  <2>8. [m.frames EXCEPT ![id] = e] = F BY <1>9, <2>5
  <2> QED BY <1>1, <2>2, <2>4, <2>7, <2>8 DEF Schedulers
<1>13. /\ h \in Schedulers /\ h.frames = F /\ h.blocked = g.blocked /\ h.queued = g.queued
       /\ h.pending = g.pending /\ h.next = g.next /\ h.outcome = g.outcome
       /\ h.remaining = s.remaining /\ h.calls = g.calls
  <2>1. h \in Schedulers BY <1>1, <1>4, <1>10, <1>12 DEF Schedulers
  <2> QED BY <1>1, <1>12, <2>1 DEF Schedulers
<1>14. Replaces(g, h, id, e)
  <2>1. ~g.frames[id].cancelling /\ g.frames[id].notification = "Waiting" BY DEF Runs
  <2>2. Starts(e) BY <1>4, <1>6, <1>8 DEF Starts
  <2> QED BY <1>2, <1>4, <1>8, <1>9, <1>13, <2>1, <2>2 DEF Replaces
<1>15. /\ e.generation + h.remaining <= p.budget /\ DOMAIN e.calls \subseteq 1..e.generation
       /\ e.round.attempt <= e.generation /\ Outcome(e) = None
  <2>1. /\ f.generation + g.remaining <= p.budget /\ DOMAIN f.calls \subseteq 1..f.generation
    BY <1>1, <1>2, SoundTypes DEF Core, Budget
  <2>2. g.remaining \in Nat /\ p.budget \in Nat BY SoundTypes, PlanTypes
  <2> QED BY <1>4, <1>6, <1>8, <1>13, <2>1, <2>2 DEF Outcome
<1>16. PICK u : u = TransitionOf(id, s) OBVIOUS
<1>17. u.k = "Transition" /\ Started(u) = {}
  <2>1. u.k = "Transition" /\ u.call = NoCall BY <1>16 DEF TransitionOf, Update
  <2> QED BY <2>1 DEF Started
<1>18. Books(h) = Books(g)
  <2>1. Frames(h) = Frames(g) BY <1>10, <1>13 DEF Frames
  <2>2. \A i \in Frames(g) : DOMAIN h.frames[i].calls = DOMAIN g.frames[i].calls
    BY <1>2, <1>8, <1>10, <1>13
  <2> QED BY <2>1, <2>2, BooksSame
<1>19. Sound(h, p) /\ Follows(g, h, u)
  <2>1. IsFiniteSet(Books(h)) /\ h.calls = Cardinality(Books(h)) BY <1>13, <1>18 DEF Sound, Accounted
  <2>2. Free(g, id) /\ ~g.frames[id].round.failed BY <1>1, RunsIs, FreeIs DEF Runs, NoRound
  <2> QED BY <1>14, <1>15, <1>17, <1>18, <2>1, <2>2, TakenIs
<1> QED BY <1>11, <1>16, <1>19

LEMMA DueUpdates ==
    ASSUME NEW g
    PROVE  terminal_update(g).update.k \in {"Cancel", "ChildFinished", "Yield", "Settled"}
BY DEF terminal_update, Obligations, FirstDue, next_cancel, pop_notice, Plain, Update

\* Whatever the interpreter decides, its frame takes the step soundly.
LEMMA PerformIs ==
    ASSUME NEW p \in Plans, NEW g, Sound(g, p), NEW id, Runs(g, id), g.frames[id].round = NoRound,
           NEW s, Steps(s, g.frames[id].generation, g.remaining)
    PROVE  Fine(g, perform(g, id, s), p) /\ perform(g, id, s).update.k # "ChildStarted"
<1>1. PICK m : m = IF s.cancelled = 0 THEN Moved(g, id, s)
                   ELSE cancel(Moved(g, id, s), [frame |-> id, attempt |-> s.cancelled]) OBVIOUS
<1>2. Moves(g, Moved(g, id, s), id, s, p) BY MovedIs
<1>3. id \in Nat BY SoundTypes DEF Runs
<1>4. Moves(g, m, id, s, p)
  <2>1. CASE s.cancelled = 0 BY <1>1, <1>2, <2>1
  <2>2. CASE s.cancelled # 0
    <3>1. [frame |-> id, attempt |-> s.cancelled] \in CallIds BY <1>3 DEF Steps, CallIds
    <3> QED BY <1>1, <1>2, <2>2, <3>1, MovesCancel
  <2> QED BY <2>1, <2>2
<1>5. perform(g, id, s) = Effected(m, id, s) BY <1>1 DEF perform
<1>6. PICK u : u = TransitionOf(id, s) OBVIOUS
<1>7. u.k = "Transition" BY <1>6 DEF TransitionOf, Update
<1>8. Opened(u) = {} BY <1>7 DEF Opened
<1>9. PICK c : c = capture_effect(m, id, s) OBVIOUS
<1>10. Calm(c, Requeue(c, id, s), p) /\ Follows(g, c, u)
       => Fine(g, [g |-> Requeue(c, id, s), update |-> u], p)
  <2>1. ASSUME Calm(c, Requeue(c, id, s), p), Follows(g, c, u) PROVE Follows(g, Requeue(c, id, s), u)
    BY <1>7, <1>8, <2>1, CalmAfter
  <2> QED BY <2>1 DEF Fine, Calm
<1>11. CASE s.effect.k = "task" /\ m.calls >= MaxCalls
  <2>1. s.phase.outcome = None /\ s.cancelled = 0 BY <1>11 DEF Steps
  <2>2. Sound(m, p) BY <1>4, <2>1, MovesSound
  <2>3. PICK r : r = terminal_update(safety(m)) OBVIOUS
  <2>4. Fine(m, r, p) BY <2>2, <2>3, UnsafeIs
  <2>5. r.update.k \in {"Cancel", "ChildFinished", "Yield", "Settled"} BY <2>3, DueUpdates
  <2>6. PICK v : v = Plain("Transition") OBVIOUS
  <2>7. v.k = "Transition" /\ v.call = NoCall BY <2>6 DEF Plain, Update
  <2>8. Started(v) = {} /\ Reported(v) = {} /\ Opened(v) = {} BY <2>7 DEF Started, Reported, Opened
  <2>9. Started(r.update) = {} /\ Opened(r.update) = {} BY <2>5 DEF Started, Opened
  <2>10. Follows(g, m, v) BY <1>4, <2>7, <2>8 DEF Moves
  <2>11. Follows(g, r.g, r.update)
    <3>1. Sound(r.g, p) /\ Follows(m, r.g, r.update) /\ v.k # "ChildStarted"
          /\ r.update.k # "ChildStarted"
      BY <2>4, <2>5, <2>7 DEF Fine
    <3> QED BY <2>2, <2>8, <2>9, <2>10, <3>1, FollowsTrans
  <2>12. perform(g, id, s) = r BY <1>5, <1>11, <2>3 DEF Effected
  <2> QED BY <2>4, <2>5, <2>11, <2>12 DEF Fine
<1>12. CASE ~(s.effect.k = "task" /\ m.calls >= MaxCalls)
  <2>1. perform(g, id, s) = [g |-> Requeue(c, id, s), update |-> u]
    BY <1>5, <1>6, <1>9, <1>12, Zenon DEF Effected, TransitionOf
  <2>2. Calm(c, Requeue(c, id, s), p) /\ Follows(g, c, u)
    <3>1. CASE s.effect.k = "none"
      <4>1. c = m BY <1>9, <3>1 DEF capture_effect
      <4>2. u.call = NoCall BY <1>6, <3>1 DEF TransitionOf, Update
      <4>3. Started(u) = {} BY <4>2 DEF Started
      <4>4. Follows(g, c, u) BY <1>4, <1>7, <4>1, <4>3 DEF Moves
      <4>5. Calm(c, Requeue(c, id, s), p)
        <5>1. CASE s.phase.outcome # None
          <6>1. s.phase.outcome \in {"Succeeded", "Failed", "Unsafe"} BY <5>1 DEF Steps
          <6> QED BY <1>4, <4>1, <5>1, <6>1, SettleIs DEF Requeue
        <5>2. CASE s.phase.outcome = None
          <6>1. Sound(c, p) BY <1>4, <4>1, <5>2, MovesSound
          <6>2. Requeue(c, id, s) \in {c, enqueue(c, id, FALSE)} BY <5>2 DEF Requeue
          <6> QED BY <1>3, <6>1, <6>2, CalmRefl, EnqueueCalm
        <5> QED BY <5>1, <5>2
      <4> QED BY <4>4, <4>5
    <3>2. CASE s.effect.k # "none"
      <4>1. /\ s.phase.outcome = None /\ s.cancelled = 0
            /\ s.effect.k = "task" \/ s.effect.k = "fanout"
        BY <3>2 DEF Steps
      <4>2. c = capture_effect(Moved(g, id, s), id, s) BY <1>1, <1>9, <4>1
      <4>3. Sound(c, p) /\ Follows(g, c, u) BY <1>6, <4>1, <4>2, TaskTaken, FanoutTaken
      <4>4. Requeue(c, id, s) \in {c, enqueue(c, id, FALSE)} BY <4>1 DEF Requeue
      <4> QED BY <1>3, <4>3, <4>4, CalmRefl, EnqueueCalm
    <3> QED BY <3>1, <3>2
  <2>3. Fine(g, perform(g, id, s), p) BY <1>10, <2>1, <2>2
  <2>4. perform(g, id, s).update.k = "Transition" BY <1>7, <2>1
  <2> QED BY <2>3, <2>4
<1> QED BY <1>11, <1>12

-----------------------------------------------------------------------------
(* A round ends.                                                            *)

LEMMA AllAnswered ==
    ASSUME NEW n \in Nat, NEW m \in Nat, n <= m, NEW S, S \subseteq 0..(n - 1), Cardinality(S) = m
    PROVE  0..(n - 1) = S
<1>1. n - 1 \in Int /\ 0 \in Int OBVIOUS
<1>2. IsFiniteSet(0..(n - 1)) /\ Cardinality(0..(n - 1)) = n
  <2>1. IsFiniteSet(0..(n - 1)) BY <1>1, FS_Interval
  <2>2. Cardinality(0..(n - 1)) = IF 0 > n - 1 THEN 0 ELSE (n - 1) - 0 + 1 BY <1>1, FS_Interval
  <2> QED BY <2>1, <2>2
<1>3. IsFiniteSet(S) /\ Cardinality(S) <= n BY <1>2, FS_Subset
<1>4. Cardinality(S) = Cardinality(0..(n - 1)) BY <1>2, <1>3
<1> QED BY <1>2, <1>4, FS_Subset

\* what round(id) asks before it joins
Joined(g, id) ==
    LET r == g.frames[id].round
    IN IF r.failed THEN RoundChildren(g, id) = {} ELSE Cardinality(r.outputs) = r.count

LEMMA JoinedFree ==
    ASSUME NEW p \in Plans, NEW g, Sound(g, p), NEW id, Runs(g, id), g.frames[id].round # NoRound,
           Joined(g, id)
    PROVE  /\ Free(g, id)
           /\ g.frames[id].round.failed =>
                 \A c \in Frames(g) \ {ROOT} : g.frames[c].parent.frame = id =>
                     g.frames[c].parent.round # g.frames[id].round.attempt
<1>1. /\ id \in Frames(g) /\ ~g.frames[id].cancelling /\ Tree(g) /\ Branches(g)
      /\ g.frames[id].round \in Rounds
  BY SoundTypes, RecordTypes DEF Runs, Core
<1>2. PICK r \in Rounds : r = g.frames[id].round BY <1>1
<1>3. r.attempt # 0 BY <1>1, <1>2 DEF Branches, Joins
<1>4. CASE r.failed
  <2>1. ASSUME NEW c \in Frames(g) \ {ROOT}, g.frames[c].parent.frame = id
        PROVE  g.frames[c].parent.round # r.attempt
    <3>1. RoundChildren(g, id) = {} BY <1>2, <1>4 DEF Joined
    <3>2. c \in g.frames[id].children BY <1>1, <2>1 DEF Tree
    <3> QED BY <1>2, <3>1, <3>2, <2>1 DEF RoundChildren, Has
  <2>2. ASSUME NEW c \in Frames(g) \ {ROOT}, g.frames[c].parent.frame = id
        PROVE  g.frames[c].notification = "Emitted"
    <3>1. g.frames[c].parent.round # r.attempt BY <2>1, <2>2
    <3> QED BY <1>1, <1>2, <2>2, <3>1 DEF Branches, Unreported
  <2> QED BY <1>2, <2>1, <2>2 DEF Free
<1>5. CASE ~r.failed
  <2>1. Owed(g, id) BY <1>1, <1>2, <1>3, <1>5 DEF Branches, Joins
  <2>2. /\ r.next <= r.count /\ r.outputs \subseteq 0..(r.next - 1)
        /\ r.next \in Nat /\ r.count \in Nat
    BY <1>2, <2>1 DEF Owed, Rounds
  <2>3. Cardinality(r.outputs) = r.count BY <1>2, <1>5 DEF Joined
  <2>4. 0..(r.next - 1) = r.outputs BY <2>2, <2>3, AllAnswered
  <2>5. r.running = {} BY <1>2, <2>1, <2>4 DEF Owed
  <2>6. ASSUME NEW c \in Frames(g) \ {ROOT}, g.frames[c].parent.frame = id,
               g.frames[c].notification # "Emitted"
        PROVE  FALSE
    <3>1. ~g.frames[c].cancelling BY <1>1, <1>2, <1>5, <2>6 DEF Branches, Unreported
    <3>2. g.frames[c].notification = "Waiting"
      <4>1. g.frames[c].notification \in {"Waiting", "Queued", "Emitted"} BY SoundTypes, RecordTypes
      <4> QED BY <1>1, <2>6, <3>1, <4>1 DEF Branches, Settled
    <3>3. c \in r.running BY <1>1, <1>2, <2>6, <3>1, <3>2 DEF Branches, Expected, Waits
    <3> QED BY <2>5, <3>3
  <2> QED BY <1>2, <1>5, <2>6 DEF Free
<1> QED BY <1>4, <1>5

LEMMA CloseIs ==
    ASSUME NEW p \in Plans, NEW g, Sound(g, p), NEW id, Runs(g, id), g.frames[id].round # NoRound,
           Joined(g, id)
    PROVE  LET h == CloseRound(g, id)
           IN /\ Sound(h, p) /\ Follows(g, h, Plain("Transition")) /\ Runs(h, id)
              /\ h.frames[id].round = NoRound /\ h.remaining = g.remaining
              /\ \A i \in Frames(g) \cap Frames(h) : h.frames[i].generation = g.frames[i].generation
<1>1. id \in Frames(g) /\ g \in Schedulers /\ id \in Nat BY SoundTypes DEF Runs
<1>2. PICK f \in FrameRecords : f = g.frames[id] BY <1>1, SoundTypes
<1>3. NoRound \in Rounds BY DEF NoRound, Rounds
<1>4. PICK e : e = [f EXCEPT !.round = NoRound] OBVIOUS
<1>5. /\ e \in FrameRecords /\ e.phase = f.phase /\ e.generation = f.generation
      /\ e.parent = f.parent /\ e.children = f.children /\ e.cancelling = f.cancelling
      /\ e.notification = f.notification /\ e.round = NoRound /\ e.calls = f.calls
  BY <1>3, <1>4 DEF FrameRecords
<1>6. PICK F : F = [g.frames EXCEPT ![id] = e] OBVIOUS
<1>7. /\ F \in Partial(Nat, FrameRecords) /\ DOMAIN F = Frames(g)
      /\ F[id] = e /\ \A j \in Frames(g) \ {id} : F[j] = g.frames[j]
  BY <1>1, <1>5, <1>6, FrameSet
<1>8. PICK B : B = Drop(g.blocked, {id}) OBVIOUS
<1>9. B \in Partial(Nat, {"Local", "Global"}) /\ DOMAIN B \subseteq DOMAIN g.blocked
  <2>1. g.blocked \in Partial(Nat, {"Local", "Global"}) BY <1>1, FrameTypes
  <2>2. PICK R : R = {"Local", "Global"} OBVIOUS
  <2>3. DOMAIN g.blocked \subseteq Nat /\ g.blocked \in [DOMAIN g.blocked -> R] BY <2>1, <2>2, PartialFn
  <2>4. B = [y \in (DOMAIN g.blocked \ {id}) \cap DOMAIN g.blocked |-> g.blocked[y]]
        \/ B = [y \in DOMAIN g.blocked \ {id} |-> g.blocked[y]]
    BY <1>8 DEF Drop, Restrict
  <2>5. DOMAIN B \subseteq DOMAIN g.blocked /\ B \in [DOMAIN B -> R] BY <2>3, <2>4
  <2>6. B \in Partial(Nat, R) BY <2>3, <2>5, PartialFn
  <2> QED BY <2>2, <2>5, <2>6
<1>10. PICK h : h = CloseRound(g, id) OBVIOUS
<1>11. h = [g EXCEPT !.frames = F, !.blocked = B]
  BY <1>1, <1>2, <1>4, <1>6, <1>8, <1>10 DEF CloseRound, Schedulers
<1>12. /\ h \in Schedulers /\ h.frames = F /\ h.blocked = B /\ h.queued = g.queued
       /\ h.pending = g.pending /\ h.next = g.next /\ h.outcome = g.outcome
       /\ h.remaining = g.remaining /\ h.calls = g.calls
  <2>1. h \in Schedulers BY <1>1, <1>7, <1>9, <1>11 DEF Schedulers
  <2> QED BY <1>1, <1>11, <2>1 DEF Schedulers
<1>13. g.remaining \in Nat /\ f.generation \in Nat /\ p.budget \in Nat
  BY <1>2, SoundTypes, RecordTypes, PlanTypes
<1>14. Replaces(g, h, id, e)
  <2>1. ~g.frames[id].cancelling /\ g.frames[id].notification = "Waiting" BY DEF Runs
  <2>2. Starts(e) BY <1>5 DEF Starts
  <2> QED BY <1>2, <1>5, <1>6, <1>9, <1>12, <1>13, <2>1, <2>2 DEF Replaces
<1>15. /\ e.generation + h.remaining <= p.budget /\ DOMAIN e.calls \subseteq 1..e.generation
       /\ e.round.attempt <= e.generation /\ Outcome(e) = None
  <2>1. /\ f.generation + g.remaining <= p.budget /\ DOMAIN f.calls \subseteq 1..f.generation
    BY <1>1, <1>2, SoundTypes DEF Core, Budget
  <2>2. e.round.attempt = 0 BY <1>5 DEF NoRound
  <2> QED BY <1>2, <1>5, <1>12, <1>13, <2>1, <2>2 DEF Outcome, Runs
<1>16. PICK u : u = Plain("Transition") OBVIOUS
<1>17. u.k = "Transition" /\ Started(u) = {} BY <1>16 DEF Plain, Update, Started
<1>18. Frames(h) = Frames(g) /\ h.frames[id] = e /\ \A j \in Frames(g) \ {id} : h.frames[j] = g.frames[j]
  BY <1>7, <1>12 DEF Frames
<1>19. \A i \in Frames(g) : /\ DOMAIN h.frames[i].calls = DOMAIN g.frames[i].calls
                            /\ h.frames[i].generation = g.frames[i].generation
  BY <1>2, <1>5, <1>18
<1>20. Books(h) = Books(g) BY <1>18, <1>19, BooksSame
<1>21. Sound(h, p) /\ Follows(g, h, u)
  <2>1. IsFiniteSet(Books(h)) /\ h.calls = Cardinality(Books(h)) BY <1>12, <1>20 DEF Sound, Accounted
  <2>2. /\ Free(g, id)
        /\ g.frames[id].round.failed =>
              \A c \in Frames(g) \ {ROOT} : g.frames[c].parent.frame = id =>
                  g.frames[c].parent.round # g.frames[id].round.attempt
    BY JoinedFree
  <2> QED BY <1>14, <1>15, <1>17, <1>20, <2>1, <2>2, TakenIs
<1>22. Runs(h, id) BY <1>1, <1>2, <1>5, <1>15, <1>18 DEF Runs
<1> QED BY <1>5, <1>10, <1>12, <1>16, <1>18, <1>19, <1>21, <1>22

LEMMA JoinRoundIs ==
    ASSUME NEW p \in Plans, NEW g, Sound(g, p), NEW id, Runs(g, id), g.frames[id].round # NoRound,
           Joined(g, id), NEW x, Sees(x, p)
    PROVE  \A r \in join_round(g, id, x) : Fine(g, r, p)
<1>1. PICK h : h = CloseRound(g, id) OBVIOUS
<1>2. /\ Sound(h, p) /\ Follows(g, h, Plain("Transition")) /\ Runs(h, id)
      /\ h.frames[id].round = NoRound /\ h.remaining = g.remaining
      /\ \A i \in Frames(g) \cap Frames(h) : h.frames[i].generation = g.frames[i].generation
  BY <1>1, CloseIs
<1>3. ASSUME NEW s \in driver_join(g.frames[id], g.frames[id].round.failed, x, g.remaining)
      PROVE  Fine(g, perform(h, id, s), p)
  <2>1. g.frames[id] \in FrameRecords /\ g.remaining \in Nat BY SoundTypes DEF Runs
  <2>2. Steps(s, g.frames[id].generation, g.remaining) BY <2>1, <1>3, DriverJoinIs
  <2>3. id \in Frames(g) \cap Frames(h) BY <1>2 DEF Runs
  <2>4. Steps(s, h.frames[id].generation, h.remaining)
    <3>1. h.frames[id].generation = g.frames[id].generation BY <1>2, <2>3
    <3> QED BY <1>2, <2>2, <3>1
  <2>5. PICK r : r = perform(h, id, s) OBVIOUS
  <2>6. Fine(h, r, p) /\ r.update.k # "ChildStarted" BY <1>2, <2>4, <2>5, PerformIs
  <2>7. PICK v : v = Plain("Transition") OBVIOUS
  <2>8. v.k = "Transition" /\ v.call = NoCall BY <2>7 DEF Plain, Update
  <2>9. Started(v) = {} /\ Reported(v) = {} /\ Opened(v) = {} /\ v.k # "ChildStarted"
    BY <2>8 DEF Started, Reported, Opened
  <2>10. Sound(r.g, p) /\ Follows(h, r.g, r.update) /\ Opened(r.update) = {}
    BY <2>6 DEF Fine, Opened
  <2>11. Follows(g, r.g, r.update)
    <3>1. Follows(g, h, v) BY <1>2, <2>7
    <3>2. \A i \in Frames(g) \cap Frames(h) : h.frames[i].generation = g.frames[i].generation BY <1>2
    <3>3. Sound(h, p) BY <1>2
    <3> QED BY <2>6, <2>9, <2>10, <3>1, <3>2, <3>3, FollowsTrans
  <2> QED BY <2>5, <2>10, <2>11 DEF Fine
<1> QED BY <1>1, <1>3 DEF join_round

-----------------------------------------------------------------------------
(* A branch tells its parent.                                               *)

\* a live branch that has settled and not told it yet
Tells(g, id) ==
    /\ id \in Frames(g) /\ ~g.frames[id].cancelling
    /\ Outcome(g.frames[id]) # None /\ g.frames[id].notification = "Waiting"

\* q waits for id
WaitsFor(g, q, id) ==
    /\ id # ROOT /\ q \in Frames(g) /\ q # id /\ Waits(g.frames[id])
    /\ Outcome(g.frames[id]) \in {"Succeeded", "Failed"}
    /\ g.frames[q].round.attempt = g.frames[id].parent.round
    /\ id \in g.frames[q].round.running
    /\ g.frames[q].round.attempt # 0 /\ ~g.frames[q].cancelling
    /\ Free(g, id)

LEMMA TellsIs ==
    ASSUME NEW p \in Plans, NEW g, Sound(g, p), NEW id, Tells(g, id)
    PROVE  WaitsFor(g, g.frames[id].parent.frame, id)
<1>0. PICK q : q = g.frames[id].parent.frame OBVIOUS
<1>1. id \in Frames(g) /\ ~g.frames[id].cancelling /\ Outcome(g.frames[id]) # None
      /\ Waits(g.frames[id]) /\ Branches(g) /\ Tree(g) /\ Frames(g) \subseteq Nat
  BY SoundTypes DEF Tells, Waits, Core
<1>2. id # ROOT /\ Outcome(g.frames[id]) \in {"Succeeded", "Failed"} BY <1>1 DEF Branches, Settled
<1>3. q \in Frames(g) /\ q < id /\ g.frames[id].parent.round >= 1
  BY <1>0, <1>1, <1>2 DEF Tree
<1>4. g.frames[q].round.attempt = g.frames[id].parent.round /\ id \in g.frames[q].round.running
  BY <1>0, <1>1, <1>2, <1>3 DEF Branches, Expected
<1>5. g.frames[q].round.attempt # 0 BY <1>3, <1>4
<1>6. ~g.frames[q].cancelling BY <1>1, <1>3, <1>5 DEF Branches, Joins
<1>7. g.frames[id].round = NoRound BY <1>1 DEF Branches, Joins, Outcome
<1>8. Open(g, p.budget) BY SoundTypes, BranchesStill DEF Open, Branches
<1>9. Free(g, id) BY <1>1, <1>7, <1>8, FreeIs
<1>10. q # id BY <1>1, <1>3
<1> QED BY <1>0, <1>1, <1>2, <1>3, <1>4, <1>5, <1>6, <1>9, <1>10 DEF WaitsFor

\* the outputs with or without a branch's own
Adds(outs, S, n) == outs = S \/ outs = S \cup {n}

LEMMA AddsIs ==
    ASSUME NEW outs, NEW S, NEW n, Adds(outs, S, n), NEW z \in outs
    PROVE  z \in S \/ z = n
BY DEF Adds

\* what the parent's round becomes: the branch is through, its output perhaps there
Heard(r, id, outs) == [r EXCEPT !.running = @ \ {id}, !.outputs = outs]

IsHeard(s, r, id, outs) ==
    /\ s \in Rounds /\ s.attempt = r.attempt /\ s.count = r.count /\ s.max = r.max
    /\ s.next = r.next /\ s.outputs = outs /\ s.failed = r.failed
    /\ \A c : c \in s.running <=> c \in r.running /\ c # id

LEMMA HeardIs ==
    ASSUME NEW r \in Rounds, NEW id, NEW outs, outs \subseteq Nat
    PROVE  IsHeard(Heard(r, id, outs), r, id, outs)
BY DEF Heard, Rounds, IsHeard

\* h is g but for the round of q and the notice of id
HeardBy(g, h, id, q, outs) ==
    /\ q = g.frames[id].parent.frame
    /\ Adds(outs, g.frames[q].round.outputs, g.frames[id].parent.index)
    /\ Frames(h) = Frames(g) /\ h.frames[q].round = Heard(g.frames[q].round, id, outs)
    /\ \A i \in Frames(g) : /\ h.frames[i].parent = g.frames[i].parent
                            /\ i # id => (Waits(g.frames[i]) => Waits(h.frames[i]))

LEMMA HeardOwed ==
    ASSUME NEW p \in Plans, NEW g, Sound(g, p), NEW id, Tells(g, id),
           NEW q, NEW outs, NEW h, HeardBy(g, h, id, q, outs), ~g.frames[q].round.failed
    PROVE  Owed(h, q)
<1>1. q \in Frames(g) /\ q # id /\ g.frames[q].round.attempt # 0 /\ id \in g.frames[q].round.running
  <2>1. q = g.frames[id].parent.frame BY DEF HeardBy
  <2>2. WaitsFor(g, q, id) BY <2>1, TellsIs
  <2> QED BY <2>2 DEF WaitsFor
<1>11. g.frames[q].round \in Rounds /\ Joins(g) BY <1>1, SoundTypes, RecordTypes DEF Branches
<1>12. PICK r \in Rounds : r = g.frames[q].round BY <1>11
<1>13. PICK n : n = g.frames[id].parent.index OBVIOUS
<1>14. Adds(outs, r.outputs, n) /\ h.frames[q].round = Heard(r, id, outs) /\ Frames(h) = Frames(g)
  BY <1>12, <1>13 DEF HeardBy
<1>15. \A i \in Frames(g) : /\ h.frames[i].parent = g.frames[i].parent
                            /\ i # id => (Waits(g.frames[i]) => Waits(h.frames[i]))
  BY DEF HeardBy
<1>2. Owed(g, q) BY <1>1, <1>11 DEF Joins
<1>3. /\ r.next <= r.count /\ r.outputs \subseteq 0..(r.next - 1) /\ r.next \in Nat
      /\ n \in 0..(r.next - 1) \ r.outputs
  <2>1. HeardBy(g, h, id, q, outs) => n = g.frames[id].parent.index BY <1>13
  <2> QED BY <1>1, <1>2, <1>12, <1>13 DEF Owed, Rounds
<1>4. outs \subseteq 0..(r.next - 1)
  <2>1. ASSUME NEW z \in outs PROVE z \in 0..(r.next - 1)
    <3>1. z \in r.outputs \/ z = n BY <1>14, AddsIs
    <3> QED BY <3>1, <1>3
  <2> QED BY <2>1
<1>5. outs \subseteq Nat BY <1>3, <1>4
<1>6. PICK s : s = Heard(r, id, outs) OBVIOUS
<1>7. /\ s.attempt = r.attempt /\ s.count = r.count /\ s.next = r.next
      /\ s.outputs = outs /\ \A c : c \in s.running <=> c \in r.running /\ c # id
  <2>1. IsHeard(s, r, id, outs) BY <1>5, <1>6, HeardIs
  <2> QED BY <2>1 DEF IsHeard
<1>8. ASSUME NEW c \in r.running, c # id
      PROVE  /\ c \in Frames(h) /\ c # ROOT /\ Waits(h.frames[c])
             /\ h.frames[c].parent.frame = q /\ h.frames[c].parent.round = r.attempt
             /\ h.frames[c].parent.index \in 0..(r.next - 1) \ outs
  <2>1. /\ c \in Frames(g) /\ c # ROOT /\ Waits(g.frames[c])
        /\ g.frames[c].parent.frame = q /\ g.frames[c].parent.round = r.attempt
        /\ g.frames[c].parent.index \in 0..(r.next - 1) \ r.outputs
    BY <1>2, <1>8, <1>12 DEF Owed
  <2>2. g.frames[c].parent.index # n BY <1>1, <1>2, <1>8, <1>12, <1>13 DEF Owed
  <2>3. g.frames[c].parent.index \notin outs BY <1>14, <2>1, <2>2, AddsIs
  <2> QED BY <1>8, <1>14, <1>15, <2>1, <2>3
<1>9. ASSUME NEW c \in r.running, NEW d \in r.running, c # id, d # id,
             h.frames[c].parent.index = h.frames[d].parent.index
      PROVE  c = d
  <2>1. c \in Frames(g) /\ d \in Frames(g) BY <1>8, <1>9, <1>14
  <2>2. g.frames[c].parent.index = g.frames[d].parent.index BY <1>9, <1>15, <2>1
  <2> QED BY <1>2, <1>9, <1>12, <2>2 DEF Owed
<1>10. h.frames[q].round = s BY <1>6, <1>14
<1> QED BY <1>3, <1>4, <1>7, <1>8, <1>9, <1>10 DEF Owed

LEMMA OwedSame ==
    ASSUME NEW g, NEW i, Owed(g, i), NEW h, Frames(h) = Frames(g),
           h.frames[i].round = g.frames[i].round,
           \A c \in g.frames[i].round.running :
               Waits(h.frames[c]) /\ h.frames[c].parent = g.frames[c].parent
    PROVE  Owed(h, i)
<1>1. PICK r : r = g.frames[i].round OBVIOUS
<1>2. ASSUME NEW c \in r.running
      PROVE  /\ c \in Frames(h) /\ c # ROOT /\ Waits(h.frames[c])
             /\ h.frames[c].parent.frame = i /\ h.frames[c].parent.round = r.attempt
             /\ h.frames[c].parent.index \in 0..(r.next - 1) \ r.outputs
  BY <1>1, <1>2 DEF Owed
<1>3. ASSUME NEW c \in r.running, NEW d \in r.running,
             h.frames[c].parent.index = h.frames[d].parent.index
      PROVE  c = d
  BY <1>1, <1>3 DEF Owed
<1>4. r.next <= r.count /\ r.outputs \subseteq 0..(r.next - 1) BY <1>1 DEF Owed
<1>5. h.frames[i].round = r BY <1>1
<1> QED BY <1>2, <1>3, <1>4, <1>5 DEF Owed

\* h is g once branch id has told its parent q
Hears(g, h, id, outs) ==
    LET q == g.frames[id].parent.frame
    IN /\ h \in Schedulers /\ Frames(h) = Frames(g)
       /\ h.frames[id] = [g.frames[id] EXCEPT !.notification = "Emitted"]
       /\ h.frames[q] = [g.frames[q] EXCEPT !.round = Heard(g.frames[q].round, id, outs)]
       /\ \A i \in Frames(g) \ {id, q} : h.frames[i] = g.frames[i]
       /\ h.queued = g.queued /\ h.blocked = g.blocked /\ h.pending = g.pending
       /\ h.next = g.next /\ h.remaining = g.remaining /\ h.calls = g.calls
       /\ h.outcome = g.outcome

LEMMA HearsIs ==
    ASSUME NEW p \in Plans, NEW g, Sound(g, p), NEW id, Tells(g, id),
           NEW outs, Adds(outs, g.frames[g.frames[id].parent.frame].round.outputs,
                          g.frames[id].parent.index),
           NEW h, Hears(g, h, id, outs), NEW u, u.k = "ChildFinished", u.child = id
    PROVE  Sound(h, p) /\ Follows(g, h, u)
<1>1. PICK q : q = g.frames[id].parent.frame OBVIOUS
<1>2. PICK f \in FrameRecords : f = g.frames[id] BY SoundTypes DEF Tells
<1>3. /\ id # ROOT /\ q \in Frames(g) /\ q # id /\ Waits(f)
      /\ Outcome(f) \in {"Succeeded", "Failed"} /\ id \in Frames(g) /\ ~f.cancelling
      /\ f.notification = "Waiting" /\ Free(g, id)
  <2>1. WaitsFor(g, q, id) BY <1>1, TellsIs
  <2> QED BY <1>2, <2>1 DEF Tells, WaitsFor
<1>4. PICK e \in FrameRecords : e = g.frames[q] BY <1>3, SoundTypes
<1>5. /\ e.round.attempt = f.parent.round /\ id \in e.round.running
      /\ e.round.attempt # 0 /\ ~e.cancelling
  <2>1. /\ g.frames[q].round.attempt = g.frames[id].parent.round
        /\ id \in g.frames[q].round.running
        /\ g.frames[q].round.attempt # 0 /\ ~g.frames[q].cancelling
    <3>1. WaitsFor(g, q, id) BY <1>1, TellsIs
    <3> QED BY <3>1 DEF WaitsFor
  <2> QED BY <1>2, <1>4, <2>1
<1>6. e.round \in Rounds /\ f.parent.index \in Nat BY <1>2, <1>4, RecordTypes DEF Parents
<1>7. outs \subseteq Nat
  <2>1. ASSUME NEW z \in outs PROVE z \in Nat
    <3>1. z \in e.round.outputs \/ z = f.parent.index BY <1>1, <1>2, <1>4, AddsIs
    <3> QED BY <1>6, <3>1 DEF Rounds
  <2> QED BY <2>1
<1>8. PICK s : s = Heard(e.round, id, outs) OBVIOUS
<1>9. /\ s \in Rounds /\ s.attempt = e.round.attempt /\ s.count = e.round.count
      /\ s.next = e.round.next /\ s.outputs = outs /\ s.failed = e.round.failed
      /\ \A c : c \in s.running <=> c \in e.round.running /\ c # id
  <2>1. IsHeard(s, e.round, id, outs) BY <1>6, <1>7, <1>8, HeardIs
  <2> QED BY <2>1 DEF IsHeard
<1>10. /\ g \in Schedulers /\ Core(g, p.budget) /\ Tree(g) /\ Queues(g) /\ Budget(g, p.budget)
       /\ Halted(g) /\ Branches(g) /\ Expected(g) /\ Joins(g) /\ Settled(g) /\ Unreported(g)
       /\ Notified(g) /\ \A i \in Frames(g) : g.frames[i] \in FrameRecords
       /\ g.outcome # "Internal"
  BY SoundTypes DEF Core, Branches, Coherent
<1>11. /\ h \in Schedulers /\ Frames(h) = Frames(g)
       /\ h.frames[id] = [f EXCEPT !.notification = "Emitted"]
       /\ h.frames[q] = [e EXCEPT !.round = s]
       /\ \A i \in Frames(g) \ {id, q} : h.frames[i] = g.frames[i]
       /\ h.queued = g.queued /\ h.blocked = g.blocked /\ h.pending = g.pending
       /\ h.next = g.next /\ h.remaining = g.remaining /\ h.calls = g.calls
       /\ h.outcome = g.outcome
  BY <1>1, <1>2, <1>4, <1>8 DEF Hears
<1>12. ASSUME NEW i \in Frames(g)
       PROVE  /\ h.frames[i].parent = g.frames[i].parent
              /\ h.frames[i].children = g.frames[i].children
              /\ h.frames[i].phase = g.frames[i].phase
              /\ h.frames[i].generation = g.frames[i].generation
              /\ h.frames[i].cancelling = g.frames[i].cancelling
              /\ h.frames[i].calls = g.frames[i].calls
              /\ i # q => h.frames[i].round = g.frames[i].round
              /\ i # id => h.frames[i].notification = g.frames[i].notification
  <2>1. CASE i = id BY <2>1, <1>2, <1>3, <1>11 DEF FrameRecords
  <2>2. CASE i = q BY <2>2, <1>3, <1>4, <1>11 DEF FrameRecords
  <2>3. CASE i \notin {id, q}
    <3>1. h.frames[i] = g.frames[i] BY <1>11, <2>3
    <3> QED BY <3>1
  <2> QED BY <2>1, <2>2, <2>3
<1>13. h.frames[id].notification = "Emitted" /\ h.frames[q].round = s
  <2>1. h.frames[id].notification = "Emitted" BY <1>2, <1>11 DEF FrameRecords
  <2>2. h.frames[q].round = s BY <1>4, <1>11 DEF FrameRecords
  <2> QED BY <2>1, <2>2
<1>14. \A i \in Frames(g) : /\ i # id => (Waits(h.frames[i]) <=> Waits(g.frames[i]))
                            /\ Outcome(h.frames[i]) = Outcome(g.frames[i])
  BY <1>12 DEF Waits, Outcome
<1>15. ~Waits(h.frames[id]) BY <1>13 DEF Waits
<1>16. Core(h, p.budget)
  <2>1. Tree(h) BY <1>10, <1>11, <1>12, TreeSame
  <2>2. Queues(h) BY <1>10, <1>11 DEF Queues
  <2>3. Budget(h, p.budget)
    <3>1. ASSUME NEW i \in Frames(g)
          PROVE  /\ h.frames[i].generation + h.remaining <= p.budget
                 /\ DOMAIN h.frames[i].calls \subseteq 1..h.frames[i].generation
                 /\ h.frames[i].round.attempt <= h.frames[i].generation
      <4>1. /\ g.frames[i].generation + g.remaining <= p.budget
            /\ DOMAIN g.frames[i].calls \subseteq 1..g.frames[i].generation
            /\ g.frames[i].round.attempt <= g.frames[i].generation
        BY <1>10 DEF Budget
      <4>2. h.frames[i].round.attempt = g.frames[i].round.attempt
        <5>1. CASE i = q BY <5>1, <1>4, <1>9, <1>13
        <5>2. CASE i # q BY <5>2, <1>12
        <5> QED BY <5>1, <5>2
      <4>3. h.frames[i].generation = g.frames[i].generation /\ h.frames[i].calls = g.frames[i].calls
        BY <1>12
      <4> QED BY <1>11, <4>1, <4>2, <4>3
    <3> QED BY <3>1, <1>11 DEF Budget
  <2>4. Halted(h) BY <1>10, <1>11, <1>12 DEF Halted
  <2> QED BY <1>11, <2>1, <2>2, <2>3, <2>4 DEF Core
<1>17. Expected(h)
  <2>1. ASSUME NEW i \in Frames(g) \ {ROOT}, Waits(h.frames[i])
        PROVE  LET n == h.frames[i].parent
               IN h.frames[n.frame].round.attempt = n.round /\ i \in h.frames[n.frame].round.running
    <3>1. i # id /\ Waits(g.frames[i]) BY <1>14, <1>15, <2>1
    <3>2. PICK j \in Frames(g) : j = g.frames[i].parent.frame BY <1>10 DEF Tree
    <3>3. g.frames[j].round.attempt = g.frames[i].parent.round /\ i \in g.frames[j].round.running
      BY <3>1, <3>2, <1>10 DEF Expected
    <3>4. h.frames[j].round.attempt = g.frames[j].round.attempt /\ i \in h.frames[j].round.running
      <4>1. CASE j = q BY <4>1, <1>4, <1>9, <1>13, <3>1, <3>3
      <4>2. CASE j # q
        <5>1. h.frames[j].round = g.frames[j].round BY <4>2, <1>12
        <5> QED BY <5>1, <3>3
      <4> QED BY <4>1, <4>2
    <3>5. h.frames[i].parent = g.frames[i].parent BY <1>12
    <3> QED BY <3>2, <3>3, <3>4, <3>5
  <2> QED BY <2>1, <1>11 DEF Expected
<1>18. Joins(h)
  <2>1. ASSUME NEW i \in Frames(g)
        PROVE  LET v == h.frames[i]
               IN IF v.round.attempt = 0 THEN v.round = NoRound
                  ELSE /\ ~v.cancelling /\ v.phase.k = "Joining" /\ v.phase.outcome = None
                       /\ ~v.round.failed => Owed(h, i)
    <3>1. CASE i = q
      <4>1. /\ ~e.cancelling /\ e.phase.k = "Joining" /\ e.phase.outcome = None
        BY <1>3, <1>4, <1>5, <1>10 DEF Joins
      <4>2. h.frames[q].cancelling = e.cancelling /\ h.frames[q].phase = e.phase
        BY <1>3, <1>4, <1>12
      <4>3. ~s.failed => Owed(h, q)
        <5>1. ASSUME ~s.failed PROVE Owed(h, q)
          <6>1. ~g.frames[q].round.failed BY <1>4, <1>9, <5>1
          <6>2. h.frames[q].round = Heard(g.frames[q].round, id, outs) BY <1>4, <1>8, <1>13
          <6>3. Adds(outs, g.frames[q].round.outputs, g.frames[id].parent.index) BY <1>1
          <6>4. \A n \in Frames(g) : /\ h.frames[n].parent = g.frames[n].parent
                                     /\ n # id => (Waits(g.frames[n]) => Waits(h.frames[n]))
            BY <1>12, <1>14
          <6>5. HeardBy(g, h, id, q, outs) BY <1>1, <1>11, <6>2, <6>3, <6>4 DEF HeardBy
          <6> QED BY <6>1, <6>5, HeardOwed
        <5> QED BY <5>1
      <4> QED BY <3>1, <1>5, <1>9, <1>13, <4>1, <4>2, <4>3
    <3>2. CASE i # q
      <4>1. h.frames[i].round = g.frames[i].round /\ h.frames[i].phase = g.frames[i].phase
            /\ h.frames[i].cancelling = g.frames[i].cancelling BY <3>2, <1>12
      <4>2. CASE g.frames[i].round.attempt = 0 BY <4>1, <4>2, <1>10 DEF Joins
      <4>3. CASE g.frames[i].round.attempt # 0
        <5>1. /\ ~g.frames[i].cancelling /\ g.frames[i].phase.k = "Joining"
              /\ g.frames[i].phase.outcome = None
              /\ ~g.frames[i].round.failed => Owed(g, i) BY <4>3, <1>10 DEF Joins
        <5>2. ASSUME Owed(g, i) PROVE Owed(h, i)
          <6>1. \A c \in g.frames[i].round.running : c # id
            BY <5>2, <3>2, <1>1 DEF Owed
          <6>2. ASSUME NEW c \in g.frames[i].round.running
                PROVE  Waits(h.frames[c]) /\ h.frames[c].parent = g.frames[c].parent
            BY <5>2, <6>1, <6>2, <1>12, <1>14 DEF Owed
          <6> QED BY <5>2, <6>2, <4>1, <1>11, OwedSame
        <5> QED BY <4>1, <4>3, <5>1, <5>2
      <4> QED BY <4>2, <4>3
    <3> QED BY <3>1, <3>2
  <2> QED BY <2>1, <1>11 DEF Joins
<1>19. Settled(h)
  <2>1. ASSUME NEW i \in Frames(g), ~h.frames[i].cancelling
        PROVE  /\ Outcome(h.frames[i]) \in {None, "Succeeded", "Failed"}
               /\ Outcome(h.frames[i]) = None => h.frames[i].notification = "Waiting"
               /\ h.frames[i].notification # "Queued"
               /\ i = ROOT => Outcome(h.frames[i]) = None
    <3>1. CASE i = id
      <4>1. Outcome(h.frames[id]) \in {"Succeeded", "Failed"} /\ Outcome(h.frames[id]) # None
        BY <1>2, <1>3, <1>14 DEF None
      <4> QED BY <3>1, <1>3, <1>13, <4>1
    <3>2. CASE i # id BY <3>2, <2>1, <1>10, <1>12, <1>14 DEF Settled
    <3> QED BY <3>1, <3>2
  <2> QED BY <2>1, <1>11 DEF Settled
<1>20. Unreported(h)
  <2>1. ASSUME NEW i \in Frames(g) \ {ROOT}
        PROVE  LET n == h.frames[i].parent
                   v == h.frames[n.frame]
               IN ~v.cancelling /\ h.frames[i].notification # "Emitted" =>
                     /\ v.round.attempt = n.round
                     /\ ~v.round.failed => ~h.frames[i].cancelling
    <3>1. CASE i = id BY <3>1, <1>13
    <3>2. CASE i # id
      <4>1. PICK j \in Frames(g) : j = g.frames[i].parent.frame BY <1>10 DEF Tree
      <4>2. ~g.frames[j].cancelling /\ g.frames[i].notification # "Emitted" =>
               /\ g.frames[j].round.attempt = g.frames[i].parent.round
               /\ ~g.frames[j].round.failed => ~g.frames[i].cancelling
        BY <4>1, <1>10 DEF Unreported
      <4>3. h.frames[j].round.attempt = g.frames[j].round.attempt
            /\ h.frames[j].round.failed = g.frames[j].round.failed
        <5>1. CASE j = q BY <5>1, <1>4, <1>9, <1>13
        <5>2. CASE j # q
          <6>1. h.frames[j].round = g.frames[j].round BY <5>2, <1>12
          <6> QED BY <6>1
        <5> QED BY <5>1, <5>2
      <4>4. /\ h.frames[i].parent = g.frames[i].parent
            /\ h.frames[j].cancelling = g.frames[j].cancelling
            /\ h.frames[i].cancelling = g.frames[i].cancelling
            /\ h.frames[i].notification = g.frames[i].notification
        BY <1>12, <3>2
      <4> QED BY <4>1, <4>2, <4>3, <4>4
    <3> QED BY <3>1, <3>2
  <2> QED BY <2>1, <1>11 DEF Unreported
<1>21. Notified(h)
  <2>1. ASSUME NEW i \in Frames(g)
        PROVE  /\ h.frames[i].cancelling =>
                     Outcome(h.frames[i]) # None /\ (i # ROOT => h.frames[i].notification # "Waiting")
               /\ h.frames[i].notification # "Waiting" => i # ROOT /\ Outcome(h.frames[i]) # None
               /\ h.frames[i].notification = "Queued" <=> g.frames[i].notification = "Queued"
    <3>1. CASE i = id
      <4>1. h.frames[id].cancelling = f.cancelling BY <1>2, <1>3, <1>12
      <4>2. Outcome(h.frames[id]) # None BY <1>2, <1>3, <1>14 DEF None
      <4> QED BY <3>1, <1>2, <1>3, <1>13, <4>1, <4>2
    <3>2. CASE i # id
      <4>1. /\ h.frames[i].cancelling = g.frames[i].cancelling
            /\ h.frames[i].notification = g.frames[i].notification
            /\ Outcome(h.frames[i]) = Outcome(g.frames[i])
        BY <3>2, <1>12, <1>14
      <4>2. Notified(g) BY <1>10
      <4> QED BY <4>1, <4>2 DEF Notified
    <3> QED BY <3>1, <3>2
  <2>2. Range(h.pending) = {i \in Frames(h) : h.frames[i].notification = "Queued"}
    <3>1. Range(g.pending) = {i \in Frames(g) : g.frames[i].notification = "Queued"}
      BY <1>10 DEF Notified
    <3>2. h.pending = g.pending /\ Frames(h) = Frames(g) BY <1>11
    <3> QED BY <2>1, <3>1, <3>2
  <2>3. ASSUME NEW m \in 1..Len(h.pending), NEW n \in 1..Len(h.pending), m <= n
        PROVE  h.frames[h.pending[n]].parent.frame # h.pending[m]
    <3>1. DOMAIN h.pending = 1..Len(h.pending) BY <1>11, FrameTypes
    <3>2. h.pending[n] \in Frames(g) BY <3>1, <2>2, <1>11 DEF Range
    <3>3. h.pending = g.pending BY <1>11
    <3>4. Notified(g) BY <1>10
    <3>5. g.frames[g.pending[n]].parent.frame # g.pending[m] BY <2>3, <3>3, <3>4 DEF Notified
    <3>6. h.frames[h.pending[n]].parent = g.frames[h.pending[n]].parent BY <3>2, <1>12
    <3> QED BY <3>3, <3>5, <3>6
  <2>4. /\ \A i \in Frames(h) :
           /\ h.frames[i].cancelling =>
                 Outcome(h.frames[i]) # None /\ (i # ROOT => h.frames[i].notification # "Waiting")
           /\ h.frames[i].notification # "Waiting" => i # ROOT /\ Outcome(h.frames[i]) # None
    BY <2>1, <1>11
  <2> QED BY <2>2, <2>3, <2>4, <1>10, <1>11 DEF Notified
<1>22. Coherent(h, p.budget)
  BY <1>10, <1>11, <1>16, <1>17, <1>18, <1>19, <1>20, <1>21 DEF Coherent, Branches
<1>23. Nested(h)
  <2>1. ASSUME NEW i \in Frames(g) \ {ROOT}, h.frames[h.frames[i].parent.frame].notification = "Emitted"
        PROVE  h.frames[i].notification = "Emitted"
    <3>1. PICK j \in Frames(g) : j = g.frames[i].parent.frame BY <1>10 DEF Tree
    <3>2. g.frames[i].notification = "Emitted"
      <4>1. CASE j = id BY <4>1, <3>1, <1>3 DEF Free
      <4>2. CASE j # id
        <5>1. g.frames[j].notification = "Emitted" BY <4>2, <2>1, <3>1, <1>12
        <5> QED BY <5>1, <3>1 DEF Sound, Nested
      <4> QED BY <4>1, <4>2
    <3> QED BY <3>2, <1>12, <1>13
  <2> QED BY <2>1, <1>11 DEF Nested
<1>24. Books(h) = Books(g) BY <1>11, <1>12, BooksSame
<1>25. Accounted(h, p) BY <1>11, <1>24 DEF Sound, Accounted
<1>26. Opened(u) = {} /\ Started(u) = {} /\ Reported(u) = {id} BY DEF Opened, Started, Reported
<1>27. \A i \in Frames(g) : Grows(g.frames[i], h.frames[i])
  <2>1. ASSUME NEW i \in Frames(g) PROVE Grows(g.frames[i], h.frames[i])
    <3>1. g.frames[i].generation \in Nat BY <1>10, RecordTypes
    <3>2. g.frames[i].notification = "Emitted" => h.frames[i].notification = "Emitted"
      BY <1>12, <1>13
    <3> QED BY <3>1, <3>2, <1>12 DEF Grows
  <2> QED BY <2>1
<1>28. Closes(g, h)
  <2>1. ASSUME NEW i \in Frames(g)
        PROVE  h.frames[i].round.failed = g.frames[i].round.failed
               /\ h.frames[i].round.attempt = g.frames[i].round.attempt
    <3>1. CASE i = q BY <3>1, <1>4, <1>9, <1>13
    <3>2. CASE i # q
      <4>1. h.frames[i].round = g.frames[i].round BY <3>2, <1>12
      <4> QED BY <4>1
    <3> QED BY <3>1, <3>2
  <2> QED BY <2>1 DEF Closes
<1>29. Follows(g, h, u)
  <2>1. g.remaining \in Nat BY SoundTypes
  <2>2. \A i \in Frames(g) \ {ROOT} :
          i \notin Frames(h) \/ h.frames[i].notification = "Emitted" =>
              g.frames[i].notification = "Emitted" \/ i \in Reported(u)
    BY <1>11, <1>12, <1>26
  <2>3. \A i \in Reported(u) :
          /\ i \in Frames(g) \ {ROOT} /\ g.frames[i].notification # "Emitted"
          /\ i \in Frames(h) => h.frames[i].notification = "Emitted"
    BY <1>2, <1>3, <1>13, <1>26
  <2>4. Sticky(g, h) BY <1>11 DEF Sticky
  <2> QED BY <1>11, <1>24, <1>26, <1>27, <1>28, <2>1, <2>2, <2>3, <2>4 DEF Follows
<1> QED BY <1>22, <1>23, <1>25, <1>29 DEF Sound

HeardFrames(g, id, q, outs) ==
    [[g.frames EXCEPT ![id] = [g.frames[id] EXCEPT !.notification = "Emitted"]]
        EXCEPT ![q] = [g.frames[q] EXCEPT !.round = Heard(g.frames[q].round, id, outs)]]

LEMMA HeardFramesAre ==
    ASSUME NEW g \in Schedulers, NEW id \in Frames(g), NEW q \in Frames(g), q # id,
           q = g.frames[id].parent.frame, NEW outs, outs \subseteq Nat,
           NEW h, h = [g EXCEPT !.frames = HeardFrames(g, id, q, outs)]
    PROVE  Hears(g, h, id, outs)
<1>1. g.frames[id] \in FrameRecords /\ g.frames[q] \in FrameRecords BY FrameTypes
<1>2. PICK s : s = Heard(g.frames[q].round, id, outs) OBVIOUS
<1>3. s \in Rounds
  <2>1. g.frames[q].round \in Rounds BY <1>1, RecordTypes
  <2>2. IsHeard(s, g.frames[q].round, id, outs) BY <1>2, <2>1, HeardIs
  <2> QED BY <2>2 DEF IsHeard
<1>4. PICK d : d = [g.frames[id] EXCEPT !.notification = "Emitted"] OBVIOUS
<1>5. PICK e : e = [g.frames[q] EXCEPT !.round = s] OBVIOUS
<1>6. d \in FrameRecords BY <1>1, <1>4 DEF FrameRecords
<1>7. e \in FrameRecords BY <1>1, <1>3, <1>5 DEF FrameRecords
<1>8. PICK D : D = [g.frames EXCEPT ![id] = d] OBVIOUS
<1>9. g.frames \in [Frames(g) -> FrameRecords] /\ Frames(g) \subseteq Nat BY FrameTypes
<1>10. D \in [Frames(g) -> FrameRecords] BY <1>6, <1>8, <1>9
<1>11. PICK F : F = [D EXCEPT ![q] = e] OBVIOUS
<1>12. F \in [Frames(g) -> FrameRecords] BY <1>7, <1>10, <1>11
<1>13. DOMAIN F = Frames(g) /\ F \in Partial(Nat, FrameRecords)
  <2>1. DOMAIN F = Frames(g) BY <1>12
  <2> QED BY <1>9, <1>12, <2>1, PartialFn
<1>14. F[id] = d /\ F[q] = e /\ \A i \in Frames(g) : i # id /\ i # q => F[i] = g.frames[i]
  BY <1>8, <1>9, <1>10, <1>11
<1>15. h = [g EXCEPT !.frames = F] BY <1>2, <1>4, <1>5, <1>8, <1>11 DEF HeardFrames
<1>16. /\ h \in Schedulers /\ Frames(h) = Frames(g) /\ h.frames = F
       /\ h.queued = g.queued /\ h.blocked = g.blocked /\ h.pending = g.pending
       /\ h.next = g.next /\ h.remaining = g.remaining /\ h.calls = g.calls /\ h.outcome = g.outcome
  <2>1. h \in Schedulers BY <1>13, <1>15 DEF Schedulers
  <2>2. h.frames = F BY <1>15 DEF Schedulers
  <2>3. /\ h.queued = g.queued /\ h.blocked = g.blocked /\ h.pending = g.pending
        /\ h.next = g.next /\ h.remaining = g.remaining /\ h.calls = g.calls /\ h.outcome = g.outcome
    BY <1>15 DEF Schedulers
  <2> QED BY <1>13, <2>1, <2>2, <2>3 DEF Frames
<1> QED BY <1>2, <1>4, <1>5, <1>14, <1>16 DEF Hears

LEMMA ToldIs ==
    ASSUME NEW p \in Plans, NEW g, Sound(g, p), NEW id \in Nat, NEW owner \in Nat
    PROVE  Calm(g, Told(g, id, owner).g, p)
<1>1. PICK h : h = prune(g, id) OBVIOUS
<1>2. Tidies(g, h) /\ Silent(g, h) BY <1>1, SoundTypes, PruneIs
<1>3. Calm(g, h, p) BY <1>2, SilentCalm
<1>4. Calm(h, enqueue(h, owner, FALSE), p) BY <1>3, EnqueueCalm DEF Calm
<1>5. Told(g, id, owner).g = enqueue(h, owner, FALSE) BY <1>1 DEF Told
<1> QED BY <1>3, <1>4, <1>5, CalmTrans

LEMMA FailedCalm ==
    ASSUME NEW p \in Plans, NEW g, Sound(g, p), NEW id \in Frames(g), g.frames[id].round # NoRound
    PROVE  Calm(g, fail_round(g, id), p)
<1>1. PICK v : v = -1 OBVIOUS
<1>2. PICK h : h = fail_round_from(g, id, v) OBVIOUS
<1>3. v \notin Frames(g) BY <1>1, SoundTypes
<1>4. Spared(g, id, v) BY <1>3 DEF Spared
<1>5. Coherent(g, p.budget) BY SoundTypes
<1>6. Coherent(h, p.budget) /\ Steady(g, h) /\ h.outcome = g.outcome
  BY <1>2, <1>4, <1>5, FailRoundIs
<1>7. fail_round(g, id) = h BY <1>1, <1>2 DEF fail_round
<1> QED BY <1>6, <1>7, SteadySound DEF Calm, Sticky

\* A settled branch tells its parent, whatever becomes of its output.
LEMMA FinishedIs ==
    ASSUME NEW p \in Plans, NEW g, Sound(g, p), NEW id, Tells(g, id), NEW x
    PROVE  \A r \in finished(g, id, x) : Fine(g, r, p)
<1>1. PICK q : q = g.frames[id].parent.frame OBVIOUS
<1>2. /\ WaitsFor(g, q, id) /\ id \in Frames(g) /\ g \in Schedulers
  BY <1>1, TellsIs, SoundTypes DEF Tells
<1>3. /\ q \in Frames(g) /\ q # id /\ id \in g.frames[q].round.running
      /\ g.frames[q].round.attempt = g.frames[id].parent.round /\ g.frames[q].round.attempt # 0
      /\ Outcome(g.frames[id]) \in {"Succeeded", "Failed"}
  BY <1>2 DEF WaitsFor
<1>4. PICK f \in FrameRecords : f = g.frames[id] BY <1>2, SoundTypes
<1>5. PICK e \in FrameRecords : e = g.frames[q] BY <1>3, SoundTypes
<1>6. PICK r \in Rounds : r = e.round BY <1>5, RecordTypes
<1>7. PICK n \in Nat : n = f.parent.index BY <1>4, RecordTypes DEF Parents
<1>8. PICK a : a = [g EXCEPT !.frames[id].notification = "Emitted"] OBVIOUS
<1>9. PICK A : A = [g.frames EXCEPT ![id] = [f EXCEPT !.notification = "Emitted"]] OBVIOUS
<1>10. a = [g EXCEPT !.frames = A] BY <1>2, <1>4, <1>8, <1>9 DEF Schedulers
<1>11. /\ a.frames = A /\ Frames(a) = Frames(g) /\ a.frames[q] = e /\ A \in [Frames(g) -> FrameRecords]
  <2>1. g.frames \in [Frames(g) -> FrameRecords] BY <1>2, FrameTypes
  <2>2. [f EXCEPT !.notification = "Emitted"] \in FrameRecords BY <1>4 DEF FrameRecords
  <2>3. a.frames = A BY <1>2, <1>10 DEF Schedulers
  <2>4. A \in [Frames(g) -> FrameRecords] BY <1>9, <2>1, <2>2
  <2>5. A[q] = e BY <1>3, <1>5, <1>9, <2>1
  <2> QED BY <2>3, <2>4, <2>5 DEF Frames
<1>12. PICK b : b = [a EXCEPT !.frames[q].round.running = @ \ {id}] OBVIOUS
<1>13. PICK s : s = [r EXCEPT !.running = @ \ {id}] OBVIOUS
<1>14. s = Heard(r, id, r.outputs) /\ s.outputs = r.outputs
  BY <1>13 DEF Heard, Rounds
<1>15. b = [g EXCEPT !.frames = HeardFrames(g, id, q, r.outputs)]
  <2>1. b = [a EXCEPT !.frames = [a.frames EXCEPT ![q] = [a.frames[q] EXCEPT !.round = s]]]
    BY <1>6, <1>11, <1>12, <1>13
  <2>2. b = [a EXCEPT !.frames = [A EXCEPT ![q] = [e EXCEPT !.round = s]]]
    BY <1>11, <2>1
  <2>3. [A EXCEPT ![q] = [e EXCEPT !.round = s]] = HeardFrames(g, id, q, r.outputs)
    BY <1>4, <1>5, <1>6, <1>9, <1>14 DEF HeardFrames
  <2> QED BY <1>2, <1>10, <2>2, <2>3 DEF Schedulers
<1>16. r.outputs \subseteq Nat BY <1>6 DEF Rounds
<1>17. Hears(g, b, id, r.outputs) BY <1>1, <1>2, <1>3, <1>15, <1>16, HeardFramesAre
<1>18. ASSUME NEW u, u.k = "ChildFinished", u.child = id
       PROVE  Sound(b, p) /\ Follows(g, b, u)
  <2>1. Adds(r.outputs, g.frames[q].round.outputs, g.frames[id].parent.index)
    BY <1>5, <1>6 DEF Adds
  <2> QED BY <1>1, <1>17, <1>18, <2>1, HearsIs
<1>19. PICK outs : outs = r.outputs \cup {n} OBVIOUS
<1>20. PICK k : k = store(b, f.parent, "ok") OBVIOUS
<1>21. k = [g EXCEPT !.frames = HeardFrames(g, id, q, outs)]
  <2>1. PICK B : B = [A EXCEPT ![q] = [e EXCEPT !.round = s]] OBVIOUS
  <2>2. B = HeardFrames(g, id, q, r.outputs)
    BY <1>4, <1>5, <1>6, <1>9, <1>14, <2>1 DEF HeardFrames
  <2>3. b = [g EXCEPT !.frames = B] BY <1>15, <2>2
  <2>4. b.frames = B BY <1>2, <2>3 DEF Schedulers
  <2>5. B[q] = [e EXCEPT !.round = s] /\ B[q].round = s
    BY <1>3, <1>5, <1>11, <2>1 DEF FrameRecords
  <2>6. k = [b EXCEPT !.frames[q].round.outputs = @ \cup {n}]
    BY <1>1, <1>4, <1>7, <1>20 DEF store
  <2>7. [s EXCEPT !.outputs = @ \cup {n}] = Heard(r, id, outs)
    BY <1>6, <1>13, <1>19 DEF Heard, Rounds
  <2>8. k = [b EXCEPT !.frames = [B EXCEPT ![q] = [B[q] EXCEPT !.round = Heard(r, id, outs)]]]
    BY <2>4, <2>5, <2>6, <2>7
  <2>9. PICK t : t = Heard(r, id, outs) OBVIOUS
  <2>10. [B[q] EXCEPT !.round = t] = [e EXCEPT !.round = t] BY <1>5, <2>5 DEF FrameRecords
  <2>11. [B EXCEPT ![q] = [e EXCEPT !.round = t]] = [A EXCEPT ![q] = [e EXCEPT !.round = t]]
    BY <1>3, <1>11, <2>1
  <2>12. [A EXCEPT ![q] = [e EXCEPT !.round = t]] = HeardFrames(g, id, q, outs)
    BY <1>4, <1>5, <1>6, <1>9, <2>9 DEF HeardFrames
  <2>13. k = [b EXCEPT !.frames = HeardFrames(g, id, q, outs)]
    BY <2>8, <2>9, <2>10, <2>11, <2>12
  <2> QED BY <1>2, <2>3, <2>13 DEF Schedulers
<1>22. ASSUME NEW u, u.k = "ChildFinished", u.child = id
       PROVE  Sound(k, p) /\ Follows(g, k, u)
  <2>1. Adds(outs, g.frames[q].round.outputs, g.frames[id].parent.index)
    <3>1. g.frames[q].round.outputs = r.outputs /\ g.frames[id].parent.index = n
      BY <1>4, <1>5, <1>6, <1>7
    <3> QED BY <1>19, <3>1 DEF Adds
  <2>2. outs \subseteq Nat
    <3>1. \A z \in outs : z \in r.outputs \/ z = n BY <1>19
    <3> HIDE <1>19
    <3> QED BY <1>7, <1>16, <3>1
  <2>3. Hears(g, k, id, outs) BY <1>1, <1>2, <1>3, <1>21, <2>2, HeardFramesAre
  <2> QED BY <1>1, <1>22, <2>1, <2>3, HearsIs
<1>23. ASSUME NEW z \in finished(g, id, x) PROVE Fine(g, z, p)
  <2>1. finished(g, id, x) = Report(a, id, f, x) BY <1>4, <1>8 DEF finished
  <2>2. Has(a, q) /\ a.frames[q].round.attempt = f.parent.round /\ id \in a.frames[q].round.running
    BY <1>3, <1>4, <1>5, <1>11 DEF Has
  <2>3. Report(a, id, f, x) = {Told(t, id, q) : t \in Settlements(b, f, x)}
    BY <1>1, <1>4, <1>12, <2>2 DEF Report
  <2>4. PICK t \in Settlements(b, f, x) : z = Told(t, id, q) BY <1>23, <2>1, <2>3
  <2>5. PICK u : u = z.update OBVIOUS
  <2>6. u.k = "ChildFinished" /\ u.child = id BY <2>4, <2>5 DEF Told, Update
  <2>7. Opened(u) = {} BY <2>6 DEF Opened
  <2>8. q \in Nat /\ id \in Nat BY <1>2, <1>3, SoundTypes
  <2>9. Sound(b, p) /\ Follows(g, b, u) BY <1>18, <2>6
  <2>10. t = k \/ t = fail_round(b, q) \/ t = safety(b)
    <3>1. CASE Outcome(f) = "Succeeded"
      <4>1. PICK w \in {"ok", "evaluation", "capacity"} : t = store(b, f.parent, w)
        BY <2>4, <3>1 DEF Settlements
      <4> QED BY <1>1, <1>4, <1>20, <4>1 DEF store
    <3>2. CASE Outcome(f) = "Failed" BY <1>1, <1>4, <2>4, <3>2 DEF Settlements
    <3> QED BY <1>3, <1>4, <3>1, <3>2
  <2>11. Sound(t, p) /\ Follows(g, t, u)
    <3>1. CASE t = k BY <1>22, <2>6, <3>1
    <3>2. CASE t = fail_round(b, q)
      <4>1. q \in Frames(b) /\ b.frames[q].round # NoRound
        <5>1. Frames(b) = Frames(g) BY <1>17 DEF Hears
        <5>2. b.frames[q] = [e EXCEPT !.round = s] BY <1>1, <1>5, <1>6, <1>14, <1>17 DEF Hears
        <5>3. b.frames[q].round = s BY <1>5, <5>2 DEF FrameRecords
        <5>4. s.attempt = r.attempt BY <1>6, <1>13 DEF Rounds
        <5> QED BY <1>3, <1>5, <1>6, <5>1, <5>3, <5>4 DEF NoRound
      <4>2. Calm(b, t, p) BY <2>9, <3>2, <4>1, FailedCalm
      <4> QED BY <2>6, <2>7, <2>9, <4>2, CalmAfter DEF Calm
    <3>3. CASE t = safety(b)
      <4>1. Calm(b, t, p) BY <2>9, <3>3, SafetyIs
      <4> QED BY <2>6, <2>7, <2>9, <4>1, CalmAfter DEF Calm
    <3> QED BY <2>10, <3>1, <3>2, <3>3
  <2>12. Calm(t, z.g, p) BY <2>4, <2>8, <2>11, ToldIs
  <2>13. Follows(g, z.g, u) BY <2>6, <2>7, <2>11, <2>12, CalmAfter
  <2> QED BY <2>5, <2>12, <2>13 DEF Fine, Calm
<1> QED BY <1>23

-----------------------------------------------------------------------------
(* A branch is opened.                                                      *)

\* h is g with a new branch c of the round of id
Opens(g, h, id, c) ==
    LET f == g.frames[id]
        e == h.frames[id]
    IN /\ h \in Schedulers /\ c = g.next
       /\ \A i : i \in Frames(h) <=> i \in Frames(g) \/ i = c
       /\ \A i \in Frames(g) : i # id => h.frames[i] = g.frames[i]
       /\ h.frames[c] = NewFrame([frame |-> id, round |-> f.round.attempt, index |-> f.round.next],
                                 f.depth + 1)
       /\ e.phase = f.phase /\ e.generation = f.generation /\ e.parent = f.parent
       /\ e.calls = f.calls /\ e.notification = f.notification /\ e.cancelling = f.cancelling
       /\ \A i : i \in e.children <=> i \in f.children \/ i = c
       /\ \A i : i \in e.round.running <=> i \in f.round.running \/ i = c
       /\ e.round.next = f.round.next + 1 /\ e.round.attempt = f.round.attempt
       /\ e.round.count = f.round.count /\ e.round.outputs = f.round.outputs
       /\ e.round.failed = f.round.failed
       /\ h.queued = g.queued /\ DOMAIN h.blocked \subseteq DOMAIN g.blocked
       /\ h.pending = g.pending /\ h.next = g.next + 1 /\ h.remaining = g.remaining
       /\ h.calls = g.calls /\ h.outcome = g.outcome

\* a frame whose round has room for one more branch
Room(g, id, p) ==
    /\ Runs(g, id) /\ g.frames[id].round # NoRound /\ ~g.frames[id].round.failed
    /\ g.frames[id].round.next < g.frames[id].round.count
    /\ Cardinality(Frames(g)) < p.frames

\* a frame with nothing in it
Fresh(f, q) ==
    /\ f.generation = 0 /\ f.parent = q
    /\ f.children = {} /\ f.round = NoRound /\ DOMAIN f.calls = {}
    /\ f.notification = "Waiting" /\ f.cancelling = FALSE
    /\ Outcome(f) = None /\ Waits(f)

LEMMA NewFrameIs ==
    ASSUME NEW q, NEW d, NEW f, f = NewFrame(q, d)
    PROVE  Fresh(f, q)
<1>1. f.phase = Ready /\ Ready.outcome = None BY DEF NewFrame, Ready, Phase
<1>2. f.calls = Empty /\ DOMAIN Empty = {} BY DEF NewFrame, Empty
<1>3. /\ f.generation = 0 /\ f.parent = q /\ f.children = {} /\ f.round = NoRound
      /\ f.notification = "Waiting" /\ f.cancelling = FALSE
  BY DEF NewFrame
<1> QED BY <1>1, <1>2, <1>3 DEF Fresh, Outcome, Waits

LEMMA NewFrameTypes ==
    ASSUME NEW q \in Parents, NEW d \in Nat
    PROVE  NewFrame(q, d) \in FrameRecords
<1>1. Ready \in Phases BY PhaseIs DEF Ready
<1>2. NoRound \in Rounds BY DEF NoRound, Rounds
<1>3. Empty \in Partial(Nat, CallStates)
  <2>1. DOMAIN Empty = {} /\ Empty \in [DOMAIN Empty -> CallStates] BY DEF Empty
  <2> QED BY <2>1, PartialFn
<1> QED BY <1>1, <1>2, <1>3 DEF NewFrame, FrameRecords

LEMMA OpensBranch ==
    ASSUME NEW p \in Plans, NEW g, Sound(g, p), NEW id, Room(g, id, p)
    PROVE  Opens(g, OpenBranch(g, id, g.next, g.frames[id]), id, g.next)
<1>1. id \in Frames(g) /\ g \in Schedulers BY SoundTypes DEF Room, Runs
<1>2. PICK f \in FrameRecords : f = g.frames[id] BY <1>1, SoundTypes
<1>3. PICK c \in Nat : c = g.next BY SoundTypes
<1>4. c \notin Frames(g) /\ c # id /\ id \in Nat
  <2>1. c \notin Frames(g) BY <1>3, SoundTypes
  <2>2. id \in Nat BY <1>1, SoundTypes
  <2> QED BY <1>1, <2>1, <2>2
<1>5. PICK r \in Rounds : r = f.round BY <1>2, RecordTypes
<1>6. PICK w : w = r.running \cup {c} OBVIOUS
<1>6a. w \subseteq Nat /\ \A i : i \in w <=> i \in r.running \/ i = c
  BY <1>3, <1>5, <1>6 DEF Rounds
<1>6b. PICK s : s = [r EXCEPT !.next = @ + 1, !.running = w] OBVIOUS
<1>7. /\ s \in Rounds /\ s.next = r.next + 1 /\ s.attempt = r.attempt /\ s.count = r.count
      /\ s.outputs = r.outputs /\ s.failed = r.failed
      /\ \A i : i \in s.running <=> i \in r.running \/ i = c
  <2>1. w \in SUBSET Nat BY <1>6a
  <2>2. s.running = w /\ s.next = r.next + 1 /\ s.attempt = r.attempt /\ s.count = r.count
        /\ s.outputs = r.outputs /\ s.failed = r.failed
    <3> HIDE <1>6
    <3> QED BY <1>5, <1>6b DEF Rounds
  <2>3. s \in Rounds
    <3>1. \A k \in Nat, v \in SUBSET Nat : [r EXCEPT !.next = k, !.running = v] \in Rounds
      BY <1>5 DEF Rounds
    <3>2. r.next + 1 \in Nat BY <1>5 DEF Rounds
    <3>3. PICK k \in Nat : k = r.next + 1 BY <3>2
    <3>4. s = [r EXCEPT !.next = k, !.running = w] BY <1>5, <1>6b, <3>3 DEF Rounds
    <3> QED BY <2>1, <3>1, <3>4
  <2> QED BY <1>6a, <2>2, <2>3
<1>8. PICK C : C = f.children \cup {c} OBVIOUS
<1>9. C \subseteq Nat /\ \A i : i \in C <=> i \in f.children \/ i = c
  BY <1>2, <1>3, <1>8, RecordTypes
<1>10. PICK e : e = [f EXCEPT !.round = s, !.children = C] OBVIOUS
<1>11. /\ e \in FrameRecords /\ e.phase = f.phase /\ e.generation = f.generation
       /\ e.parent = f.parent /\ e.calls = f.calls /\ e.notification = f.notification
       /\ e.cancelling = f.cancelling /\ e.children = C /\ e.round = s
  BY <1>2, <1>7, <1>9, <1>10 DEF FrameRecords
<1>12. PICK E : E = [g.frames EXCEPT ![id] = e] OBVIOUS
<1>13. /\ E \in Partial(Nat, FrameRecords) /\ DOMAIN E = Frames(g)
       /\ E[id] = e /\ \A j \in Frames(g) \ {id} : E[j] = g.frames[j]
  BY <1>1, <1>11, <1>12, FrameSet
<1>14. PICK n : n = NewFrame([frame |-> id, round |-> r.attempt, index |-> r.next], f.depth + 1) OBVIOUS
<1>15. n \in FrameRecords
  <2>1. [frame |-> id, round |-> r.attempt, index |-> r.next] \in Parents
    BY <1>4, <1>5 DEF Parents, Rounds
  <2>2. f.depth + 1 \in Nat BY <1>2, RecordTypes
  <2> QED BY <1>14, <2>1, <2>2, NewFrameTypes
<1>16. PICK F : F = Put(E, c, n) OBVIOUS
<1>17. F \in Partial(Nat, FrameRecords)
  <2>1. PICK R : R = FrameRecords OBVIOUS
  <2>2. Put(E, c, n) \in Partial(Nat, R) BY <1>13, <1>15, <2>1, PutIs
  <2> QED BY <1>16, <2>1, <2>2
<1>18. /\ \A i : i \in DOMAIN F <=> i \in Frames(g) \/ i = c
       /\ F[c] = n /\ F[id] = e
       /\ \A i \in Frames(g) : i # id => F[i] = g.frames[i]
  BY <1>1, <1>4, <1>13, <1>16 DEF Put
<1>19. PICK B : B = Drop(g.blocked, {id}) OBVIOUS
<1>20. B \in Partial(Nat, {"Local", "Global"}) /\ DOMAIN B \subseteq DOMAIN g.blocked
  <2>1. g.blocked \in Partial(Nat, {"Local", "Global"}) BY <1>1, FrameTypes
  <2>2. PICK R : R = {"Local", "Global"} OBVIOUS
  <2>3. DOMAIN g.blocked \subseteq Nat /\ g.blocked \in [DOMAIN g.blocked -> R] BY <2>1, <2>2, PartialFn
  <2>4. B = [y \in (DOMAIN g.blocked \ {id}) \cap DOMAIN g.blocked |-> g.blocked[y]]
        \/ B = [y \in DOMAIN g.blocked \ {id} |-> g.blocked[y]]
    BY <1>19 DEF Drop, Restrict
  <2>5. DOMAIN B \subseteq DOMAIN g.blocked /\ B \in [DOMAIN B -> R] BY <2>3, <2>4
  <2>6. B \in Partial(Nat, R) BY <2>3, <2>5, PartialFn
  <2> QED BY <2>2, <2>5, <2>6
<1>21. PICK h : h = OpenBranch(g, id, c, f) OBVIOUS
<1>22. h = [g EXCEPT !.next = c + 1, !.blocked = B, !.frames = F]
  <2>1. WithBranch(f, c) = e
    <3>1. [f.round EXCEPT !.next = @ + 1, !.running = @ \cup {c}] = s
      BY <1>5, <1>6, <1>6b
    <3> QED BY <1>8, <1>10, <3>1, Zenon DEF WithBranch
  <2>2. h = [g EXCEPT !.next = @ + 1, !.blocked = B, !.frames = Put(E, c, n)]
    BY <1>5, <1>12, <1>14, <1>19, <1>21, <2>1, Zenon DEF OpenBranch
  <2> QED BY <1>1, <1>3, <1>16, <2>2 DEF Schedulers
<1>23. PICK m \in Nat : m = c + 1 BY <1>3
<1>24. h = [g EXCEPT !.next = m, !.blocked = B, !.frames = F] BY <1>22, <1>23
<1>25. h \in Schedulers BY <1>1, <1>17, <1>20, <1>23, <1>24 DEF Schedulers
<1>26. /\ h.frames = F /\ h.blocked = B /\ h.queued = g.queued
       /\ h.pending = g.pending /\ h.next = m /\ h.outcome = g.outcome
       /\ h.remaining = g.remaining /\ h.calls = g.calls
  BY <1>1, <1>24 DEF Schedulers
<1>27. Opens(g, h, id, c)
  BY <1>2, <1>3, <1>5, <1>7, <1>9, <1>11, <1>14, <1>18, <1>20, <1>23, <1>25, <1>26
  DEF Opens, Frames
<1> QED BY <1>2, <1>3, <1>21, <1>27

\* Every old frame but for the round and the children of id.
LEMMA OpensOld ==
    ASSUME NEW p \in Plans, NEW g, Sound(g, p), NEW id, Room(g, id, p), NEW h, NEW c,
           Opens(g, h, id, c)
    PROVE  /\ \A i \in Frames(g) :
                 /\ i \in Frames(h) /\ i # c
                 /\ h.frames[i].parent = g.frames[i].parent
                 /\ h.frames[i].phase = g.frames[i].phase
                 /\ h.frames[i].generation = g.frames[i].generation
                 /\ h.frames[i].cancelling = g.frames[i].cancelling
                 /\ h.frames[i].calls = g.frames[i].calls
                 /\ h.frames[i].notification = g.frames[i].notification
                 /\ h.frames[i].round.attempt = g.frames[i].round.attempt
                 /\ h.frames[i].round.failed = g.frames[i].round.failed
                 /\ i # id => /\ h.frames[i].round = g.frames[i].round
                              /\ h.frames[i].children = g.frames[i].children
                 /\ Outcome(h.frames[i]) = Outcome(g.frames[i])
                 /\ Waits(h.frames[i]) <=> Waits(g.frames[i])
           /\ c \in Nat /\ c \notin Frames(g) /\ id \in Frames(g) /\ c # ROOT /\ c > id
<1>1. \A i \in Frames(g) : i \in Nat /\ i < g.next BY SoundTypes
<1>2. c = g.next /\ g.next \in Nat BY SoundTypes DEF Opens
<1>3. id \in Frames(g) BY DEF Room, Runs
<1>4. c \in Nat /\ c \notin Frames(g) /\ c # ROOT /\ c > id
  <2>1. id < c /\ id >= 0 /\ c \in Nat BY <1>1, <1>2, <1>3
  <2>2. \A i \in Frames(g) : i # c BY <1>1, <1>2
  <2> QED BY <2>1, <2>2, <1>1, <1>3 DEF ROOT
<1>5. ASSUME NEW i \in Frames(g)
      PROVE  /\ i \in Frames(h) /\ i # c
             /\ h.frames[i].parent = g.frames[i].parent
             /\ h.frames[i].phase = g.frames[i].phase
             /\ h.frames[i].generation = g.frames[i].generation
             /\ h.frames[i].cancelling = g.frames[i].cancelling
             /\ h.frames[i].calls = g.frames[i].calls
             /\ h.frames[i].notification = g.frames[i].notification
             /\ h.frames[i].round.attempt = g.frames[i].round.attempt
             /\ h.frames[i].round.failed = g.frames[i].round.failed
             /\ i # id => /\ h.frames[i].round = g.frames[i].round
                          /\ h.frames[i].children = g.frames[i].children
  <2>1. i \in Frames(h) /\ i # c BY <1>4 DEF Opens
  <2>2. CASE i = id BY <2>1, <2>2 DEF Opens
  <2>3. CASE i # id
    <3>1. h.frames[i] = g.frames[i] BY <2>3 DEF Opens
    <3> QED BY <2>1, <2>3, <3>1
  <2> QED BY <2>2, <2>3
<1>6. \A i \in Frames(g) : /\ Outcome(h.frames[i]) = Outcome(g.frames[i])
                           /\ Waits(h.frames[i]) <=> Waits(g.frames[i])
  BY <1>5 DEF Outcome, Waits
<1> QED BY <1>3, <1>4, <1>5, <1>6

\* The new branch.
LEMMA OpensNew ==
    ASSUME NEW p \in Plans, NEW g, Sound(g, p), NEW id, Room(g, id, p), NEW h, NEW c,
           Opens(g, h, id, c)
    PROVE  /\ c \in Frames(h) /\ Fresh(h.frames[c], h.frames[c].parent)
           /\ h.frames[c].parent.frame = id
           /\ h.frames[c].parent.round = g.frames[id].round.attempt
           /\ h.frames[c].parent.index = g.frames[id].round.next
           /\ g.frames[id].round.attempt # 0 /\ g.frames[id].round.attempt \in Nat
           /\ ~g.frames[id].round.failed /\ Owed(g, id)
<1>1. PICK f : f = h.frames[c] OBVIOUS
<1>2. PICK q : q = [frame |-> id, round |-> g.frames[id].round.attempt, index |-> g.frames[id].round.next]
  OBVIOUS
<1>3. PICK d : d = g.frames[id].depth + 1 OBVIOUS
<1>4. f = NewFrame(q, d) BY <1>1, <1>2, <1>3 DEF Opens
<1>5. Fresh(f, q) /\ f.parent = q
  <2>1. Fresh(f, q) BY <1>4, NewFrameIs
  <2> QED BY <2>1 DEF Fresh
<1>6. q.frame = id /\ q.round = g.frames[id].round.attempt /\ q.index = g.frames[id].round.next
  BY <1>2
<1>7. c \in Frames(h) BY DEF Opens
<1>8. id \in Frames(g) /\ g.frames[id] \in FrameRecords /\ g.frames[id].round # NoRound
      /\ ~g.frames[id].round.failed /\ Joins(g)
  BY SoundTypes DEF Room, Runs, Branches
<1>9. g.frames[id].round.attempt \in Nat BY <1>8, RecordTypes DEF Rounds
<1>10. g.frames[id].round.attempt # 0 /\ Owed(g, id) BY <1>8 DEF Joins
<1> QED BY <1>1, <1>5, <1>6, <1>7, <1>8, <1>9, <1>10

LEMMA OpensOwed ==
    ASSUME NEW p \in Plans, NEW g, Sound(g, p), NEW id, Room(g, id, p), NEW h, NEW c,
           Opens(g, h, id, c)
    PROVE  Owed(h, id)
<1>1. id \in Frames(g) /\ Owed(g, id) /\ g.frames[id] \in FrameRecords
  BY OpensNew, OpensOld, SoundTypes
<1>2. PICK r \in Rounds : r = g.frames[id].round BY <1>1, RecordTypes
<1>3. PICK s : s = h.frames[id].round OBVIOUS
<1>4. /\ \A i : i \in s.running <=> i \in r.running \/ i = c
      /\ s.next = r.next + 1 /\ s.attempt = r.attempt /\ s.count = r.count
      /\ s.outputs = r.outputs
  BY <1>2, <1>3 DEF Opens
<1>5. /\ r.next <= r.count /\ r.outputs \subseteq 0..(r.next - 1) /\ r.next < r.count
      /\ r.next \in Nat /\ r.count \in Nat
      /\ \A i \in r.running :
             /\ i \in Frames(g) /\ i # ROOT /\ Waits(g.frames[i])
             /\ g.frames[i].parent.frame = id /\ g.frames[i].parent.round = r.attempt
             /\ g.frames[i].parent.index \in 0..(r.next - 1) \ r.outputs
      /\ \A i, j \in r.running :
             g.frames[i].parent.index = g.frames[j].parent.index => i = j
  BY <1>1, <1>2 DEF Owed, Rounds, Room
<1>6. s.next <= s.count /\ s.outputs \subseteq 0..(s.next - 1)
  BY <1>4, <1>5
<1>7. /\ c \in Frames(h) /\ c # ROOT /\ Waits(h.frames[c])
      /\ h.frames[c].parent.frame = id /\ h.frames[c].parent.round = s.attempt
      /\ h.frames[c].parent.index = r.next
  <2>1. /\ c \in Frames(h) /\ Fresh(h.frames[c], h.frames[c].parent)
        /\ h.frames[c].parent.frame = id
        /\ h.frames[c].parent.round = g.frames[id].round.attempt
        /\ h.frames[c].parent.index = g.frames[id].round.next
    BY OpensNew
  <2>2. Waits(h.frames[c]) BY <2>1 DEF Fresh
  <2>3. c # ROOT BY OpensOld
  <2> QED BY <1>2, <1>4, <2>1, <2>2, <2>3
<1>8. ASSUME NEW i \in r.running
      PROVE  /\ i \in Frames(h) /\ i # ROOT /\ Waits(h.frames[i])
             /\ h.frames[i].parent.frame = id /\ h.frames[i].parent.round = s.attempt
             /\ h.frames[i].parent.index = g.frames[i].parent.index
             /\ h.frames[i].parent.index \in 0..(r.next - 1) \ r.outputs
  <2>1. i \in Frames(g) BY <1>5
  <2>2. i \in Frames(h) /\ h.frames[i].parent = g.frames[i].parent /\ Waits(h.frames[i])
    BY <1>5, <2>1, OpensOld
  <2> QED BY <1>4, <1>5, <2>2
<1>9. ASSUME NEW i \in s.running
      PROVE  /\ i \in Frames(h) /\ i # ROOT /\ Waits(h.frames[i])
             /\ h.frames[i].parent.frame = id /\ h.frames[i].parent.round = s.attempt
             /\ h.frames[i].parent.index \in 0..(s.next - 1) \ s.outputs
  <2>1. h.frames[i].parent.index \in 0..(s.next - 1) \ s.outputs
    <3>1. CASE i = c
      <4>1. r.next \in 0..(s.next - 1) /\ r.next \notin s.outputs BY <1>4, <1>5
      <4> QED BY <1>7, <3>1, <4>1
    <3>2. CASE i \in r.running
      <4>1. 0..(r.next - 1) \subseteq 0..(s.next - 1) BY <1>4, <1>5
      <4> QED BY <1>4, <1>8, <3>2, <4>1
    <3> QED BY <1>4, <3>1, <3>2
  <2> QED BY <1>4, <1>7, <1>8, <2>1
<1>10. ASSUME NEW i \in s.running, NEW j \in s.running,
              h.frames[i].parent.index = h.frames[j].parent.index
       PROVE  i = j
  <2>1. \A k \in r.running : h.frames[k].parent.index # r.next
    <3>1. r.next \notin 0..(r.next - 1) BY <1>5
    <3> QED BY <1>8, <3>1
  <2>2. CASE i \in r.running /\ j \in r.running
    BY <1>5, <1>8, <1>10, <2>2
  <2> QED BY <1>4, <1>7, <1>10, <2>1, <2>2
<1> QED BY <1>3, <1>6, <1>9, <1>10 DEF Owed

LEMMA OpensBooks ==
    ASSUME NEW p \in Plans, NEW g, Sound(g, p), NEW id, Room(g, id, p), NEW h, NEW c,
           Opens(g, h, id, c)
    PROVE  Books(h) = Books(g)
<1>1. ASSUME NEW b PROVE b \in Books(h) <=> b \in Books(g)
  <2>1. \A i : i \in Frames(h) <=> i \in Frames(g) \/ i = c BY DEF Opens
  <2>2. \A i \in Frames(g) : h.frames[i].calls = g.frames[i].calls BY OpensOld
  <2>3. DOMAIN h.frames[c].calls = {} BY OpensNew DEF Fresh
  <2> QED BY <2>1, <2>2, <2>3, BooksIs
<1> QED BY <1>1

LEMMA OpensSound ==
    ASSUME NEW p \in Plans, NEW g, Sound(g, p), NEW id, Room(g, id, p), NEW h, NEW c,
           Opens(g, h, id, c)
    PROVE  Sound(h, p)
<1>1. /\ g \in Schedulers /\ Core(g, p.budget) /\ Tree(g) /\ Queues(g) /\ Budget(g, p.budget)
      /\ Halted(g) /\ Branches(g) /\ Expected(g) /\ Joins(g) /\ Settled(g) /\ Unreported(g)
      /\ Notified(g) /\ \A i \in Frames(g) : g.frames[i] \in FrameRecords
      /\ g.outcome # "Internal" /\ Nested(g) /\ Accounted(g, p)
  BY SoundTypes DEF Core, Branches, Coherent, Sound
<1>2. /\ h \in Schedulers /\ h.queued = g.queued /\ DOMAIN h.blocked \subseteq DOMAIN g.blocked
      /\ h.pending = g.pending /\ h.next = g.next + 1 /\ h.remaining = g.remaining
      /\ h.calls = g.calls /\ h.outcome = g.outcome /\ c = g.next
      /\ \A i : i \in Frames(h) <=> i \in Frames(g) \/ i = c
  BY DEF Opens
<1>3. id \in Frames(g) /\ c \notin Frames(g) /\ c \in Nat /\ c # ROOT /\ c > id /\ id # c
  BY OpensOld
<1>4. ~g.frames[id].cancelling /\ g.outcome = None
  BY <1>1, <1>3 DEF Room, Runs, Halted
<1>4a. /\ c \in Frames(h) /\ Fresh(h.frames[c], h.frames[c].parent)
       /\ h.frames[c].parent.frame = id
       /\ h.frames[c].parent.round = g.frames[id].round.attempt
       /\ g.frames[id].round.attempt # 0 /\ g.frames[id].round.attempt \in Nat
       /\ ~g.frames[id].round.failed
  BY OpensNew
<1>4b. /\ h.frames[c].generation = 0 /\ h.frames[c].children = {}
       /\ h.frames[c].round = NoRound /\ DOMAIN h.frames[c].calls = {}
       /\ h.frames[c].notification = "Waiting" /\ h.frames[c].cancelling = FALSE
       /\ Outcome(h.frames[c]) = None
  BY <1>4a DEF Fresh
<1>5. Core(h, p.budget)
  <2>1. Tree(h)
    <3>1. \A i \in Frames(h) : i < h.next
      <4>1. \A i \in Frames(g) : i \in Nat /\ i < g.next BY SoundTypes
      <4>2. c < g.next + 1 BY <1>2, <1>3
      <4>3. \A i \in Frames(g) : i < g.next + 1
        <5>1. g.next \in Nat BY <1>2, <1>3
        <5> QED BY <4>1, <5>1
      <4> QED BY <1>2, <4>2, <4>3
    <3>2. ASSUME NEW i \in Frames(h), NEW k \in h.frames[i].children
          PROVE  k \in Frames(h) /\ k # ROOT /\ h.frames[k].parent.frame = i
      <4>1. i # c BY <1>4a, <1>4b
      <4>2. i \in Frames(g) BY <1>2, <4>1
      <4>3. CASE k \in g.frames[i].children
        <5>1. k \in Frames(g) /\ k # ROOT /\ g.frames[k].parent.frame = i BY <1>1, <4>2, <4>3 DEF Tree
        <5> QED BY <5>1, OpensOld
      <4>4. CASE k \notin g.frames[i].children
        <5>1. i = id BY <4>2, <4>4, OpensOld
        <5>2. k = c BY <4>4, <5>1 DEF Opens
        <5> QED BY <5>1, <5>2, <1>4a, <1>4b, <1>3
      <4> QED BY <4>3, <4>4
    <3>3. ASSUME NEW i \in Frames(h) \ {ROOT}
          PROVE  LET q == h.frames[i].parent
                 IN q.frame \in Frames(h) /\ q.frame < i /\ i \in h.frames[q.frame].children /\ q.round >= 1
      <4>1. CASE i = c
        <5>1. c \in h.frames[id].children BY DEF Opens
        <5>2. h.frames[c].parent.frame = id /\ h.frames[c].parent.round >= 1 BY <1>4a, <1>4b
        <5>3. id < c BY <1>3, SoundTypes
        <5> QED BY <4>1, <5>1, <5>2, <5>3, <1>2, <1>3
      <4>2. CASE i # c
        <5>1. i \in Frames(g) BY <1>2, <4>2
        <5>2. PICK j \in Frames(g) : /\ j = g.frames[i].parent.frame /\ j < i
                                     /\ i \in g.frames[j].children /\ g.frames[i].parent.round >= 1
          BY <1>1, <5>1 DEF Tree
        <5>3. h.frames[i].parent = g.frames[i].parent /\ j \in Frames(h) BY <5>1, OpensOld
        <5>4. i \in h.frames[j].children
          <6>1. CASE j = id BY <6>1, <5>2 DEF Opens
          <6>2. CASE j # id BY <6>2, <5>2, OpensOld
          <6> QED BY <6>1, <6>2
        <5> QED BY <5>2, <5>3, <5>4
      <4> QED BY <4>1, <4>2
    <3>4. ROOT \in Frames(h) => h.frames[ROOT].parent = NoParent
      BY <1>1, <1>2, <1>3, OpensOld DEF Tree
    <3> QED BY <3>1, <3>2, <3>3, <3>4 DEF Tree
  <2>2. Queues(h) BY <1>1, <1>2 DEF Queues
  <2>3. Budget(h, p.budget)
    <3>1. ASSUME NEW i \in Frames(h)
          PROVE  /\ h.frames[i].generation + h.remaining <= p.budget
                 /\ DOMAIN h.frames[i].calls \subseteq 1..h.frames[i].generation
                 /\ h.frames[i].round.attempt <= h.frames[i].generation
      <4>1. CASE i \in Frames(g)
        <5>1. /\ g.frames[i].generation + g.remaining <= p.budget
              /\ DOMAIN g.frames[i].calls \subseteq 1..g.frames[i].generation
              /\ g.frames[i].round.attempt <= g.frames[i].generation
          BY <1>1, <4>1 DEF Budget
        <5>2. h.frames[i].generation = g.frames[i].generation /\ h.frames[i].calls = g.frames[i].calls
              /\ h.frames[i].round.attempt = g.frames[i].round.attempt
          BY <4>1, OpensOld
        <5> QED BY <1>2, <5>1, <5>2
      <4>2. CASE i = c
        <5>1. h.frames[c].generation = 0 /\ DOMAIN h.frames[c].calls = {} /\ h.frames[c].round = NoRound
          BY <1>4a, <1>4b
        <5>2. g.remaining \in Nat /\ g.remaining <= p.budget BY <1>1, SoundTypes DEF Accounted
        <5>3. NoRound.attempt = 0 BY DEF NoRound
        <5> QED BY <1>2, <4>2, <5>1, <5>2, <5>3
      <4> QED BY <1>2, <4>1, <4>2
    <3> QED BY <3>1 DEF Budget
  <2>4. Halted(h) BY <1>2, <1>4 DEF Halted
  <2> QED BY <1>2, <2>1, <2>2, <2>3, <2>4 DEF Core
<1>6. Expected(h)
  <2>1. ASSUME NEW i \in Frames(h) \ {ROOT}, Waits(h.frames[i])
        PROVE  LET n == h.frames[i].parent
               IN h.frames[n.frame].round.attempt = n.round /\ i \in h.frames[n.frame].round.running
    <3>1. CASE i = c
      <4>1. c \in h.frames[id].round.running
            /\ h.frames[id].round.attempt = g.frames[id].round.attempt BY DEF Opens
      <4> QED BY <3>1, <4>1, <1>4a, <1>4b
    <3>2. CASE i # c
      <4>1. i \in Frames(g) BY <1>2, <3>2
      <4>2. PICK j \in Frames(g) : j = g.frames[i].parent.frame BY <1>1, <4>1 DEF Tree
      <4>3. g.frames[j].round.attempt = g.frames[i].parent.round /\ i \in g.frames[j].round.running
        BY <1>1, <2>1, <4>1, <4>2, OpensOld DEF Expected
      <4>4. h.frames[j].round.attempt = g.frames[j].round.attempt BY OpensOld
      <4>5. i \in h.frames[j].round.running
        <5>1. CASE j = id BY <5>1, <4>3 DEF Opens
        <5>2. CASE j # id BY <5>2, <4>3, OpensOld
        <5> QED BY <5>1, <5>2
      <4>6. h.frames[i].parent = g.frames[i].parent BY <4>1, OpensOld
      <4> QED BY <4>2, <4>3, <4>4, <4>5, <4>6
    <3> QED BY <3>1, <3>2
  <2> QED BY <2>1 DEF Expected
<1>7. Joins(h)
  <2>1. ASSUME NEW i \in Frames(h)
        PROVE  LET v == h.frames[i]
               IN IF v.round.attempt = 0 THEN v.round = NoRound
                  ELSE /\ ~v.cancelling /\ v.phase.k = "Joining" /\ v.phase.outcome = None
                       /\ ~v.round.failed => Owed(h, i)
    <3>1. CASE i = c
      <4>1. h.frames[c].round = NoRound /\ NoRound.attempt = 0 BY <1>4b DEF NoRound
      <4> QED BY <3>1, <4>1
    <3>2. CASE i = id
      <4>1. g.frames[id].round.attempt # 0 BY <1>4a, <1>4b
      <4>2. /\ ~g.frames[id].cancelling /\ g.frames[id].phase.k = "Joining"
            /\ g.frames[id].phase.outcome = None BY <4>1, <1>1, <1>3 DEF Joins
      <4> QED BY <3>2, <4>1, <4>2, <1>3, OpensOld, OpensOwed
    <3>3. CASE i # c /\ i # id
      <4>0. i \in Frames(g) BY <1>2, <3>3
      <4>1. h.frames[i].round = g.frames[i].round /\ h.frames[i].phase = g.frames[i].phase
            /\ h.frames[i].cancelling = g.frames[i].cancelling BY <3>3, <4>0, OpensOld
      <4>2. CASE g.frames[i].round.attempt = 0 BY <4>0, <4>1, <4>2, <1>1 DEF Joins
      <4>3. CASE g.frames[i].round.attempt # 0
        <5>1. /\ ~g.frames[i].cancelling /\ g.frames[i].phase.k = "Joining"
              /\ g.frames[i].phase.outcome = None
              /\ ~g.frames[i].round.failed => Owed(g, i) BY <4>0, <4>3, <1>1 DEF Joins
        <5>2. ASSUME Owed(g, i) PROVE Owed(h, i)
          <6>1. PICK r : r = g.frames[i].round OBVIOUS
          <6>2. ASSUME NEW k \in r.running
                PROVE  /\ k \in Frames(h) /\ k # ROOT /\ Waits(h.frames[k])
                       /\ h.frames[k].parent.frame = i /\ h.frames[k].parent.round = r.attempt
                       /\ h.frames[k].parent.index \in 0..(r.next - 1) \ r.outputs
                       /\ h.frames[k].parent = g.frames[k].parent
            <7>1. /\ k \in Frames(g) /\ k # ROOT /\ Waits(g.frames[k])
                  /\ g.frames[k].parent.frame = i /\ g.frames[k].parent.round = r.attempt
                  /\ g.frames[k].parent.index \in 0..(r.next - 1) \ r.outputs
              BY <5>2, <6>1, <6>2 DEF Owed
            <7>2. k \in Frames(h) /\ Waits(h.frames[k]) /\ h.frames[k].parent = g.frames[k].parent
              BY <7>1, OpensOld
            <7> QED BY <7>1, <7>2
          <6>3. ASSUME NEW k \in r.running, NEW d \in r.running,
                       h.frames[k].parent.index = h.frames[d].parent.index
                PROVE  k = d
            BY <5>2, <6>1, <6>2, <6>3 DEF Owed
          <6>4. r.next <= r.count /\ r.outputs \subseteq 0..(r.next - 1) BY <5>2, <6>1 DEF Owed
          <6>5. h.frames[i].round = r BY <4>1, <6>1
          <6> QED BY <6>2, <6>3, <6>4, <6>5 DEF Owed
        <5> QED BY <4>1, <4>3, <5>1, <5>2
      <4> QED BY <4>2, <4>3
    <3> QED BY <3>1, <3>2, <3>3
  <2> QED BY <2>1 DEF Joins
<1>8. Settled(h)
  <2>1. ASSUME NEW i \in Frames(h), ~h.frames[i].cancelling
        PROVE  /\ Outcome(h.frames[i]) \in {None, "Succeeded", "Failed"}
               /\ Outcome(h.frames[i]) = None => h.frames[i].notification = "Waiting"
               /\ h.frames[i].notification # "Queued"
               /\ i = ROOT => Outcome(h.frames[i]) = None
    <3>1. CASE i = c BY <3>1, <1>4b DEF None
    <3>2. CASE i # c
      <4>1. i \in Frames(g) BY <1>2, <3>2
      <4> QED BY <4>1, <2>1, <1>1, OpensOld DEF Settled
    <3> QED BY <3>1, <3>2
  <2> QED BY <2>1 DEF Settled
<1>9. Unreported(h)
  <2>1. ASSUME NEW i \in Frames(h) \ {ROOT}
        PROVE  LET n == h.frames[i].parent
                   v == h.frames[n.frame]
               IN ~v.cancelling /\ h.frames[i].notification # "Emitted" =>
                     /\ v.round.attempt = n.round
                     /\ ~v.round.failed => ~h.frames[i].cancelling
    <3>1. CASE i = c
      <4>1. h.frames[id].round.attempt = g.frames[id].round.attempt BY <1>3, OpensOld
      <4> QED BY <3>1, <4>1, <1>4a, <1>4b
    <3>2. CASE i # c
      <4>0. i \in Frames(g) \ {ROOT} BY <1>2, <3>2
      <4>1. PICK j \in Frames(g) : j = g.frames[i].parent.frame BY <1>1, <4>0 DEF Tree
      <4>2. ~g.frames[j].cancelling /\ g.frames[i].notification # "Emitted" =>
               /\ g.frames[j].round.attempt = g.frames[i].parent.round
               /\ ~g.frames[j].round.failed => ~g.frames[i].cancelling
        BY <4>0, <4>1, <1>1 DEF Unreported
      <4>3. /\ h.frames[j].round.attempt = g.frames[j].round.attempt
            /\ h.frames[j].round.failed = g.frames[j].round.failed
            /\ h.frames[j].cancelling = g.frames[j].cancelling
        BY OpensOld
      <4>4. /\ h.frames[i].parent = g.frames[i].parent
            /\ h.frames[i].cancelling = g.frames[i].cancelling
            /\ h.frames[i].notification = g.frames[i].notification
        BY <4>0, OpensOld
      <4> QED BY <4>1, <4>2, <4>3, <4>4
    <3> QED BY <3>1, <3>2
  <2> QED BY <2>1 DEF Unreported
<1>10. Notified(h)
  <2>1. ASSUME NEW i \in Frames(h)
        PROVE  /\ h.frames[i].cancelling =>
                     Outcome(h.frames[i]) # None /\ (i # ROOT => h.frames[i].notification # "Waiting")
               /\ h.frames[i].notification # "Waiting" => i # ROOT /\ Outcome(h.frames[i]) # None
               /\ h.frames[i].notification = "Queued" <=>
                     i \in Frames(g) /\ g.frames[i].notification = "Queued"
    <3>1. CASE i = c BY <3>1, <1>3, <1>4a, <1>4b
    <3>2. CASE i # c
      <4>1. i \in Frames(g) BY <1>2, <3>2
      <4>2. Notified(g) BY <1>1
      <4>3. /\ h.frames[i].cancelling = g.frames[i].cancelling
            /\ h.frames[i].notification = g.frames[i].notification
            /\ Outcome(h.frames[i]) = Outcome(g.frames[i])
        BY <4>1, OpensOld
      <4> QED BY <4>1, <4>2, <4>3 DEF Notified
    <3> QED BY <3>1, <3>2
  <2>2. Range(h.pending) = {i \in Frames(h) : h.frames[i].notification = "Queued"}
    <3>1. Range(g.pending) = {i \in Frames(g) : g.frames[i].notification = "Queued"}
      BY <1>1 DEF Notified
    <3>2. \A i \in Frames(g) : i \in Frames(h) BY <1>2
    <3> QED BY <2>1, <3>1, <3>2, <1>2
  <2>3. ASSUME NEW m \in 1..Len(h.pending), NEW n \in 1..Len(h.pending), m <= n
        PROVE  h.frames[h.pending[n]].parent.frame # h.pending[m]
    <3>1. DOMAIN g.pending = 1..Len(g.pending) BY <1>1, FrameTypes
    <3>2. h.pending = g.pending BY <1>2
    <3>3. Notified(g) BY <1>1
    <3>4. g.pending[n] \in Frames(g) BY <2>3, <3>1, <3>2, <3>3 DEF Range, Notified
    <3>5. g.frames[g.pending[n]].parent.frame # g.pending[m] BY <2>3, <3>2, <3>3 DEF Notified
    <3>6. h.frames[h.pending[n]].parent = g.frames[h.pending[n]].parent BY <3>2, <3>4, OpensOld
    <3> QED BY <3>2, <3>5, <3>6
  <2> QED BY <2>1, <2>2, <2>3, <1>1, <1>2 DEF Notified
<1>11. Coherent(h, p.budget)
  BY <1>1, <1>2, <1>5, <1>6, <1>7, <1>8, <1>9, <1>10 DEF Coherent, Branches
<1>12. Nested(h)
  <2>1. ASSUME NEW i \in Frames(h) \ {ROOT}, h.frames[h.frames[i].parent.frame].notification = "Emitted"
        PROVE  h.frames[i].notification = "Emitted"
    <3>1. CASE i = c
      <4>1. h.frames[id].notification = "Waiting" BY <1>3, OpensOld DEF Room, Runs
      <4> QED BY <2>1, <3>1, <4>1, <1>4a, <1>4b
    <3>2. CASE i # c
      <4>0. i \in Frames(g) \ {ROOT} BY <1>2, <3>2
      <4>1. PICK j \in Frames(g) : j = g.frames[i].parent.frame BY <1>1, <4>0 DEF Tree
      <4>2. g.frames[j].notification = "Emitted"
        <5>1. h.frames[i].parent = g.frames[i].parent BY <4>0, OpensOld
        <5>2. h.frames[j].notification = g.frames[j].notification BY OpensOld
        <5> QED BY <2>1, <4>1, <5>1, <5>2
      <4>3. g.frames[i].notification = "Emitted" BY <1>1, <4>0, <4>1, <4>2 DEF Nested
      <4> QED BY <4>0, <4>3, OpensOld
    <3> QED BY <3>1, <3>2
  <2> QED BY <2>1 DEF Nested
<1>13. Books(h) = Books(g) BY OpensBooks
<1>14. IsFiniteSet(Frames(h)) /\ Cardinality(Frames(h)) <= p.frames
  <2>1. PICK A : A = Frames(g) OBVIOUS
  <2>2. PICK B : B = Frames(h) OBVIOUS
  <2>3. IsFiniteSet(A) /\ Cardinality(A) < p.frames BY <1>1, <2>1 DEF Accounted, Room
  <2>4. B = A \cup {c} BY <1>2, <2>1, <2>2, Zenon
  <2>5. IsFiniteSet(A \cup {c})
        /\ Cardinality(A \cup {c}) = IF c \in A THEN Cardinality(A) ELSE Cardinality(A) + 1
    BY <2>3, FS_AddElement, Zenon
  <2>6. IsFiniteSet(B) /\ (Cardinality(B) = Cardinality(A) \/ Cardinality(B) = Cardinality(A) + 1)
    BY <2>4, <2>5, Zenon
  <2>7. Cardinality(A) \in Nat /\ p.frames \in Nat BY <2>3, FS_CardinalityType, PlanTypes
  <2> HIDE <2>4
  <2> QED BY <2>2, <2>3, <2>6, <2>7
<1> QED BY <1>1, <1>2, <1>11, <1>12, <1>13, <1>14 DEF Sound, Accounted

LEMMA OpensFollows ==
    ASSUME NEW p \in Plans, NEW g, Sound(g, p), NEW id, Room(g, id, p), NEW h, NEW c,
           Opens(g, h, id, c), NEW u, u.k = "ChildStarted", u.child = c
    PROVE  Follows(g, h, u)
<1>1. Started(u) = {} /\ Reported(u) = {} /\ (\A i : i \in Opened(u) <=> i = c)
  BY DEF Started, Reported, Opened
<1>2. /\ h.next = g.next + 1 /\ h.remaining = g.remaining /\ h.outcome = g.outcome /\ c = g.next
      /\ \A i : i \in Frames(h) <=> i \in Frames(g) \/ i = c
  BY DEF Opens
<1>3. Frames(h) \subseteq Frames(g) \cup Opened(u) BY <1>1, <1>2
<1>4. Books(h) = Books(g) BY OpensBooks
<1>5. ASSUME NEW i \in Frames(g) PROVE Grows(g.frames[i], h.frames[i])
  <2>1. g.frames[i].generation \in Nat BY SoundTypes, RecordTypes
  <2>2. /\ h.frames[i].parent = g.frames[i].parent
        /\ h.frames[i].generation = g.frames[i].generation
        /\ h.frames[i].cancelling = g.frames[i].cancelling
        /\ h.frames[i].notification = g.frames[i].notification
    BY OpensOld
  <2> QED BY <2>1, <2>2 DEF Grows
<1>6. Closes(g, h) BY OpensOld DEF Closes
<1>7. \A i \in Opened(u) :
          /\ i = g.next /\ i \in Frames(h) /\ h.frames[i].notification = "Waiting"
          /\ h.frames[i].parent.frame \in Frames(g)
          /\ h.frames[h.frames[i].parent.frame].notification = "Waiting"
  <2>1. /\ c \in Frames(h) /\ Fresh(h.frames[c], h.frames[c].parent)
        /\ h.frames[c].parent.frame = id
    BY OpensNew
  <2>2. h.frames[c].notification = "Waiting" BY <2>1 DEF Fresh
  <2>3. id \in Frames(g) /\ g.frames[id].notification = "Waiting" BY DEF Room, Runs
  <2>4. h.frames[id].notification = "Waiting" BY <2>3, OpensOld
  <2> QED BY <1>1, <1>2, <2>1, <2>2, <2>3, <2>4
<1>8. \A i \in Frames(g) \ {ROOT} :
          i \notin Frames(h) \/ h.frames[i].notification = "Emitted" =>
              g.frames[i].notification = "Emitted" \/ i \in Reported(u)
  BY OpensOld
<1>9. Sticky(g, h) BY <1>2 DEF Sticky
<1>10. h.remaining <= g.remaining BY <1>2, SoundTypes
<1>11. \A i \in Frames(g) \cap Frames(h) : Grows(g.frames[i], h.frames[i]) BY <1>5
<1> QED BY <1>1, <1>2, <1>3, <1>4, <1>6, <1>7, <1>8, <1>9, <1>10, <1>11 DEF Follows

\* What a step may do says nothing of the queues.
LEMMA FollowsSame ==
    ASSUME NEW g, NEW h, NEW k, NEW u, Follows(g, h, u), k.frames = h.frames, k.next = h.next,
           k.remaining = h.remaining, k.outcome = h.outcome
    PROVE  Follows(g, k, u)
<1>1. Frames(k) = Frames(h) BY DEF Frames
<1>2. Books(k) = Books(h) BY <1>1, BooksSame
<1> QED BY <1>1, <1>2 DEF Follows, Sticky, Closes

LEMMA EnqueueFrames ==
    ASSUME NEW g \in Schedulers, NEW id, NEW front
    PROVE  LET k == enqueue(g, id, front)
           IN k.frames = g.frames /\ k.next = g.next /\ k.remaining = g.remaining /\ k.outcome = g.outcome
BY DEF enqueue, Schedulers

LEMMA AdmitIs ==
    ASSUME NEW p \in Plans, NEW g, Sound(g, p), NEW id, Room(g, id, p)
    PROVE  Fine(g, admit(g, id), p)
<1>1. PICK c : c = g.next OBVIOUS
<1>2. PICK h : h = OpenBranch(g, id, c, g.frames[id]) OBVIOUS
<1>3. Opens(g, h, id, c) BY <1>1, <1>2, OpensBranch
<1>4. PICK u : u = Update("ChildStarted", NoCall, c, 0, FALSE) OBVIOUS
<1>5. u.k = "ChildStarted" /\ u.child = c BY <1>4 DEF Update
<1>6. Sound(h, p) /\ Follows(g, h, u) BY <1>3, <1>5, OpensSound, OpensFollows
<1>7. c \in Nat /\ id \in Nat
  <2>1. id \in Frames(g) BY DEF Room, Runs
  <2> QED BY <1>1, <2>1, SoundTypes
<1>8. PICK k : k = enqueue(h, id, FALSE) OBVIOUS
<1>9. Sound(k, p) BY <1>6, <1>7, <1>8, EnqueueCalm DEF Calm
<1>10. k.frames = h.frames /\ k.next = h.next /\ k.remaining = h.remaining /\ k.outcome = h.outcome
  BY <1>6, <1>8, SoundTypes, EnqueueFrames
<1>11. PICK m : m = enqueue(k, c, TRUE) OBVIOUS
<1>12. Sound(m, p) BY <1>7, <1>9, <1>11, EnqueueCalm DEF Calm
<1>13. m.frames = k.frames /\ m.next = k.next /\ m.remaining = k.remaining /\ m.outcome = k.outcome
  BY <1>9, <1>11, SoundTypes, EnqueueFrames
<1>14. Follows(g, m, u)
  <2>1. m.frames = h.frames /\ m.next = h.next /\ m.remaining = h.remaining /\ m.outcome = h.outcome
    BY <1>10, <1>13
  <2> QED BY <1>6, <2>1, FollowsSame
<1>15. admit(g, id) = [g |-> m, update |-> u] BY <1>1, <1>2, <1>4, <1>8, <1>11 DEF admit
<1> QED BY <1>12, <1>14, <1>15 DEF Fine

-----------------------------------------------------------------------------
(* advance: what is due, else the first ready frame that acts, else rest.   *)

\* A branch is opened, or cannot be and fails its round.
LEMMA BranchIs ==
    ASSUME NEW p \in Plans, NEW g, Sound(g, p), NEW id, Room(g, id, p), NEW x
    PROVE  \A r \in Branch(g, id, x) : Fine(g, r, p)
<1>1. Fine(g, admit(g, id), p) BY AdmitIs
<1>2. PICK r : r = [g |-> fail_round(g, id), update |-> Plain("Yield")] OBVIOUS
<1>3. Fine(g, r, p)
  <2>1. Calm(g, fail_round(g, id), p) BY FailedCalm DEF Room, Runs
  <2>2. PICK u : u = Plain("Yield") OBVIOUS
  <2>3. u.k = "Yield" BY <2>2 DEF Plain, Update
  <2>4. Follows(g, fail_round(g, id), u) BY <2>1, <2>3, CalmFollows DEF Uneventful
  <2> QED BY <1>2, <2>1, <2>2, <2>4 DEF Fine, Calm
<1>4. \A s \in Branch(g, id, x) : s = admit(g, id) \/ s = r BY <1>2 DEF Branch
<1> QED BY <1>1, <1>3, <1>4

\* A frame that acts tells its parent, moves, joins its round or opens a branch.
LEMMA ActOnIs ==
    ASSUME NEW p \in Plans, NEW g, Sound(g, p), NEW x, Sees(x, p), g.ready # <<>>, Acts(g, x)
    PROVE  \A r \in ActOn(g, x) : Fine(g, r, p)
<1>1. PICK h : h = Pop(g) OBVIOUS
<1>2. PICK id : id = Head(g.ready) OBVIOUS
<1>3. Calm(g, h, p) /\ h.frames = g.frames /\ h.remaining = g.remaining BY <1>1, PopIs
<1>4. Sound(h, p) BY <1>3 DEF Calm
<1>5. Frames(h) = Frames(g) BY <1>3 DEF Frames
<1>6. PICK f \in FrameRecords : f = g.frames[id] /\ id \in Frames(g)
  BY <1>2, SoundTypes DEF Acts, Has
<1>7. /\ ~f.cancelling
      /\ \/ Outcome(f) # None /\ f.notification = "Waiting"
         \/ IF f.round # NoRound THEN RoundVerdict(g, id, x) \in {"join", "admit"}
            ELSE f.phase.k = "Ready" \/ Timed(f)
  BY <1>2, <1>6, Zenon DEF Acts
<1>8. id \in Frames(h) /\ h.frames[id] = f BY <1>3, <1>5, <1>6
<1>9. f.round \in Rounds /\ f.phase \in Phases BY RecordTypes
<1>10. CASE Outcome(f) # None
  <2>1. f.phase.k = "Terminal" BY <1>9, <1>10 DEF Phases, Outcome
  <2>2. f.round = NoRound
    <3>1. Joins(g) BY SoundTypes DEF Branches
    <3> QED BY <1>6, <1>10, <3>1 DEF Joins, Outcome
  <2>3. f.notification = "Waiting" BY <1>7, <2>1, <2>2 DEF Timed
  <2>4. Tells(h, id) BY <1>7, <1>8, <1>10, <2>3 DEF Tells
  <2>5. ActOn(g, x) = finished(h, id, x) BY <1>1, <1>2, <1>8, <1>10 DEF ActOn, ActOnEntry
  <2>6. \A r \in finished(h, id, x) : Fine(h, r, p) BY <1>4, <2>4, FinishedIs
  <2> QED BY <1>3, <2>5, <2>6, FineBefore
<1>11. CASE Outcome(f) = None /\ f.round = NoRound
  <2>1. Runs(h, id) BY <1>4, <1>7, <1>8, <1>11, RunsIs
  <2>2. ActOn(g, x) = {perform(h, id, s) : s \in driver_advance(f, x, h.remaining)}
    BY <1>1, <1>2, <1>8, <1>11 DEF ActOn, ActOnEntry
  <2>3. h.remaining \in Nat BY <1>4, SoundTypes
  <2>4. \A s \in driver_advance(f, x, h.remaining) : Steps(s, f.generation, h.remaining)
    BY <1>11, <2>3, DriverAdvanceIs
  <2>5. \A s \in driver_advance(f, x, h.remaining) : Fine(h, perform(h, id, s), p)
    BY <1>4, <1>8, <1>11, <2>1, <2>4, PerformIs
  <2> QED BY <1>3, <2>2, <2>5, FineBefore
<1>12. CASE Outcome(f) = None /\ f.round # NoRound
  <2>1. Runs(h, id) BY <1>4, <1>7, <1>8, <1>12, RunsIs
  <2>2. RoundVerdict(g, id, x) \in {"join", "admit"} BY <1>7, <1>12
  <2>3. RoundVerdict(h, id, x) = RoundVerdict(g, id, x)
    BY <1>3, <1>5 DEF RoundVerdict, RoundChildren, Has, Acquire
  <2>4. CASE RoundVerdict(h, id, x) = "join"
    <3>1. Joined(h, id)
      <4>1. PICK r : r = h.frames[id].round OBVIOUS
      <4>2. /\ ~(r.failed /\ RoundChildren(h, id) # {})
            /\ r.failed \/ Cardinality(r.outputs) = r.count
        BY <2>4, <4>1 DEF RoundVerdict
      <4> QED BY <4>1, <4>2 DEF Joined
    <3>2. \A r \in join_round(h, id, x) : Fine(h, r, p)
      BY <1>4, <1>8, <1>12, <2>1, <3>1, JoinRoundIs
    <3>3. ActOn(g, x) = join_round(h, id, x)
      BY <1>1, <1>2, <1>8, <1>12, <2>4 DEF ActOn, ActOnEntry
    <3> QED BY <1>3, <3>2, <3>3, FineBefore
  <2>5. CASE RoundVerdict(h, id, x) = "admit"
    <3>1. PICK r \in Rounds : r = h.frames[id].round BY <1>8, <1>9
    <3>2. /\ ~r.failed /\ ~(r.next >= r.count) /\ Acquire(h, x) = "ok"
      BY <2>5, <3>1 DEF RoundVerdict
    <3>3. r.next < r.count BY <3>2 DEF Rounds
    <3>4. Cardinality(Frames(h)) < p.frames
      <4>1. ~(Cardinality(Frames(h)) >= p.frames) BY <3>2 DEF Acquire, Sees
      <4>2. Cardinality(Frames(h)) \in Nat /\ p.frames \in Nat
        BY <1>4, FS_CardinalityType, PlanTypes DEF Sound, Accounted
      <4> QED BY <4>1, <4>2
    <3>5. Room(h, id, p) BY <1>8, <1>12, <2>1, <3>1, <3>2, <3>3, <3>4 DEF Room
    <3>6. \A s \in Branch(h, id, x) : Fine(h, s, p) BY <1>4, <3>5, BranchIs
    <3>7. ActOn(g, x) = Branch(h, id, x)
      BY <1>1, <1>2, <1>8, <1>12, <2>5 DEF ActOn, ActOnEntry
    <3> QED BY <1>3, <3>6, <3>7, FineBefore
  <2> QED BY <2>2, <2>3, <2>4, <2>5
<1> QED BY <1>10, <1>11, <1>12

LEMMA RestIs ==
    ASSUME NEW p \in Plans, NEW g, Sound(g, p), NEW x
    PROVE  Fine(g, Rest(g, x), p)
<1>1. PICK progress : progress = (g.calls > 0 \/ \E i \in Frames(g) : Timed(g.frames[i])) OBVIOUS
<1>2. PICK until : until = Min({x.plan.deadline} \cup {g.frames[i].phase.until :
                                        i \in {j \in Frames(g) : Timed(g.frames[j])}}) OBVIOUS
<1>3. PICK global : global = (\E i \in DOMAIN g.blocked : g.blocked[i] = "Global") OBVIOUS
<1>4. PICK park : park = Update("Park", NoCall, -1, until, global) OBVIOUS
<1>5. Rest(g, x) = IF g.ready # <<>> THEN [g |-> g, update |-> Plain("Yield")]
                   ELSE IF g.blocked # Empty /\ ~progress THEN terminal_update(safety(g))
                   ELSE [g |-> g, update |-> park]
  BY <1>1, <1>2, <1>3, <1>4, Zenon DEF Rest
<1>6. PICK yield : yield = Plain("Yield") OBVIOUS
<1>7. yield.k = "Yield" /\ park.k = "Park" BY <1>4, <1>6 DEF Plain, Update
<1>8. Calm(g, g, p) BY CalmRefl
<1>9. Follows(g, g, yield) /\ Follows(g, g, park) BY <1>7, <1>8, CalmFollows DEF Uneventful
<1>10. Fine(g, [g |-> g, update |-> yield], p) /\ Fine(g, [g |-> g, update |-> park], p)
  BY <1>9 DEF Fine
<1> QED BY <1>5, <1>6, <1>10, UnsafeIs

LEMMA TurnIs ==
    ASSUME NEW p \in Plans, NEW g, Sound(g, p), NEW x, Sees(x, p)
    PROVE  \A r \in ScanReady(g, x) : Fine(g, r, p)
<1>1. CASE g.ready # <<>> /\ Acts(g, x) BY <1>1, ActOnIs DEF ScanReady
<1>2. CASE ~(g.ready # <<>> /\ Acts(g, x))
  <2>1. PICK h : h = IF g.ready = <<>> THEN g ELSE Skip(g, x) OBVIOUS
  <2>2. Calm(g, h, p) BY <2>1, CalmRefl, SkipIs
  <2>3. Fine(h, Rest(h, x), p) BY <2>2, RestIs DEF Calm
  <2>4. ScanReady(g, x) = {Rest(h, x)} BY <1>2, <2>1, Zenon DEF ScanReady
  <2> QED BY <2>2, <2>3, <2>4, FineBefore
<1> QED BY <1>1, <1>2

\* advance keeps a scheduler sound, whatever the interpreters decide.
LEMMA AdvanceIs ==
    ASSUME NEW p \in Plans, NEW g, Sound(g, p), NEW x, Sees(x, p)
    PROVE  \A r \in advance(g, x) : Fine(g, r, p)
<1>1. PICK h : h = observe(g, x) OBVIOUS
<1>2. Calm(g, h, p) BY <1>1, SafetyIs
<1>3. Sound(h, p) BY <1>2 DEF Calm
<1>4. PICK u : u = Plain("None") OBVIOUS
<1>5. u.k = "None" BY <1>4 DEF Plain, Update
<1>6. PICK first : first = Obligations(h, u) OBVIOUS
<1>7. Fine(h, first, p) /\ (first.update.k = "None" => Calm(h, first.g, p))
  BY <1>3, <1>5, <1>6, ObligationsIs DEF Uneventful
<1>8. Fine(g, first, p) /\ (first.update.k = "None" => Calm(g, first.g, p))
  BY <1>2, <1>7, FineBefore, CalmTrans
<1>9. advance(g, x) = Turn(first, x) BY <1>1, <1>4, <1>6 DEF advance
<1>10. CASE first.update.k # "None" BY <1>8, <1>9, <1>10 DEF Turn
<1>11. CASE first.update.k = "None" /\ first.g.outcome # None
  <2>1. Calm(g, first.g, p) /\ Sound(first.g, p) BY <1>8, <1>11 DEF Calm
  <2>2. Fine(first.g, terminal_update(first.g), p) BY <2>1, TerminalUpdateIs
  <2> QED BY <1>9, <1>11, <2>1, <2>2, FineBefore DEF Turn
<1>12. CASE first.update.k = "None" /\ first.g.outcome = None
  <2>1. Calm(g, first.g, p) /\ Sound(first.g, p) BY <1>8, <1>12 DEF Calm
  <2>2. PICK w : w = WakeDue(first.g, x) OBVIOUS
  <2>3. Calm(g, w, p) BY <2>1, <2>2, WakeDueIs, CalmTrans
  <2>4. ScanLimit - 1 \in Nat BY SchedulerAssumption
  <2>5. PICK s : s = SkipIdle(w, x, ScanLimit - 1) OBVIOUS
  <2>6. Calm(g, s, p)
    <3>1. Calm(w, s, p) BY <2>3, <2>4, <2>5, SkipIdleCalm DEF Calm
    <3> QED BY <2>3, <3>1, CalmTrans
  <2>7. \A r \in ScanReady(s, x) : Fine(s, r, p) BY <2>6, TurnIs DEF Calm
  <2>8. advance(g, x) = ScanReady(s, x) BY <1>9, <1>12, <2>2, <2>5 DEF Turn
  <2> QED BY <2>6, <2>7, <2>8, FineBefore
<1> QED BY <1>10, <1>11, <1>12

-----------------------------------------------------------------------------
(* complete: the result of a call reaches the frame that waits for it.      *)

LEMMA DeliverIs ==
    ASSUME NEW p \in Plans, NEW g, Sound(g, p), NEW x, Sees(x, p), NEW call \in CallIds, NEW ok
    PROVE  \A r \in Deliver(g, call, ok, x) : Fine(g, r, p)
<1>1. CASE ~Awaited(g, call)
  <2>1. PICK u : u = Plain("None") OBVIOUS
  <2>2. u.k = "None" BY <2>1 DEF Plain, Update
  <2>3. Follows(g, g, u) BY <2>2, CalmRefl, CalmFollows DEF Uneventful
  <2>4. Deliver(g, call, ok, x) = {[g |-> g, update |-> u]} BY <1>1, <2>1 DEF Deliver
  <2> QED BY <2>3, <2>4 DEF Fine
<1>2. CASE Awaited(g, call)
  <2>1. PICK id : id = call.frame OBVIOUS
  <2>2. /\ id \in Frames(g) /\ ~g.frames[id].cancelling /\ g.frames[id].phase.k = "Calling"
    BY <1>2, <2>1 DEF Awaited, Has, Calling
  <2>3. PICK f \in FrameRecords : f = g.frames[id] BY <2>2, SoundTypes
  <2>4. f.phase \in Phases BY RecordTypes
  <2>5. Outcome(f) = None BY <2>2, <2>3, <2>4 DEF Phases, Outcome
  <2>6. f.round = NoRound
    <3>1. Joins(g) BY SoundTypes DEF Branches
    <3> QED BY <2>2, <2>3, <3>1 DEF Joins
  <2>7. PICK c : c = cancel(g, call) OBVIOUS
  <2>8. Tidies(g, c) /\ Silent(g, c) BY <2>7, SoundTypes, CancelIs
  <2>9. Calm(g, c, p) /\ Sound(c, p) BY <2>8, SilentCalm DEF Calm
  <2>10. Frames(c) = Frames(g) BY <2>7, SoundTypes, CancelKeepsFrames
  <2>11. Alike(f, c.frames[id]) BY <2>2, <2>3, <2>8, <2>10 DEF Tidies
  <2>12. /\ c.frames[id].round = NoRound /\ Outcome(c.frames[id]) = None
         /\ ~c.frames[id].cancelling /\ c.frames[id].generation = f.generation
         /\ c.remaining = g.remaining
    BY <2>2, <2>3, <2>5, <2>6, <2>8, <2>11 DEF Alike, Outcome, Tidies
  <2>13. Runs(c, id) BY <2>2, <2>9, <2>10, <2>12, RunsIs
  <2>14. g.remaining \in Nat BY SoundTypes
  <2>15. \A s \in driver_complete(f, ok, x, g.remaining) : Steps(s, f.generation, g.remaining)
    BY <2>5, <2>14, DriverCompleteIs
  <2>16. \A s \in driver_complete(f, ok, x, g.remaining) : Fine(c, perform(c, id, s), p)
    BY <2>9, <2>12, <2>13, <2>15, PerformIs
  <2>17. Deliver(g, call, ok, x) = {perform(c, id, s) : s \in driver_complete(f, ok, x, g.remaining)}
    BY <1>2, <2>1, <2>3, <2>7 DEF Deliver
  <2> QED BY <2>9, <2>16, <2>17, FineBefore
<1> QED BY <1>1, <1>2

\* complete keeps a scheduler sound, whatever came back.
LEMMA CompleteIs ==
    ASSUME NEW p \in Plans, NEW g, Sound(g, p), NEW x, Sees(x, p), NEW call \in CallIds, NEW ok
    PROVE  \A r \in complete(g, call, ok, x) : Fine(g, r, p)
<1>1. PICK h : h = observe(g, x) OBVIOUS
<1>2. Calm(g, h, p) BY <1>1, SafetyIs
<1>3. \A r \in Deliver(h, call, ok, x) : Fine(h, r, p) BY <1>2, DeliverIs DEF Calm
<1> QED BY <1>1, <1>2, <1>3, FineBefore DEF complete

-----------------------------------------------------------------------------
(* retired: a call leaves the books.                                        *)

\* what a frame keeps when calls of it leave the books
Kept(e, f) ==
    /\ f.parent = e.parent /\ f.generation = e.generation
    /\ e.cancelling => f.cancelling
    /\ ~f.cancelling => /\ f.round.attempt = e.round.attempt
                        /\ e.round.failed => f.round.failed
    /\ e.notification = "Emitted" => f.notification = "Emitted"

\* the calls in S leave the books
Loses(g, h, S) ==
    /\ h.next = g.next /\ h.remaining = g.remaining
    /\ g.outcome # None => h.outcome # None
    /\ Frames(h) \subseteq Frames(g) /\ Books(h) = Books(g) \ S
    /\ \A i \in Frames(h) : Kept(g.frames[i], h.frames[i])
    /\ Quiet(g, h)

LEMMA LosesTrans ==
    ASSUME NEW g, NEW h, NEW k, NEW S, NEW T, Loses(g, h, S), Loses(h, k, T)
    PROVE  Loses(g, k, S \cup T)
<1>1. Frames(k) \subseteq Frames(h) /\ Frames(h) \subseteq Frames(g) BY DEF Loses
<1>2. \A i \in Frames(k) : Kept(g.frames[i], k.frames[i])
  <2>1. ASSUME NEW i \in Frames(k) PROVE Kept(g.frames[i], k.frames[i])
    <3>1. Kept(g.frames[i], h.frames[i]) /\ Kept(h.frames[i], k.frames[i]) BY <1>1 DEF Loses
    <3> QED BY <3>1 DEF Kept
  <2> QED BY <2>1
<1>3. Quiet(g, k) BY <1>1, QuietTrans DEF Loses
<1>4. Books(k) = Books(g) \ (S \cup T)
  <2>1. Books(k) = Books(h) \ T /\ Books(h) = Books(g) \ S BY DEF Loses
  <2> QED BY <2>1
<1> QED BY <1>1, <1>2, <1>3, <1>4 DEF Loses

LEMMA SteadyLoses ==
    ASSUME NEW g, NEW h, Steady(g, h), g.outcome # None => h.outcome # None
    PROVE  Loses(g, h, {})
<1>1. \A i \in Frames(h) : Kept(g.frames[i], h.frames[i]) BY DEF Steady, Elder, Kept
<1> QED BY <1>1 DEF Loses, Steady

\* k is g but that frames may have fewer calls
Unbilled(g, k) ==
    /\ k \in Schedulers /\ Frames(k) = Frames(g)
    /\ \A i \in Frames(g) :
          /\ k.frames[i].parent = g.frames[i].parent /\ k.frames[i].children = g.frames[i].children
          /\ k.frames[i].phase = g.frames[i].phase /\ k.frames[i].round = g.frames[i].round
          /\ k.frames[i].generation = g.frames[i].generation
          /\ k.frames[i].cancelling = g.frames[i].cancelling
          /\ k.frames[i].notification = g.frames[i].notification
          /\ DOMAIN k.frames[i].calls \subseteq DOMAIN g.frames[i].calls
    /\ k.queued = g.queued /\ k.blocked = g.blocked /\ k.pending = g.pending
    /\ k.next = g.next /\ k.remaining = g.remaining /\ k.outcome = g.outcome

LEMMA UnbilledSound ==
    ASSUME NEW p \in Plans, NEW g, Sound(g, p), NEW k, Unbilled(g, k)
    PROVE  Coherent(k, p.budget) /\ Nested(k)
<1>1. /\ g \in Schedulers /\ Core(g, p.budget) /\ Tree(g) /\ Queues(g) /\ Budget(g, p.budget)
      /\ Halted(g) /\ Branches(g) /\ Expected(g) /\ Joins(g) /\ Settled(g) /\ Unreported(g)
      /\ Notified(g) /\ g.outcome # "Internal" /\ Nested(g)
  BY SoundTypes DEF Core, Branches, Coherent, Sound
<1>2. /\ k \in Schedulers /\ Frames(k) = Frames(g)
      /\ k.queued = g.queued /\ k.blocked = g.blocked /\ k.pending = g.pending
      /\ k.next = g.next /\ k.remaining = g.remaining /\ k.outcome = g.outcome
  BY DEF Unbilled
<1>3. \A i \in Frames(g) :
          /\ k.frames[i].parent = g.frames[i].parent /\ k.frames[i].children = g.frames[i].children
          /\ k.frames[i].phase = g.frames[i].phase /\ k.frames[i].round = g.frames[i].round
          /\ k.frames[i].generation = g.frames[i].generation
          /\ k.frames[i].cancelling = g.frames[i].cancelling
          /\ k.frames[i].notification = g.frames[i].notification
          /\ DOMAIN k.frames[i].calls \subseteq DOMAIN g.frames[i].calls
          /\ Outcome(k.frames[i]) = Outcome(g.frames[i])
          /\ Waits(k.frames[i]) <=> Waits(g.frames[i])
  BY DEF Unbilled, Outcome, Waits
<1>4. \A i \in Frames(g) \ {ROOT} : g.frames[i].parent.frame \in Frames(g) BY <1>1 DEF Tree
<1>5. Core(k, p.budget)
  <2>1. Tree(k) BY <1>1, <1>2, <1>3, TreeSame
  <2>2. Queues(k) BY <1>1, <1>2 DEF Queues
  <2>3. Budget(k, p.budget)
    <3>1. ASSUME NEW i \in Frames(g)
          PROVE  /\ k.frames[i].generation + k.remaining <= p.budget
                 /\ DOMAIN k.frames[i].calls \subseteq 1..k.frames[i].generation
                 /\ k.frames[i].round.attempt <= k.frames[i].generation
      <4>1. /\ g.frames[i].generation + g.remaining <= p.budget
            /\ DOMAIN g.frames[i].calls \subseteq 1..g.frames[i].generation
            /\ g.frames[i].round.attempt <= g.frames[i].generation
        BY <1>1 DEF Budget
      <4> QED BY <1>2, <1>3, <4>1
    <3> QED BY <1>2, <3>1 DEF Budget
  <2>4. Halted(k) BY <1>1, <1>2, <1>3 DEF Halted
  <2> QED BY <1>2, <2>1, <2>2, <2>3, <2>4 DEF Core
<1>6. Expected(k)
  <2>1. ASSUME NEW i \in Frames(g) \ {ROOT}, Waits(k.frames[i])
        PROVE  LET q == k.frames[i].parent
               IN k.frames[q.frame].round.attempt = q.round /\ i \in k.frames[q.frame].round.running
    <3>1. PICK j \in Frames(g) : j = g.frames[i].parent.frame BY <1>4
    <3>2. Waits(g.frames[i]) BY <1>3, <2>1
    <3>3. g.frames[j].round.attempt = g.frames[i].parent.round /\ i \in g.frames[j].round.running
      BY <3>1, <3>2, <1>1 DEF Expected
    <3> QED BY <3>1, <3>3, <1>3
  <2> QED BY <1>2, <2>1 DEF Expected
<1>7. Joins(k)
  <2>1. ASSUME NEW i \in Frames(g), Owed(g, i) PROVE Owed(k, i)
    <3>1. \A c \in g.frames[i].round.running :
             Waits(k.frames[c]) /\ k.frames[c].parent = g.frames[c].parent
      BY <1>3, <2>1 DEF Owed
    <3> QED BY <1>2, <1>3, <2>1, <3>1, OwedSame
  <2> QED BY <1>1, <1>2, <1>3, <2>1 DEF Joins
<1>8. Settled(k)
  <2>1. ASSUME NEW i \in Frames(g), ~k.frames[i].cancelling
        PROVE  /\ Outcome(k.frames[i]) \in {None, "Succeeded", "Failed"}
               /\ Outcome(k.frames[i]) = None => k.frames[i].notification = "Waiting"
               /\ k.frames[i].notification # "Queued"
               /\ i = ROOT => Outcome(k.frames[i]) = None
    <3>1. /\ k.frames[i].cancelling = g.frames[i].cancelling
          /\ k.frames[i].notification = g.frames[i].notification
          /\ Outcome(k.frames[i]) = Outcome(g.frames[i])
      BY <1>3
    <3>2. Settled(g) BY <1>1
    <3> QED BY <2>1, <3>1, <3>2 DEF Settled
  <2> QED BY <1>2, <2>1 DEF Settled
<1>9. Unreported(k)
  <2>1. ASSUME NEW i \in Frames(g) \ {ROOT}
        PROVE  LET q == k.frames[i].parent
                   f == k.frames[q.frame]
               IN ~f.cancelling /\ k.frames[i].notification # "Emitted" =>
                     /\ f.round.attempt = q.round
                     /\ ~f.round.failed => ~k.frames[i].cancelling
    <3>1. PICK j \in Frames(g) : j = g.frames[i].parent.frame BY <1>4
    <3>2. ~g.frames[j].cancelling /\ g.frames[i].notification # "Emitted" =>
               /\ g.frames[j].round.attempt = g.frames[i].parent.round
               /\ ~g.frames[j].round.failed => ~g.frames[i].cancelling
      BY <3>1, <1>1 DEF Unreported
    <3> QED BY <3>1, <3>2, <1>3
  <2> QED BY <2>1, <1>2 DEF Unreported
<1>10. Notified(k)
  <2>1. ASSUME NEW i \in Frames(g)
        PROVE  /\ k.frames[i].cancelling =>
                     Outcome(k.frames[i]) # None /\ (i # ROOT => k.frames[i].notification # "Waiting")
               /\ k.frames[i].notification # "Waiting" => i # ROOT /\ Outcome(k.frames[i]) # None
    <3>1. /\ k.frames[i].cancelling = g.frames[i].cancelling
          /\ k.frames[i].notification = g.frames[i].notification
          /\ Outcome(k.frames[i]) = Outcome(g.frames[i])
      BY <1>3
    <3>2. Notified(g) BY <1>1
    <3> QED BY <3>1, <3>2 DEF Notified
  <2>2. Range(k.pending) = {i \in Frames(k) : k.frames[i].notification = "Queued"}
    <3>1. Range(g.pending) = {i \in Frames(g) : g.frames[i].notification = "Queued"}
      BY <1>1 DEF Notified
    <3> QED BY <1>2, <1>3, <3>1
  <2>3. ASSUME NEW m \in 1..Len(k.pending), NEW n \in 1..Len(k.pending), m <= n
        PROVE  k.frames[k.pending[n]].parent.frame # k.pending[m]
    <3>1. DOMAIN g.pending = 1..Len(g.pending) BY <1>1, FrameTypes
    <3>2. g.pending[n] \in Frames(g) BY <1>1, <1>2, <2>3, <3>1 DEF Range, Notified
    <3>3. g.frames[g.pending[n]].parent.frame # g.pending[m] BY <1>1, <1>2, <2>3 DEF Notified
    <3> QED BY <1>2, <1>3, <3>2, <3>3
  <2> QED BY <1>1, <1>2, <2>1, <2>2, <2>3 DEF Notified
<1>11. Nested(k) BY <1>1, <1>2, <1>3, <1>4 DEF Nested
<1> QED BY <1>1, <1>2, <1>5, <1>6, <1>7, <1>8, <1>9, <1>10, <1>11 DEF Coherent, Branches

LEMMA DropIs ==
    ASSUME NEW R, NEW f, f \in Partial(Nat, R), NEW S
    PROVE  Drop(f, S) \in Partial(Nat, R) /\ DOMAIN Drop(f, S) = DOMAIN f \ S
<1>1. DOMAIN f \subseteq Nat /\ f \in [DOMAIN f -> R] BY PartialFn
<1>2. Drop(f, S) = [y \in DOMAIN f \ S |-> f[y]] BY DEF Drop, Restrict
<1>3. DOMAIN Drop(f, S) \subseteq Nat /\ Drop(f, S) \in [DOMAIN Drop(f, S) -> R]
      /\ DOMAIN Drop(f, S) = DOMAIN f \ S
  BY <1>1, <1>2
<1> QED BY <1>3, PartialFn

LEMMA UnchargeIs ==
    ASSUME NEW p \in Plans, NEW g, Sound(g, p), NEW call \in CallIds, call.frame \in Frames(g),
           call.attempt \in DOMAIN g.frames[call.frame].calls
    PROVE  LET k == Uncharge(g, call)
           IN /\ Unbilled(g, k) /\ Books(k) = Books(g) \ {call} /\ k.calls = g.calls - 1
              /\ call \in Books(g)
<1>1. PICK id : id = call.frame OBVIOUS
<1>2. PICK a : a = call.attempt OBVIOUS
<1>3. PICK f \in FrameRecords : f = g.frames[id] /\ id \in Frames(g) BY <1>1, SoundTypes
<1>4. PICK c : c = Drop(f.calls, {a}) OBVIOUS
<1>5. c \in Partial(Nat, CallStates) /\ DOMAIN c = DOMAIN f.calls \ {a}
  <2>1. PICK R : R = CallStates OBVIOUS
  <2>2. f.calls \in Partial(Nat, R) BY <2>1, RecordTypes
  <2> QED BY <1>4, <2>1, <2>2, DropIs
<1>6. PICK e : e = [f EXCEPT !.calls = c] OBVIOUS
<1>7. /\ e \in FrameRecords /\ e.parent = f.parent /\ e.children = f.children
      /\ e.phase = f.phase /\ e.round = f.round /\ e.generation = f.generation
      /\ e.cancelling = f.cancelling /\ e.notification = f.notification /\ e.calls = c
  BY <1>5, <1>6 DEF FrameRecords
<1>8. PICK F : F = [g.frames EXCEPT ![id] = e] OBVIOUS
<1>9. /\ F \in Partial(Nat, FrameRecords) /\ DOMAIN F = Frames(g)
      /\ F[id] = e /\ \A j \in Frames(g) \ {id} : F[j] = g.frames[j]
  BY <1>3, <1>7, <1>8, SoundTypes, FrameSet
<1>10. g \in Schedulers BY SoundTypes
<1>11. PICK n \in Int : n = g.calls - 1 BY <1>10, FrameTypes
<1>12. PICK k : k = [g EXCEPT !.frames = F, !.calls = n] OBVIOUS
<1>13. Uncharge(g, call) = k
  BY <1>1, <1>2, <1>3, <1>4, <1>6, <1>8, <1>10, <1>11, <1>12 DEF Uncharge, Schedulers, FrameRecords
<1>14. /\ k \in Schedulers /\ k.frames = F /\ k.calls = n
       /\ k.queued = g.queued /\ k.blocked = g.blocked /\ k.pending = g.pending
       /\ k.next = g.next /\ k.remaining = g.remaining /\ k.outcome = g.outcome
  BY <1>9, <1>10, <1>12 DEF Schedulers
<1>15. Frames(k) = Frames(g) BY <1>9, <1>14 DEF Frames
<1>16. ASSUME NEW i \in Frames(g)
       PROVE  /\ k.frames[i].parent = g.frames[i].parent /\ k.frames[i].children = g.frames[i].children
              /\ k.frames[i].phase = g.frames[i].phase /\ k.frames[i].round = g.frames[i].round
              /\ k.frames[i].generation = g.frames[i].generation
              /\ k.frames[i].cancelling = g.frames[i].cancelling
              /\ k.frames[i].notification = g.frames[i].notification
              /\ DOMAIN k.frames[i].calls \subseteq DOMAIN g.frames[i].calls
              /\ \A b : b \in DOMAIN k.frames[i].calls <=>
                           b \in DOMAIN g.frames[i].calls /\ ~(i = id /\ b = a)
  <2>1. CASE i = id BY <2>1, <1>3, <1>5, <1>7, <1>9, <1>14
  <2>2. CASE i # id
    <3>1. k.frames[i] = g.frames[i] BY <2>2, <1>9, <1>14
    <3> QED BY <2>2, <3>1
  <2> QED BY <2>1, <2>2
<1>17. Unbilled(g, k) BY <1>14, <1>15, <1>16 DEF Unbilled
<1>18. call = [frame |-> id, attempt |-> a] BY <1>1, <1>2 DEF CallIds
<1>19. ASSUME NEW b PROVE b \in Books(k) <=> b \in Books(g) /\ b # call
  <2>1. ASSUME b \in Books(k) PROVE b \in Books(g) /\ b # call
    <3>1. PICK i, m : i \in Frames(g) /\ m \in DOMAIN k.frames[i].calls /\ b = [frame |-> i, attempt |-> m]
      BY <1>15, <2>1, BooksIs
    <3>2. m \in DOMAIN g.frames[i].calls /\ ~(i = id /\ m = a) BY <1>16, <3>1
    <3>3. b.frame = i /\ b.attempt = m BY <3>1
    <3> QED BY <1>1, <1>2, <3>1, <3>2, <3>3, BooksIs
  <2>2. ASSUME b \in Books(g), b # call PROVE b \in Books(k)
    <3>1. PICK i, m : i \in Frames(g) /\ m \in DOMAIN g.frames[i].calls /\ b = [frame |-> i, attempt |-> m]
      BY <2>2, BooksIs
    <3>2. m \in DOMAIN k.frames[i].calls BY <1>16, <1>18, <2>2, <3>1
    <3> QED BY <1>15, <3>1, <3>2, BooksIs
  <2> QED BY <2>1, <2>2
<1>20. Books(k) = Books(g) \ {call} BY <1>19
<1>21. call \in Books(g) BY <1>1, <1>2, <1>3, <1>18, BooksIs
<1> QED BY <1>11, <1>13, <1>14, <1>17, <1>20, <1>21

\* retired keeps a scheduler sound; the call is off the books unless the
\* scheduler still counts on it.
LEMMA RetiredIs ==
    ASSUME NEW p \in Plans, NEW g, Sound(g, p), NEW call \in CallIds
    PROVE  LET r == retired(g, call)
           IN /\ Sound(r.g, p) /\ Loses(g, r.g, IF r.changed THEN {call} ELSE {})
              /\ r.g.outcome = g.outcome
              /\ r.ok => call \notin Books(r.g)
<1>1. call = [frame |-> call.frame, attempt |-> call.attempt] BY DEF CallIds
<1>2. Calm(g, g, p) /\ Loses(g, g, {}) BY CalmRefl, SteadyLoses DEF Calm
<1>3. CASE ~Has(g, call.frame) \/ call.attempt \notin DOMAIN g.frames[call.frame].calls
  <2>1. call \notin Books(g)
    <3>1. SUFFICES ASSUME call \in Books(g) PROVE FALSE OBVIOUS
    <3>2. PICK i, m : i \in Frames(g) /\ m \in DOMAIN g.frames[i].calls /\ call = [frame |-> i, attempt |-> m]
      BY <3>1, BooksIs
    <3>3. call.frame = i /\ call.attempt = m BY <3>2
    <3> QED BY <1>3, <3>2, <3>3 DEF Has
  <2>2. retired(g, call) = [ok |-> TRUE, changed |-> FALSE, g |-> g] BY <1>3 DEF retired
  <2> QED BY <1>2, <2>1, <2>2
<1>4. CASE /\ Has(g, call.frame) /\ call.attempt \in DOMAIN g.frames[call.frame].calls
           /\ g.frames[call.frame].calls[call.attempt] = "Active"
  <2>1. retired(g, call) = [ok |-> FALSE, changed |-> FALSE, g |-> g] BY <1>4 DEF retired
  <2> QED BY <1>2, <2>1
<1>5. CASE /\ Has(g, call.frame) /\ call.attempt \in DOMAIN g.frames[call.frame].calls
           /\ g.frames[call.frame].calls[call.attempt] # "Active"
  <2>1. PICK k : k = Uncharge(g, call) OBVIOUS
  <2>2. /\ Unbilled(g, k) /\ Books(k) = Books(g) \ {call} /\ k.calls = g.calls - 1
        /\ call \in Books(g)
    BY <1>5, <2>1, UnchargeIs DEF Has
  <2>3. Coherent(k, p.budget) /\ Nested(k) BY <2>2, UnbilledSound
  <2>4. Accounted(k, p)
    <3>1. IsFiniteSet(Books(g)) /\ g.calls = Cardinality(Books(g)) BY DEF Sound, Accounted
    <3>2. PICK B : B = Books(g) OBVIOUS
    <3>3. PICK T : T = Books(k) OBVIOUS
    <3>4. T = B \ {call} /\ call \in B BY <2>2, <3>2, <3>3
    <3>5. IsFiniteSet(B \ {call})
          /\ Cardinality(B \ {call}) = IF call \in B THEN Cardinality(B) - 1 ELSE Cardinality(B)
      BY <3>1, <3>2, FS_RemoveElement
    <3>6. IsFiniteSet(T) /\ Cardinality(T) = Cardinality(B) - 1 BY <3>4, <3>5
    <3>7. IsFiniteSet(Books(k)) /\ k.calls = Cardinality(Books(k))
      BY <2>2, <3>1, <3>2, <3>3, <3>6
    <3>8. Frames(k) = Frames(g) /\ k.remaining = g.remaining BY <2>2 DEF Unbilled
    <3> QED BY <3>7, <3>8 DEF Sound, Accounted
  <2>5. Sound(k, p) BY <2>3, <2>4 DEF Sound
  <2>6. PICK q : q = prune(k, call.frame) OBVIOUS
  <2>7. Calm(k, q, p)
    <3>1. Tidies(k, q) /\ Silent(k, q) BY <2>5, <2>6, SoundTypes, PruneIs
    <3> QED BY <2>5, <3>1, SilentCalm
  <2>8. PICK w : w = WakeBlocked(q) OBVIOUS
  <2>9. Calm(q, w, p) BY <2>7, <2>8, WakeBlockedIs DEF Calm
  <2>10. Calm(k, w, p) BY <2>7, <2>9, CalmTrans
  <2>11. retired(g, call) = [ok |-> TRUE, changed |-> TRUE, g |-> w]
    BY <1>5, <2>1, <2>6, <2>8 DEF retired
  <2>12. Loses(g, k, {call}) BY <2>2 DEF Unbilled, Loses, Kept, Quiet
  <2>13. w.outcome = k.outcome /\ k.outcome = g.outcome
    <3>1. Tidies(k, q) /\ Tidies(q, w)
      <4>1. Tidies(k, q) BY <2>5, <2>6, SoundTypes, PruneIs
      <4>2. Sound(q, p) BY <2>7 DEF Calm
      <4>3. DOMAIN q.blocked \subseteq 0..(q.next - 1)
        <5>1. DOMAIN q.blocked \subseteq Frames(q) BY <4>2, SoundTypes DEF Core, Queues
        <5> QED BY <4>2, <5>1, SoundTypes
      <4>4. Ascending(q, DOMAIN q.blocked) \in Seq(Nat) BY <4>2, <4>3, SoundTypes, AscendingIs
      <4> QED BY <2>8, <4>1, <4>2, <4>4, SoundTypes, EnqueueAllIs DEF WakeBlocked
    <3> QED BY <2>2, <3>1 DEF Tidies, Unbilled
  <2>14. Loses(k, w, {}) BY <2>10, <2>13, SteadyLoses DEF Calm
  <2>15. Loses(g, w, {call}) BY <2>12, <2>14, LosesTrans
  <2>16. call \notin Books(w) BY <2>15 DEF Loses
  <2> QED BY <2>10, <2>11, <2>13, <2>15, <2>16 DEF Calm
<1> QED BY <1>3, <1>4, <1>5

-----------------------------------------------------------------------------
(* A new scheduler.                                                         *)

LEMMA NewSchedulerIs ==
    ASSUME NEW p \in Plans
    PROVE  LET g == NewScheduler(p)
           IN /\ Sound(g, p) /\ Books(g) = {} /\ g.next = 1 /\ g.outcome = None
              /\ Frames(g) = {ROOT}
<1>1. PICK f : f = NewFrame(NoParent, 0) OBVIOUS
<1>2. PICK P : P = Parents OBVIOUS
<1>3. NoParent \in Parents BY DEF NoParent, Parents
<1>4. f \in FrameRecords BY <1>1, <1>3, NewFrameTypes
<1>5. Fresh(f, NoParent) BY <1>1, NewFrameIs
<1>6. /\ f.generation = 0 /\ f.parent = NoParent /\ f.children = {} /\ f.round = NoRound
      /\ DOMAIN f.calls = {} /\ f.notification = "Waiting" /\ f.cancelling = FALSE
      /\ Outcome(f) = None
  BY <1>5 DEF Fresh
<1>7. PICK F : F = [i \in {ROOT} |-> f] OBVIOUS
<1>8. F \in Partial(Nat, FrameRecords) /\ DOMAIN F = {ROOT} /\ F[ROOT] = f
  <2>1. DOMAIN F = {ROOT} /\ F[ROOT] = f /\ F \in [{ROOT} -> FrameRecords] BY <1>4, <1>7
  <2>2. {ROOT} \subseteq Nat BY DEF ROOT
  <2> QED BY <2>1, <2>2, PartialFn
<1>9. Empty \in Partial(Nat, {"Local", "Global"})
  <2>1. PICK R : R = {"Local", "Global"} OBVIOUS
  <2>2. DOMAIN Empty = {} /\ Empty \in [DOMAIN Empty -> R] BY DEF Empty
  <2>3. Empty \in Partial(Nat, R) BY <2>2, PartialFn
  <2> QED BY <2>1, <2>3
<1>10. PICK g : g = NewScheduler(p) OBVIOUS
<1>11. /\ g.frames = F /\ g.queued = {ROOT} /\ g.blocked = Empty /\ g.pending = <<>>
       /\ g.cancels = <<>> /\ g.ready = <<ROOT>>
       /\ g.remaining = p.budget /\ g.next = 1 /\ g.calls = 0 /\ g.outcome = None
  BY <1>1, <1>7, <1>10 DEF NewScheduler
<1>12. g \in Schedulers
  <2>1. p.budget \in Nat BY PlanTypes
  <2>2. PICK B : B = Empty OBVIOUS
  <2>3. PICK q : q = {ROOT} OBVIOUS
  <2>4. q \in SUBSET Nat /\ <<ROOT>> \in Seq(Nat) BY <2>3 DEF ROOT
  <2>5. g = [frames |-> F, ready |-> <<ROOT>>, queued |-> q, blocked |-> B,
             cancels |-> <<>>, pending |-> <<>>, remaining |-> p.budget, next |-> 1,
             calls |-> 0, outcome |-> None]
    BY <1>1, <1>7, <1>10, <2>2, <2>3 DEF NewScheduler
  <2>6. None \in Outcomes BY DEF Outcomes
  <2>7. PICK rq : rq = <<ROOT>> OBVIOUS
  <2>8. B \in Partial(Nat, {"Local", "Global"}) BY <1>9, <2>2
  <2> QED BY <1>8, <2>1, <2>4, <2>5, <2>6, <2>8 DEF Schedulers
<1>13. Frames(g) = {ROOT} BY <1>8, <1>11 DEF Frames
<1>14. g.frames[ROOT] = f BY <1>8, <1>11
<1>15. Tree(g) BY <1>6, <1>11, <1>13, <1>14 DEF Tree, ROOT
<1>16. Queues(g) BY <1>11, <1>13 DEF Queues, Empty
<1>17. Budget(g, p.budget)
  <2>1. NoRound.attempt = 0 BY DEF NoRound
  <2>2. p.budget \in Nat BY PlanTypes
  <2> QED BY <1>6, <1>11, <1>13, <1>14, <2>1, <2>2 DEF Budget
<1>18. Halted(g) BY <1>11 DEF Halted
<1>19. Core(g, p.budget) BY <1>12, <1>15, <1>16, <1>17, <1>18 DEF Core
<1>20. Branches(g)
  <2>1. Expected(g) /\ Unreported(g) BY <1>13 DEF Expected, Unreported
  <2>2. Joins(g) BY <1>6, <1>13, <1>14 DEF Joins, NoRound
  <2>3. Settled(g) BY <1>6, <1>13, <1>14 DEF Settled, None
  <2> QED BY <2>1, <2>2, <2>3 DEF Branches
<1>21. Notified(g)
  <2>1. Range(g.pending) = {} /\ Len(g.pending) = 0 /\ IsInjective(g.pending)
    BY <1>11 DEF Range, IsInjective
  <2>2. {i \in Frames(g) : g.frames[i].notification = "Queued"} = {} BY <1>6, <1>13, <1>14
  <2>3. 1..Len(g.pending) = {} BY <2>1
  <2> QED BY <1>6, <1>13, <1>14, <2>1, <2>2, <2>3 DEF Notified
<1>22. Books(g) = {}
  <2>1. ASSUME NEW b \in Books(g) PROVE FALSE BY <1>6, <1>13, <1>14, <2>1, BooksIs
  <2> QED BY <2>1
<1>23. Nested(g) BY <1>13 DEF Nested
<1>24. Accounted(g, p)
  <2>1. IsFiniteSet({ROOT}) /\ Cardinality({ROOT}) = 1 BY FS_Singleton
  <2>2. IsFiniteSet({}) /\ Cardinality({}) = 0 BY FS_EmptySet
  <2>3. p.budget \in Nat /\ p.frames \in Nat \ {0} BY PlanTypes
  <2> QED BY <1>11, <1>13, <1>22, <2>1, <2>2, <2>3 DEF Accounted
<1>25. g.outcome # "Internal" BY <1>11 DEF None
<1>26. Sound(g, p) BY <1>19, <1>20, <1>21, <1>23, <1>24, <1>25 DEF Sound, Coherent
<1> QED BY <1>10, <1>11, <1>13, <1>22, <1>26
=============================================================================
