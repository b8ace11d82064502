----------------------------- MODULE FrameProofs -----------------------------
(***************************************************************************)
(* Proofs about the frame scheduler.                                        *)
(***************************************************************************)
EXTENDS FrameScheduler, FilteringProofs, FiniteSetTheorems, SequenceTheorems

Partial(D, R) == UNION {[E -> R] : E \in SUBSET D}

Outcomes == {None, "Succeeded", "Failed", "Unsafe", "TimedOut", "Aborted", "Internal"}
Phases == {p \in [k : {"Ready", "Calling", "Joining", "Waiting", "Retrying", "Terminal"},
                  attempt : Nat, until : Nat, outcome : Outcomes] :
              p.outcome # None => p.k = "Terminal"}
Rounds == [attempt : Nat, count : Nat, max : Nat, next : Nat,
           running : SUBSET Nat, outputs : SUBSET Nat, failed : BOOLEAN]
Parents == [frame : Int, round : Nat, index : Nat]
CallStates == {"Active", "CancelQueued", "CancelIssued"}
FrameRecords == [phase : Phases, generation : Nat, parent : Parents, depth : Nat,
                 children : SUBSET Nat, round : Rounds, calls : Partial(Nat, CallStates),
                 notification : {"Waiting", "Queued", "Emitted"}, cancelling : BOOLEAN]
CallIds == [frame : Nat, attempt : Nat]
Schedulers == [frames : Partial(Nat, FrameRecords), ready : Seq(Nat), queued : SUBSET Nat,
               blocked : Partial(Nat, {"Local", "Global"}), cancels : Seq(CallIds),
               pending : Seq(Nat), remaining : Nat, next : Nat, calls : Int, outcome : Outcomes]

\* children and parents name each other, and a child is younger than its parent
Tree(g) ==
    /\ \A i \in Frames(g) : i < g.next
    /\ \A i \in Frames(g) : \A c \in g.frames[i].children :
          c \in Frames(g) /\ c # ROOT /\ g.frames[c].parent.frame = i
    /\ \A i \in Frames(g) \ {ROOT} :
          LET p == g.frames[i].parent
          IN p.frame \in Frames(g) /\ p.frame < i /\ i \in g.frames[p.frame].children /\ p.round >= 1
    /\ ROOT \in Frames(g) => g.frames[ROOT].parent = NoParent

Queues(g) ==
    /\ g.queued \subseteq Frames(g)
    /\ DOMAIN g.blocked \subseteq Frames(g)

Budget(g, b) ==
    \A i \in Frames(g) :
        /\ g.frames[i].generation + g.remaining <= b
        /\ DOMAIN g.frames[i].calls \subseteq 1..g.frames[i].generation
        /\ g.frames[i].round.attempt <= g.frames[i].generation

Halted(g) == g.outcome # None => \A i \in Frames(g) : g.frames[i].cancelling

Core(g, b) == g \in Schedulers /\ Tree(g) /\ Queues(g) /\ Budget(g, b) /\ Halted(g)

Waits(f) == ~f.cancelling /\ f.notification = "Waiting"

\* a branch that has not reported is expected by the round it belongs to
Expected(g) ==
    \A i \in Frames(g) \ {ROOT} : Waits(g.frames[i]) =>
        LET p == g.frames[i].parent
        IN /\ g.frames[p.frame].round.attempt = p.round
           /\ i \in g.frames[p.frame].round.running

\* an open round that has not failed: each branch it waits for is there, and owes
\* an output of its own
Owed(g, i) ==
    LET r == g.frames[i].round
    IN /\ r.next <= r.count
       /\ r.outputs \subseteq 0..(r.next - 1)
       /\ \A c \in r.running :
             /\ c \in Frames(g) /\ c # ROOT /\ Waits(g.frames[c])
             /\ g.frames[c].parent.frame = i /\ g.frames[c].parent.round = r.attempt
             /\ g.frames[c].parent.index \in 0..(r.next - 1) \ r.outputs
       /\ \A c, d \in r.running :
             g.frames[c].parent.index = g.frames[d].parent.index => c = d

Joins(g) ==
    \A i \in Frames(g) : LET f == g.frames[i] IN
        IF f.round.attempt = 0 THEN f.round = NoRound
        ELSE /\ ~f.cancelling /\ f.phase.k = "Joining" /\ f.phase.outcome = None
             /\ ~f.round.failed => Owed(g, i)

Settled(g) ==
    \A i \in Frames(g) : LET f == g.frames[i] IN
        ~f.cancelling =>
            /\ Outcome(f) \in {None, "Succeeded", "Failed"}
            /\ Outcome(f) = None => f.notification = "Waiting"
            /\ f.notification # "Queued"
            /\ i = ROOT => Outcome(f) = None

\* a branch of a live frame that has not told it yet is of the open round, and
\* live unless the round has failed
Unreported(g) ==
    \A i \in Frames(g) \ {ROOT} :
        LET p == g.frames[i].parent
            f == g.frames[p.frame]
        IN ~f.cancelling /\ g.frames[i].notification # "Emitted" =>
              /\ f.round.attempt = p.round
              /\ ~f.round.failed => ~g.frames[i].cancelling

Branches(g) == Expected(g) /\ Joins(g) /\ Settled(g) /\ Unreported(g)

\* a cancelled branch has told its parent or is queued to tell it, and the queue
\* holds children before their parents
Notified(g) ==
    /\ \A i \in Frames(g) :
          /\ g.frames[i].cancelling =>
                Outcome(g.frames[i]) # None /\ (i # ROOT => g.frames[i].notification # "Waiting")
          /\ g.frames[i].notification # "Waiting" => i # ROOT /\ Outcome(g.frames[i]) # None
    /\ Range(g.pending) = {i \in Frames(g) : g.frames[i].notification = "Queued"}
    /\ \A m, n \in 1..Len(g.pending) :
          m <= n => g.frames[g.pending[n]].parent.frame # g.pending[m]
    /\ IsInjective(g.pending)

\* Bookkeeping: queues, notices, cancellations, and frames that are spent.
Alike(e, f) ==
    /\ f.phase = e.phase /\ f.generation = e.generation /\ f.parent = e.parent
    /\ f.depth = e.depth /\ f.round = e.round /\ f.cancelling = e.cancelling
    /\ DOMAIN f.calls = DOMAIN e.calls
    /\ ~e.cancelling \/ e.notification = "Emitted" => f.notification = e.notification

Spendable(f) ==
    /\ Outcome(f) # None /\ DOMAIN f.calls = {}
    /\ f.cancelling \/ f.notification = "Emitted"

Tidies(g, h) ==
    /\ h \in Schedulers
    /\ h.next = g.next /\ h.remaining = g.remaining /\ h.calls = g.calls
    /\ h.outcome = g.outcome
    /\ Frames(h) \subseteq Frames(g)
    /\ \A i \in Frames(h) : /\ Alike(g.frames[i], h.frames[i])
                            /\ h.frames[i].children = g.frames[i].children \cap Frames(h)
    /\ \A i \in Frames(g) \ Frames(h) : /\ Spendable(g.frames[i])
                                        /\ g.frames[i].children \cap Frames(h) = {}
    /\ Queues(h)

\* nobody is told
Silent(g, h) ==
    /\ h.pending = g.pending
    /\ \A i \in Frames(h) : h.frames[i].notification = g.frames[i].notification
    /\ \A i \in Frames(g) \ Frames(h) : g.frames[i].notification # "Queued"

-----------------------------------------------------------------------------
(* Functions on some of the elements of a set, records and numbers.         *)

LEMMA PartialFn ==
    ASSUME NEW D, NEW R, NEW f
    PROVE  f \in Partial(D, R) <=> DOMAIN f \subseteq D /\ f \in [DOMAIN f -> R]
BY DEF Partial

LEMMA FrameTypes ==
    ASSUME NEW g, g \in Schedulers
    PROVE  /\ Frames(g) \subseteq Nat /\ g.frames \in [Frames(g) -> FrameRecords]
           /\ \A i \in Frames(g) : i \in Nat /\ g.frames[i] \in FrameRecords
           /\ g.next \in Nat /\ g.remaining \in Nat /\ g.outcome \in Outcomes /\ g.calls \in Int
           /\ g.queued \subseteq Nat /\ g.ready \in Seq(Nat) /\ g.pending \in Seq(Nat)
           /\ g.cancels \in Seq(CallIds)
           /\ g.blocked \in Partial(Nat, {"Local", "Global"})
           /\ g.frames \in Partial(Nat, FrameRecords)
<1>1. g.frames \in Partial(Nat, FrameRecords) BY DEF Schedulers
<1>2. Frames(g) \subseteq Nat /\ g.frames \in [Frames(g) -> FrameRecords]
  BY <1>1, PartialFn DEF Frames
<1> QED BY <1>1, <1>2 DEF Schedulers

LEMMA RecordTypes ==
    ASSUME NEW f \in FrameRecords
    PROVE  /\ f.phase \in Phases /\ f.generation \in Nat /\ f.parent \in Parents
           /\ f.depth \in Nat /\ f.children \subseteq Nat /\ f.round \in Rounds
           /\ f.notification \in {"Waiting", "Queued", "Emitted"} /\ f.cancelling \in BOOLEAN
           /\ DOMAIN f.calls \subseteq Nat /\ f.calls \in [DOMAIN f.calls -> CallStates]
           /\ f.calls \in Partial(Nat, CallStates)
<1>1. f.calls \in Partial(Nat, CallStates) BY DEF FrameRecords
<1>2. DOMAIN f.calls \subseteq Nat /\ f.calls \in [DOMAIN f.calls -> CallStates] BY <1>1, PartialFn
<1> QED BY <1>1, <1>2 DEF FrameRecords

-----------------------------------------------------------------------------
(* Bookkeeping preserves the invariants.                                    *)

LEMMA TidyRefl ==
    ASSUME NEW b, NEW g, Core(g, b)
    PROVE  Tidies(g, g)
<1>1. \A i \in Frames(g) : g.frames[i].children = g.frames[i].children \cap Frames(g)
  BY DEF Core, Tree
<1> QED BY <1>1 DEF Tidies, Alike, Core

LEMMA TidyTrans ==
    ASSUME NEW g, NEW h, NEW k, Tidies(g, h), Tidies(h, k)
    PROVE  Tidies(g, k)
<1>1. \A i \in Frames(k) : i \in Frames(h) /\ i \in Frames(g) BY DEF Tidies
<1>2. ASSUME NEW i \in Frames(k) PROVE Alike(g.frames[i], k.frames[i])
  <2>1. Alike(g.frames[i], h.frames[i]) /\ Alike(h.frames[i], k.frames[i]) BY <1>1 DEF Tidies
  <2> QED BY <2>1 DEF Alike
<1>3. ASSUME NEW i \in Frames(k)
      PROVE  k.frames[i].children = g.frames[i].children \cap Frames(k)
  <2>1. /\ h.frames[i].children = g.frames[i].children \cap Frames(h)
        /\ k.frames[i].children = h.frames[i].children \cap Frames(k) BY <1>1 DEF Tidies
  <2> QED BY <2>1, <1>1
<1>4. ASSUME NEW i \in Frames(g) \ Frames(k)
      PROVE  Spendable(g.frames[i]) /\ g.frames[i].children \cap Frames(k) = {}
  <2>1. CASE i \notin Frames(h)
    <3>1. Spendable(g.frames[i]) /\ g.frames[i].children \cap Frames(h) = {} BY <2>1 DEF Tidies
    <3> QED BY <3>1, <1>1
  <2>2. CASE i \in Frames(h)
    <3>1. Spendable(h.frames[i]) /\ h.frames[i].children \cap Frames(k) = {} BY <2>2 DEF Tidies
    <3>2. /\ Alike(g.frames[i], h.frames[i])
          /\ h.frames[i].children = g.frames[i].children \cap Frames(h) BY <2>2 DEF Tidies
    <3>3. Spendable(g.frames[i]) BY <3>1, <3>2 DEF Spendable, Alike, Outcome
    <3> QED BY <3>1, <3>2, <3>3, <1>1
  <2> QED BY <2>1, <2>2
<1>5. /\ k \in Schedulers /\ Queues(k)
      /\ k.next = g.next /\ k.remaining = g.remaining /\ k.calls = g.calls
      /\ k.outcome = g.outcome BY DEF Tidies
<1> QED BY <1>1, <1>2, <1>3, <1>4, <1>5 DEF Tidies

LEMMA TidyCore ==
    ASSUME NEW b, NEW g, NEW h, Core(g, b), Tidies(g, h)
    PROVE  Core(h, b)
<1>1. \A i \in Frames(h) : i \in Frames(g) /\ Alike(g.frames[i], h.frames[i])
  BY DEF Tidies
<1>2. Tree(h)
  <2>1. ASSUME NEW i \in Frames(h), NEW c \in h.frames[i].children
        PROVE  c \in Frames(h) /\ c # ROOT /\ h.frames[c].parent.frame = i
    <3>1. c \in g.frames[i].children /\ c \in Frames(h) BY DEF Tidies
    <3>2. c # ROOT /\ g.frames[c].parent.frame = i BY <3>1, <1>1 DEF Core, Tree
    <3> QED BY <3>1, <3>2, <1>1 DEF Alike
  <2>2. ASSUME NEW i \in Frames(h) \ {ROOT}
        PROVE  LET p == h.frames[i].parent
               IN p.frame \in Frames(h) /\ p.frame < i /\ i \in h.frames[p.frame].children /\ p.round >= 1
    <3> DEFINE p == g.frames[i].parent
    <3>1. p.frame \in Frames(g) /\ p.frame < i /\ i \in g.frames[p.frame].children /\ p.round >= 1
      BY <1>1 DEF Core, Tree
    <3>2. h.frames[i].parent = p BY <1>1 DEF Alike
    <3>3. p.frame \in Frames(h) BY <3>1, <1>1 DEF Tidies
    <3>4. i \in h.frames[p.frame].children BY <3>1, <3>3 DEF Tidies
    <3> QED BY <3>1, <3>2, <3>3, <3>4
  <2>3. \A i \in Frames(h) : i < h.next BY <1>1 DEF Core, Tree, Tidies
  <2>4. ROOT \in Frames(h) => h.frames[ROOT].parent = NoParent BY <1>1 DEF Core, Tree, Alike
  <2> QED BY <2>1, <2>2, <2>3, <2>4 DEF Tree
<1>3. Budget(h, b)
  <2>1. h.remaining = g.remaining BY DEF Tidies
  <2> QED BY <1>1, <2>1 DEF Budget, Alike, Core
<1>4. Halted(h) BY <1>1 DEF Halted, Alike, Core, Tidies
<1> QED BY <1>2, <1>3, <1>4 DEF Core, Tidies

\* open rounds keep the branches they wait for
LEMMA TidyOpen ==
    ASSUME NEW b, NEW g, NEW h, Core(g, b), Expected(g), Joins(g), Tidies(g, h)
    PROVE  Expected(h) /\ Joins(h)
<1>1. \A i \in Frames(h) : i \in Frames(g) /\ Alike(g.frames[i], h.frames[i])
  BY DEF Tidies
<1>2. \A i \in Frames(h) : Waits(h.frames[i]) <=> Waits(g.frames[i])
  BY <1>1 DEF Alike, Waits
<1>3. Core(h, b) BY TidyCore
<1>4. Expected(h)
  <2>1. ASSUME NEW i \in Frames(h) \ {ROOT}, Waits(h.frames[i])
        PROVE  LET p == h.frames[i].parent
               IN /\ h.frames[p.frame].round.attempt = p.round
                  /\ i \in h.frames[p.frame].round.running
    <3> DEFINE p == g.frames[i].parent
    <3>1. h.frames[i].parent = p BY <1>1 DEF Alike
    <3>2. g.frames[p.frame].round.attempt = p.round /\ i \in g.frames[p.frame].round.running
      BY <1>1, <1>2, <2>1 DEF Expected
    <3>3. p.frame \in Frames(h) BY <3>1, <1>3 DEF Core, Tree
    <3>4. h.frames[p.frame].round = g.frames[p.frame].round BY <3>3, <1>1 DEF Alike
    <3> QED BY <3>1, <3>2, <3>4
  <2> QED BY <2>1 DEF Expected
<1>5. ASSUME NEW i \in Frames(h), Owed(g, i), h.frames[i].round = g.frames[i].round
      PROVE  Owed(h, i)
  <2> DEFINE r == g.frames[i].round
  <2>1. ASSUME NEW c \in r.running PROVE c \in Frames(h)
    <3>1. c \in Frames(g) /\ Waits(g.frames[c]) BY <1>5 DEF Owed
    <3>2. ~Spendable(g.frames[c]) BY <3>1 DEF Waits, Spendable
    <3> QED BY <3>1, <3>2 DEF Tidies
  <2>2. \A c \in r.running : h.frames[c].parent = g.frames[c].parent BY <2>1, <1>1 DEF Alike
  <2>3. ASSUME NEW c \in r.running
        PROVE  /\ c # ROOT /\ Waits(h.frames[c])
               /\ h.frames[c].parent.frame = i /\ h.frames[c].parent.round = r.attempt
               /\ h.frames[c].parent.index \in 0..(r.next - 1) \ r.outputs
    BY <1>5, <2>1, <2>2, <1>2 DEF Owed
  <2> QED BY <1>5, <2>1, <2>2, <2>3 DEF Owed
<1>6. Joins(h)
  <2>1. ASSUME NEW i \in Frames(h)
        PROVE  LET f == h.frames[i]
               IN IF f.round.attempt = 0 THEN f.round = NoRound
                  ELSE /\ ~f.cancelling /\ f.phase.k = "Joining" /\ f.phase.outcome = None
                       /\ ~f.round.failed => Owed(h, i)
    <3>1. Alike(g.frames[i], h.frames[i]) /\ i \in Frames(g) BY <1>1
    <3>2. CASE g.frames[i].round.attempt = 0 BY <3>1, <3>2 DEF Joins, Alike
    <3>3. CASE g.frames[i].round.attempt # 0
      <4>1. /\ ~g.frames[i].cancelling /\ g.frames[i].phase.k = "Joining"
            /\ g.frames[i].phase.outcome = None
            /\ ~g.frames[i].round.failed => Owed(g, i) BY <3>1, <3>3 DEF Joins
      <4>2. /\ h.frames[i].round = g.frames[i].round /\ h.frames[i].phase = g.frames[i].phase
            /\ h.frames[i].cancelling = g.frames[i].cancelling BY <3>1 DEF Alike
      <4> QED BY <4>1, <4>2, <3>3, <1>5
    <3> QED BY <3>2, <3>3
  <2> QED BY <2>1 DEF Joins
<1> QED BY <1>4, <1>6

LEMMA TidyLive ==
    ASSUME NEW b, NEW g, NEW h, Core(g, b), Branches(g), Tidies(g, h)
    PROVE  Branches(h)
<1>1. \A i \in Frames(h) : i \in Frames(g) /\ Alike(g.frames[i], h.frames[i])
  BY DEF Tidies
<1>3. Core(h, b) BY TidyCore
<1>4. Expected(h) /\ Joins(h) BY TidyOpen DEF Branches
<1>7. Settled(h)
  <2>1. ASSUME NEW i \in Frames(h), ~h.frames[i].cancelling
        PROVE  /\ Outcome(h.frames[i]) \in {None, "Succeeded", "Failed"}
               /\ Outcome(h.frames[i]) = None => h.frames[i].notification = "Waiting"
               /\ h.frames[i].notification # "Queued"
               /\ i = ROOT => Outcome(h.frames[i]) = None
    <3>1. Alike(g.frames[i], h.frames[i]) /\ i \in Frames(g) BY <1>1
    <3>2. Outcome(h.frames[i]) = Outcome(g.frames[i]) BY <3>1 DEF Alike, Outcome
    <3>3. h.frames[i].notification = g.frames[i].notification /\ ~g.frames[i].cancelling
      BY <3>1, <2>1 DEF Alike
    <3> QED BY <3>1, <3>2, <3>3 DEF Branches, Settled
  <2> QED BY <2>1 DEF Settled
<1>8. Unreported(h)
  <2>1. ASSUME NEW i \in Frames(h) \ {ROOT}
        PROVE  LET p == h.frames[i].parent
                   f == h.frames[p.frame]
               IN ~f.cancelling /\ h.frames[i].notification # "Emitted" =>
                     /\ f.round.attempt = p.round
                     /\ ~f.round.failed => ~h.frames[i].cancelling
    <3> DEFINE p == g.frames[i].parent
    <3>1. Alike(g.frames[i], h.frames[i]) /\ i \in Frames(g) /\ h.frames[i].parent = p
      BY <1>1 DEF Alike
    <3>2. p.frame \in Frames(h) BY <3>1, <1>3 DEF Core, Tree
    <3>3. Alike(g.frames[p.frame], h.frames[p.frame]) BY <3>2, <1>1
    <3>4. ~g.frames[p.frame].cancelling /\ g.frames[i].notification # "Emitted" =>
             /\ g.frames[p.frame].round.attempt = p.round
             /\ ~g.frames[p.frame].round.failed => ~g.frames[i].cancelling
      BY <3>1 DEF Branches, Unreported
    <3> QED BY <3>1, <3>3, <3>4 DEF Alike
  <2> QED BY <2>1 DEF Unreported
<1> QED BY <1>4, <1>7, <1>8 DEF Branches

LEMMA TidyNotified ==
    ASSUME NEW g, NEW h, Notified(g), Tidies(g, h), Silent(g, h)
    PROVE  Notified(h)
<1>1. \A i \in Frames(h) : i \in Frames(g) /\ Alike(g.frames[i], h.frames[i])
  BY DEF Tidies
<1>2. \A i \in Frames(h) : h.frames[i].notification = g.frames[i].notification
  BY DEF Silent
<1>3. \A i \in Frames(h) : /\ Outcome(h.frames[i]) = Outcome(g.frames[i])
                           /\ h.frames[i].cancelling = g.frames[i].cancelling
                           /\ h.frames[i].parent = g.frames[i].parent
  BY <1>1 DEF Alike, Outcome
<1>4. h.pending = g.pending BY DEF Silent
<1>5. {i \in Frames(g) : g.frames[i].notification = "Queued"}
        = {i \in Frames(h) : h.frames[i].notification = "Queued"}
  BY <1>1, <1>2 DEF Silent
<1>6. \A m \in 1..Len(g.pending) : g.pending[m] \in Frames(h)
  <2>1. Range(h.pending) = {i \in Frames(h) : h.frames[i].notification = "Queued"}
    BY <1>4, <1>5 DEF Notified
  <2>2. g.pending \in Seq(Nat) BY <1>4, FrameTypes DEF Tidies
  <2> QED BY <2>1, <2>2, <1>4, ElementsOf
<1>7. \A m, n \in 1..Len(h.pending) :
          m <= n => h.frames[h.pending[n]].parent.frame # h.pending[m]
  BY <1>3, <1>4, <1>6 DEF Notified
<1> QED BY <1>1, <1>2, <1>3, <1>4, <1>5, <1>7 DEF Notified

LEMMA SilentTrans ==
    ASSUME NEW g, NEW h, NEW k, Tidies(g, h), Tidies(h, k), Silent(g, h), Silent(h, k)
    PROVE  Silent(g, k)
BY DEF Silent, Tidies

LEMMA SilentRefl == ASSUME NEW g PROVE Silent(g, g)
BY DEF Silent

\* the calls that the scheduler has on its books
Books(g) == UNION {{[frame |-> i, attempt |-> a] : a \in DOMAIN g.frames[i].calls} : i \in Frames(g)}

LEMMA BooksIs ==
    ASSUME NEW g, NEW c
    PROVE  c \in Books(g) <=> \E i \in Frames(g) : \E a \in DOMAIN g.frames[i].calls :
                                  c = [frame |-> i, attempt |-> a]
BY DEF Books

LEMMA TidyBooks ==
    ASSUME NEW g, NEW h, Tidies(g, h)
    PROVE  Books(h) = Books(g)
<1>1. \A i \in Frames(h) : i \in Frames(g) /\ DOMAIN h.frames[i].calls = DOMAIN g.frames[i].calls
  BY DEF Tidies, Alike
<1>2. \A i \in Frames(g) \ Frames(h) : DOMAIN g.frames[i].calls = {} BY DEF Tidies, Spendable
<1>3. ASSUME NEW c \in Books(h) PROVE c \in Books(g)
  <2>1. PICK i \in Frames(h) : \E a \in DOMAIN h.frames[i].calls : c = [frame |-> i, attempt |-> a]
    BY BooksIs
  <2> QED BY <2>1, <1>1, BooksIs
<1>4. ASSUME NEW c \in Books(g) PROVE c \in Books(h)
  <2>1. PICK i \in Frames(g) : \E a \in DOMAIN g.frames[i].calls : c = [frame |-> i, attempt |-> a]
    BY BooksIs
  <2>2. i \in Frames(h) BY <2>1, <1>2
  <2> QED BY <2>1, <2>2, <1>1, BooksIs
<1> QED BY <1>3, <1>4

\* A change of the queues alone.
LEMMA TidyQueues ==
    ASSUME NEW b, NEW g, NEW h, Core(g, b), h \in Schedulers, h.frames = g.frames,
           h.next = g.next, h.remaining = g.remaining, h.calls = g.calls, h.outcome = g.outcome,
           Queues(h)
    PROVE  Tidies(g, h) /\ (h.pending = g.pending => Silent(g, h))
<1>1. Frames(h) = Frames(g) BY DEF Frames
<1>2. \A i \in Frames(g) : g.frames[i].children = g.frames[i].children \cap Frames(g)
  BY DEF Core, Tree
<1>3. Tidies(g, h) BY <1>1, <1>2 DEF Tidies, Alike
<1>4. h.pending = g.pending => Silent(g, h) BY <1>1 DEF Silent
<1> QED BY <1>3, <1>4

-----------------------------------------------------------------------------
(* Sequences of frames in order.                                            *)

LEMMA NumberSeq ==
    ASSUME NEW n \in Nat, NEW s \in [1..n -> Nat]
    PROVE  s \in Seq(Nat) /\ Len(s) = n
<1>1. s \in Seq(Nat) BY SeqDef
<1>2. DOMAIN s = 1..n OBVIOUS
<1>3. Len(s) \in Nat /\ DOMAIN s = 1..Len(s) BY <1>1, LenProperties
<1>4. PICK m \in Nat : m = Len(s) BY <1>3
<1>5. 1..m = 1..n BY <1>2, <1>3, <1>4
<1>6. m = n
  <2>1. \A i \in Nat : 1 <= i /\ i <= m <=> 1 <= i /\ i <= n BY ONLY <1>5, n \in Nat, <1>4
  <2> QED BY ONLY <2>1, n \in Nat, <1>4
<1> QED BY <1>1, <1>4, <1>6

\* s lists the numbers below n, each of them once and where h says
Lists(s, h, n) ==
    /\ s \in [1..n -> Nat] /\ h \in [0..(n - 1) -> 1..n]
    /\ \A x \in 0..(n - 1) : s[h[x]] = x
    /\ \A i \in 1..n : s[i] \in 0..(n - 1) /\ h[s[i]] = i

LEMMA KeepFrames ==
    ASSUME NEW n \in Nat, NEW s, NEW h, Lists(s, h, n), NEW S, S \subseteq 0..(n - 1)
    PROVE  Keep(s, S) \in Seq(Nat) /\ Range(Keep(s, S)) = S /\ IsInjective(Keep(s, S))
<1>1. s \in Seq(Nat) /\ Len(s) = n BY NumberSeq DEF Lists
<1>2. \A x : x \in Range(s) <=> \E i \in 1..n : s[i] = x BY <1>1, ElementsOf
<1>3. Range(s) = 0..(n - 1)
  <2>1. ASSUME NEW x \in 0..(n - 1) PROVE x \in Range(s)
    <3>1. h[x] \in 1..n /\ s[h[x]] = x BY DEF Lists
    <3> QED BY <3>1, <1>2
  <2>2. ASSUME NEW x \in Range(s) PROVE x \in 0..(n - 1) BY <1>2 DEF Lists
  <2> QED BY <2>1, <2>2
<1>4. ASSUME NEW i \in 1..n, NEW j \in 1..n, s[i] = s[j] PROVE i = j
  <2>1. h[s[i]] = i /\ h[s[j]] = j BY DEF Lists
  <2> QED BY <2>1, <1>4
<1>5. IsInjective(s) BY <1>1, <1>4, ElementsOf
<1>6. Range(s) \cap S = S BY <1>3
<1>7. /\ Keep(s, S) \in Seq(Nat)
      /\ Range(Keep(s, S)) = Range(s) \cap S
      /\ IsInjective(s) => IsInjective(Keep(s, S)) BY <1>1, KeepRange
<1> QED BY <1>5, <1>6, <1>7

LEMMA AscendingIs ==
    ASSUME NEW g, g.next \in Nat, NEW S, S \subseteq 0..(g.next - 1)
    PROVE  /\ Ascending(g, S) \in Seq(Nat) /\ Range(Ascending(g, S)) = S
           /\ IsInjective(Ascending(g, S))
<1>1. PICK n \in Nat : n = g.next OBVIOUS
<1>2. PICK s : s = [i \in 1..n |-> i - 1] OBVIOUS
<1>3. PICK h : h = [x \in 0..(n - 1) |-> x + 1] OBVIOUS
<1>4. s \in [1..n -> Nat] /\ h \in [0..(n - 1) -> 1..n] BY <1>2, <1>3
<1>5. \A x \in 0..(n - 1) : s[h[x]] = x BY <1>2, <1>3
<1>6. \A i \in 1..n : s[i] \in 0..(n - 1) /\ h[s[i]] = i BY <1>2, <1>3
<1>7. Ascending(g, S) = Keep(s, S) BY <1>1, <1>2 DEF Ascending
<1>8. Lists(s, h, n) BY <1>4, <1>5, <1>6 DEF Lists
<1>9. S \subseteq 0..(n - 1) BY <1>1
<1>10. Keep(s, S) \in Seq(Nat) /\ Range(Keep(s, S)) = S /\ IsInjective(Keep(s, S))
  BY <1>8, <1>9, KeepFrames
<1> QED BY <1>7, <1>10

LEMMA DescendingIs ==
    ASSUME NEW g, g.next \in Nat, NEW S, S \subseteq 0..(g.next - 1)
    PROVE  LET t == Descending(g, S)
           IN /\ t \in Seq(Nat) /\ Range(t) = S /\ IsInjective(t)
              /\ \A i, j \in 1..Len(t) : i < j => t[i] > t[j]
<1>1. PICK n \in Nat : n = g.next OBVIOUS
<1>2. PICK s : s = [i \in 1..n |-> n - i] OBVIOUS
<1>3. PICK h : h = [x \in 0..(n - 1) |-> n - x] OBVIOUS
<1>4. s \in [1..n -> Nat] /\ h \in [0..(n - 1) -> 1..n] BY <1>2, <1>3
<1>5. \A x \in 0..(n - 1) : s[h[x]] = x BY <1>2, <1>3
<1>6. \A i \in 1..n : s[i] \in 0..(n - 1) /\ h[s[i]] = i BY <1>2, <1>3
<1>7. PICK t : t = Keep(s, S) OBVIOUS
<1>8. Descending(g, S) = t BY <1>1, <1>2, <1>7 DEF Descending
<1>9. t \in Seq(Nat) /\ Range(t) = S /\ IsInjective(t)
  <2>1. Lists(s, h, n) BY <1>4, <1>5, <1>6 DEF Lists
  <2>2. S \subseteq 0..(n - 1) BY <1>1
  <2> QED BY <2>1, <2>2, <1>7, KeepFrames
<1>10. s \in Seq(Nat) /\ Len(s) = n BY <1>4, NumberSeq
<1>11. PICK p : Places(p, t, s, S, n) BY <1>10, <1>7, KeepPlaces
<1>12. ASSUME NEW i \in 1..Len(t), NEW j \in 1..Len(t), i < j PROVE t[i] > t[j]
  <2>1. p[i] \in 1..n /\ p[j] \in 1..n BY <1>11 DEF Places
  <2>2. p[i] < p[j] /\ t[i] = s[p[i]] /\ t[j] = s[p[j]] BY <1>11, <1>12 DEF Places
  <2>3. s[p[i]] = n - p[i] /\ s[p[j]] = n - p[j] BY <2>1, <1>2
  <2> QED BY <2>1, <2>2, <2>3
<1> QED BY <1>8, <1>9, <1>12

-----------------------------------------------------------------------------
(* The ready queue.                                                         *)

LEMMA EnqueueIs ==
    ASSUME NEW b, NEW g, Core(g, b), NEW id \in Nat, NEW front \in BOOLEAN
    PROVE  Tidies(g, enqueue(g, id, front)) /\ Silent(g, enqueue(g, id, front))
<1> DEFINE h == enqueue(g, id, front)
<1>1. CASE h = g BY <1>1, TidyRefl, SilentRefl
<1>2. CASE h # g
  <2>1. /\ Has(g, id)
        /\ h = [g EXCEPT !.queued = @ \cup {id},
                         !.ready = IF front THEN <<id>> \o @ ELSE @ \o <<id>>]
    BY <1>2 DEF enqueue
  <2>2. g \in Schedulers /\ g.ready \in Seq(Nat) BY FrameTypes DEF Core
  <2>3. (IF front THEN <<id>> \o g.ready ELSE g.ready \o <<id>>) \in Seq(Nat) BY <2>2
  <2>4. /\ h.frames = g.frames /\ h.next = g.next
        /\ h.remaining = g.remaining /\ h.calls = g.calls /\ h.outcome = g.outcome
        /\ h.pending = g.pending /\ h.queued = g.queued \cup {id} /\ h.blocked = g.blocked
    BY <2>1, <2>2 DEF Schedulers
  <2>6. h \in Schedulers
    <3>1. PICK q \in Seq(Nat) :
            h = [[g EXCEPT !.queued = @ \cup {id}] EXCEPT !.ready = q]
      BY <2>1, <2>3 
    <3>2. g.queued \cup {id} \in SUBSET Nat BY <2>2 DEF Schedulers
    <3> QED BY <3>1, <3>2, <2>2 DEF Schedulers
  <2>5. Queues(h) BY <2>1, <2>4 DEF Queues, Core, Frames, Has
  <2> QED BY <2>4, <2>5, <2>6, TidyQueues
<1> QED BY <1>1, <1>2

LEMMA EnqueueAllIs ==
    ASSUME NEW b, NEW g, Core(g, b), NEW ids \in Seq(Nat)
    PROVE  Tidies(g, EnqueueAll(g, ids)) /\ Silent(g, EnqueueAll(g, ids))
<1> DEFINE K == {i \in Frames(g) \ g.queued : ~g.frames[i].cancelling}
           fresh == Keep(ids, K)
           h == EnqueueAll(g, ids)
<1>1. h = [g EXCEPT !.queued = @ \cup Range(fresh), !.ready = @ \o fresh] BY DEF EnqueueAll
<1>2. fresh \in Seq(Nat) /\ Range(fresh) \subseteq K BY KeepRange
<1> HIDE DEF fresh
<1>3. g \in Schedulers /\ g.ready \in Seq(Nat) /\ Frames(g) \subseteq Nat BY FrameTypes DEF Core
<1>4. g.ready \o fresh \in Seq(Nat) BY <1>2, <1>3
<1>5. /\ h \in Schedulers /\ h.frames = g.frames /\ h.next = g.next
      /\ h.remaining = g.remaining /\ h.calls = g.calls /\ h.outcome = g.outcome
      /\ h.pending = g.pending /\ h.queued = g.queued \cup Range(fresh) /\ h.blocked = g.blocked
  <2>1. g.queued \cup Range(fresh) \in SUBSET Nat BY <1>2, <1>3 DEF Schedulers
  <2> QED BY <1>1, <1>3, <1>4, <2>1 DEF Schedulers
<1>6. Queues(h) BY <1>2, <1>5 DEF Queues, Core, Frames
<1> QED BY <1>5, <1>6, TidyQueues

-----------------------------------------------------------------------------
(* Cancelling calls.                                                        *)


LEMMA CallsSet ==
    ASSUME NEW f \in FrameRecords, NEW c \in [DOMAIN f.calls -> CallStates],
           NEW e, e = [f EXCEPT !.calls = c]
    PROVE  /\ e \in FrameRecords /\ Alike(f, e) /\ e.children = f.children
           /\ e.notification = f.notification /\ e.calls = c
<1>1. c \in Partial(Nat, CallStates) BY RecordTypes, PartialFn
<1> QED BY <1>1 DEF FrameRecords, Alike

\* the states of the calls of one frame and the queue of cancellations
LEMMA TidyCalls ==
    ASSUME NEW b, NEW g, Core(g, b), NEW i \in Frames(g),
           NEW c \in [DOMAIN g.frames[i].calls -> CallStates], NEW q \in Seq(CallIds), NEW h,
           h = [g EXCEPT !.frames[i].calls = c, !.cancels = q]
    PROVE  Tidies(g, h) /\ Silent(g, h)
<1>1. /\ g \in Schedulers /\ g.frames \in [Frames(g) -> FrameRecords] /\ Frames(g) \subseteq Nat
      /\ g.frames[i] \in FrameRecords BY FrameTypes DEF Core
<1>2. PICK e : e = [g.frames[i] EXCEPT !.calls = c] OBVIOUS
<1>3. e \in FrameRecords /\ Alike(g.frames[i], e) /\ e.children = g.frames[i].children
      /\ e.notification = g.frames[i].notification
  <2>1. PICK f \in FrameRecords : f = g.frames[i] BY <1>1
  <2>2. c \in [DOMAIN f.calls -> CallStates] /\ e = [f EXCEPT !.calls = c] BY <2>1, <1>2
  <2>3. e \in FrameRecords /\ Alike(f, e) /\ e.children = f.children
        /\ e.notification = f.notification BY <2>2, CallsSet
  <2> QED BY <2>1, <2>3
<1>4. PICK F : F = [g.frames EXCEPT ![i] = e] OBVIOUS
<1>5. F \in [Frames(g) -> FrameRecords] BY <1>1, <1>3, <1>4
<1>15. F \in Partial(Nat, FrameRecords) /\ DOMAIN F = Frames(g) BY <1>1, <1>5, PartialFn
<1>6. h = [[g EXCEPT !.frames = F] EXCEPT !.cancels = q] BY <1>1, <1>2, <1>4 DEF Schedulers
<1>7. PICK k : k = [g EXCEPT !.frames = F] OBVIOUS
<1>8. /\ k \in Schedulers /\ Frames(k) = Frames(g) /\ k.frames = F
      /\ k.queued = g.queued /\ k.blocked = g.blocked /\ k.pending = g.pending
      /\ k.remaining = g.remaining /\ k.next = g.next /\ k.calls = g.calls
      /\ k.outcome = g.outcome
  BY <1>1, <1>15, <1>7 DEF Schedulers, Frames
<1>9. /\ h \in Schedulers /\ Frames(h) = Frames(g) /\ h.frames = F
      /\ h.queued = g.queued /\ h.blocked = g.blocked /\ h.pending = g.pending
      /\ h.remaining = g.remaining /\ h.next = g.next /\ h.calls = g.calls
      /\ h.outcome = g.outcome
  BY <1>6, <1>7, <1>8 DEF Schedulers, Frames
<1>10. ASSUME NEW j \in Frames(g)
       PROVE  /\ Alike(g.frames[j], F[j]) /\ F[j].children = g.frames[j].children
              /\ F[j].notification = g.frames[j].notification
  <2>1. CASE j = i BY <2>1, <1>1, <1>3, <1>4
  <2>2. CASE j # i
    <3>1. F[j] = g.frames[j] BY <2>2, <1>1, <1>4
    <3> QED BY <3>1 DEF Alike
  <2> QED BY <2>1, <2>2
<1>11. \A j \in Frames(g) : g.frames[j].children = g.frames[j].children \cap Frames(g)
  BY DEF Core, Tree
<1>12. Queues(h) BY <1>9 DEF Queues, Core
<1>13. Tidies(g, h) BY <1>9, <1>10, <1>11, <1>12 DEF Tidies
<1>14. Silent(g, h) BY <1>9, <1>10 DEF Silent
<1> QED BY <1>13, <1>14

LEMMA CancelIs ==
    ASSUME NEW b, NEW g, Core(g, b), NEW call \in CallIds
    PROVE  Tidies(g, cancel(g, call)) /\ Silent(g, cancel(g, call))
<1> DEFINE i == call.frame
           a == call.attempt
<1>1. CASE cancel(g, call) = g BY <1>1, TidyRefl, SilentRefl
<1>2. CASE cancel(g, call) # g
  <2>1. /\ i \in Frames(g) /\ a \in DOMAIN g.frames[i].calls
        /\ cancel(g, call) = [g EXCEPT !.frames[i].calls[a] = "CancelQueued",
                                       !.cancels = Append(@, call)]
    BY <1>2 DEF cancel, Has
  <2>2. g.cancels \in Seq(CallIds) /\ g.frames[i] \in FrameRecords
    BY <2>1, FrameTypes DEF Core
  <2>3. PICK c : c = [g.frames[i].calls EXCEPT ![a] = "CancelQueued"] OBVIOUS
  <2>4. c \in [DOMAIN g.frames[i].calls -> CallStates]
    <3>1. g.frames[i].calls \in [DOMAIN g.frames[i].calls -> CallStates]
      BY <2>2, RecordTypes
    <3> QED BY <3>1, <2>3 DEF CallStates
  <2>5. PICK q : q = Append(g.cancels, call) OBVIOUS
  <2>6. q \in Seq(CallIds) BY <2>2, <2>5
  <2>7. cancel(g, call) = [g EXCEPT !.frames[i].calls = c, !.cancels = q]
    BY <2>1, <2>3, <2>5
  <2> QED BY <2>1, <2>4, <2>6, <2>7, TidyCalls
<1> QED BY <1>1, <1>2

LEMMA ActiveCallsIs ==
    ASSUME NEW f \in FrameRecords, NEW id \in Nat
    PROVE  ActiveCalls(f, id) \in Seq(CallIds)
<1>1. f.generation \in Nat BY RecordTypes
<1>2. PICK n \in Nat : n = f.generation BY <1>1
<1>3. PICK s : s = [a \in 1..n |-> [frame |-> id, attempt |-> a]] OBVIOUS
<1>4. s \in [1..n -> CallIds] BY <1>3 DEF CallIds
<1>5. s \in Seq(CallIds) BY <1>4, SeqDef
<1>6. PICK K : K = {[frame |-> id, attempt |-> a] :
                        a \in {d \in DOMAIN f.calls : f.calls[d] = "Active"}} OBVIOUS
<1>7. ActiveCalls(f, id) = Keep(s, K) BY <1>2, <1>3, <1>6 DEF ActiveCalls
<1> QED BY <1>5, <1>7, KeepRange

LEMMA CancelCallsOfIs ==
    ASSUME NEW b, NEW g, Core(g, b), NEW id \in Frames(g)
    PROVE  Tidies(g, CancelCallsOf(g, id)) /\ Silent(g, CancelCallsOf(g, id))
<1>1. g.cancels \in Seq(CallIds) /\ g.frames[id] \in FrameRecords /\ id \in Nat
  BY FrameTypes DEF Core
<1>2. PICK c : c = [a \in DOMAIN g.frames[id].calls |->
                        IF g.frames[id].calls[a] = "Active" THEN "CancelQueued"
                        ELSE g.frames[id].calls[a]] OBVIOUS
<1>3. c \in [DOMAIN g.frames[id].calls -> CallStates]
  <2>1. g.frames[id].calls \in [DOMAIN g.frames[id].calls -> CallStates] BY <1>1, RecordTypes
  <2> QED BY <1>2, <2>1 DEF CallStates
<1>4. PICK q : q = g.cancels \o ActiveCalls(g.frames[id], id) OBVIOUS
<1>5. q \in Seq(CallIds)
  <2>1. ActiveCalls(g.frames[id], id) \in Seq(CallIds) BY <1>1, ActiveCallsIs
  <2> QED BY <1>1, <1>4, <2>1
<1>6. CancelCallsOf(g, id) = [g EXCEPT !.frames[id].calls = c, !.cancels = q]
  BY <1>2, <1>4 DEF CancelCallsOf
<1> QED BY <1>3, <1>5, <1>6, TidyCalls

\* f[n] is the scheduler after the first n frames
CancelFold(f, g, ids, n) ==
    f = [i \in 0..n |-> IF i = 0 THEN g ELSE CancelCallsOf(f[i - 1], ids[i])]

LEMMA CancelFoldExtends ==
    ASSUME NEW g, NEW ids, NEW n \in Nat, NEW f, CancelFold(f, g, ids, n)
    PROVE  \E e : CancelFold(e, g, ids, n + 1)
<1>1. PICK last : last = CancelCallsOf(f[n], ids[n + 1]) OBVIOUS
<1>2. PICK e : e = [i \in 0..(n + 1) |-> IF i = n + 1 THEN last ELSE f[i]] OBVIOUS
<1>3. ASSUME NEW i \in 0..(n + 1)
      PROVE  e[i] = IF i = 0 THEN g ELSE CancelCallsOf(e[i - 1], ids[i])
  <2>1. CASE i = n + 1
    <3>1. n \in 0..(n + 1) /\ n # n + 1 /\ i - 1 = n /\ i # 0 BY <2>1
    <3>2. e[i] = last /\ e[i - 1] = f[n] BY <2>1, <3>1, <1>2
    <3> QED BY <3>1, <3>2, <1>1, <2>1
  <2>2. CASE i = 0
    <3>1. e[0] = f[0] BY <1>2
    <3>2. f[0] = g BY DEF CancelFold
    <3> QED BY <3>1, <3>2, <2>2
  <2>3. CASE i \in 1..n
    <3>1. i \in 0..n /\ i - 1 \in 0..(n + 1) /\ i # n + 1 /\ i - 1 # n + 1 /\ i # 0 BY <2>3
    <3>2. e[i] = f[i] /\ e[i - 1] = f[i - 1] BY <3>1, <1>2
    <3>3. f[i] = CancelCallsOf(f[i - 1], ids[i]) BY <3>1 DEF CancelFold
    <3> QED BY <3>1, <3>2, <3>3
  <2> QED BY <2>1, <2>2, <2>3
<1>4. e = [i \in 0..(n + 1) |-> e[i]] BY <1>2
<1> QED BY <1>3, <1>4, Zenon DEF CancelFold

LEMMA CancelCallsIs ==
    ASSUME NEW g, NEW ids, Len(ids) \in Nat
    PROVE  \E f : /\ CancelCalls(g, ids) = f[Len(ids)] /\ f[0] = g
                  /\ \A i \in 1..Len(ids) : f[i] = CancelCallsOf(f[i - 1], ids[i])
<1>1. PICK T : T = {n \in Nat : \E f : CancelFold(f, g, ids, n)} OBVIOUS
<1>2. 0 \in T
  <2>1. PICK f : f = [i \in 0..0 |-> g] OBVIOUS
  <2>2. CancelFold(f, g, ids, 0) BY <2>1 DEF CancelFold
  <2> QED BY <1>1, <2>2
<1>3. ASSUME NEW n \in Nat, n \in T PROVE n + 1 \in T
  <2>1. PICK f : CancelFold(f, g, ids, n) BY <1>1, <1>3
  <2>2. PICK e : CancelFold(e, g, ids, n + 1) BY <2>1, CancelFoldExtends
  <2> QED BY <1>1, <2>2
<1>4. Nat \subseteq T BY <1>2, <1>3, Induction
<1>5. \E f : CancelFold(f, g, ids, Len(ids)) BY <1>1, <1>4
<1> DEFINE chosen == CHOOSE f : CancelFold(f, g, ids, Len(ids))
<1>6. CancelFold(chosen, g, ids, Len(ids)) BY <1>5
<1>7. CancelCalls(g, ids) = chosen[Len(ids)] BY Zenon DEF CancelCalls, CancelFold
<1> HIDE DEF chosen
<1>8. chosen[0] = g BY <1>6 DEF CancelFold
<1>9. ASSUME NEW i \in 1..Len(ids) PROVE chosen[i] = CancelCallsOf(chosen[i - 1], ids[i])
  <2>1. i \in 0..Len(ids) /\ i # 0 OBVIOUS
  <2> QED BY <2>1, <1>6 DEF CancelFold
<1> QED BY <1>7, <1>8, <1>9

LEMMA CancelCallsTidies ==
    ASSUME NEW b, NEW g, Core(g, b), NEW ids \in Seq(Nat), Range(ids) \subseteq Frames(g)
    PROVE  /\ Tidies(g, CancelCalls(g, ids)) /\ Silent(g, CancelCalls(g, ids))
           /\ Frames(CancelCalls(g, ids)) = Frames(g)
<1>1. Len(ids) \in Nat OBVIOUS
<1>2. PICK f : /\ CancelCalls(g, ids) = f[Len(ids)] /\ f[0] = g
               /\ \A i \in 1..Len(ids) : f[i] = CancelCallsOf(f[i - 1], ids[i])
  BY <1>1, CancelCallsIs
<1>3. \A i \in 1..Len(ids) : ids[i] \in Frames(g) BY ElementsOf
<1>4. PICK T : T = {n \in Nat : n <= Len(ids) =>
                       Tidies(g, f[n]) /\ Silent(g, f[n]) /\ Frames(f[n]) = Frames(g)} OBVIOUS
<1>5. 0 \in T BY <1>2, <1>4, TidyRefl, SilentRefl
<1>6. ASSUME NEW n \in Nat, n \in T PROVE n + 1 \in T
  <2>1. CASE n + 1 <= Len(ids)
    <3>1. n + 1 \in 1..Len(ids) /\ (n + 1) - 1 = n /\ n <= Len(ids) BY <1>1, <2>1
    <3>2. f[n + 1] = CancelCallsOf(f[n], ids[n + 1]) BY <3>1, <1>2
    <3>3. Tidies(g, f[n]) /\ Silent(g, f[n]) /\ Frames(f[n]) = Frames(g) BY <1>4, <1>6, <3>1
    <3>4. Core(f[n], b) BY <3>3, TidyCore
    <3>5. ids[n + 1] \in Frames(f[n]) BY <3>1, <3>3, <1>3
    <3>6. Tidies(f[n], f[n + 1]) /\ Silent(f[n], f[n + 1])
      BY <3>2, <3>4, <3>5, CancelCallsOfIs
    <3>7. Tidies(g, f[n + 1]) /\ Silent(g, f[n + 1]) BY <3>3, <3>6, TidyTrans, SilentTrans
    <3>8. Frames(f[n + 1]) = Frames(f[n]) BY <3>2 DEF CancelCallsOf, Frames
    <3> QED BY <3>3, <3>7, <3>8, <1>4
  <2> QED BY <2>1, <1>4
<1>7. Nat \subseteq T BY <1>5, <1>6, Induction
<1> QED BY <1>1, <1>2, <1>4, <1>7

LEMMA DropStaleIs ==
    ASSUME NEW b, NEW g, Core(g, b)
    PROVE  Tidies(g, DropStale(g)) /\ Silent(g, DropStale(g))
<1>1. g \in Schedulers /\ g.cancels \in Seq(CallIds) BY FrameTypes DEF Core
<1>2. PICK due : due = {i \in DOMAIN g.cancels : Unissued(g, g.cancels[i])} OBVIOUS
<1>9. PICK first : first = CHOOSE i \in due : \A j \in due : i <= j OBVIOUS
<1>3. PICK q : q = IF due = {} THEN <<>> ELSE SubSeq(g.cancels, first, Len(g.cancels)) OBVIOUS
<1>4. DropStale(g) = [g EXCEPT !.cancels = q] BY <1>2, <1>3, <1>9 DEF DropStale
<1>5. q \in Seq(CallIds)
  <2>1. CASE due = {} BY <2>1, <1>3
  <2>2. CASE due # {}
    <3>1. due \subseteq 1..Len(g.cancels) BY <1>1, <1>2
    <3>2. due \subseteq Nat BY <3>1
    <3>3. first \in due
      <4>1. \E n \in due : \A m \in due : n <= m BY <2>2, <3>2, LeastNat
      <4> QED BY <4>1, <1>9
    <3> QED BY <2>2, <3>1, <3>3, <1>1, <1>3
  <2> QED BY <2>1, <2>2
<1>6. PICK h : h = [g EXCEPT !.cancels = q] OBVIOUS
<1>7. /\ h \in Schedulers /\ Frames(h) = Frames(g) /\ h.frames = g.frames
      /\ h.queued = g.queued /\ h.blocked = g.blocked /\ h.pending = g.pending
      /\ h.remaining = g.remaining /\ h.next = g.next /\ h.calls = g.calls
      /\ h.outcome = g.outcome BY <1>1, <1>5, <1>6 DEF Schedulers, Frames
<1>8. Queues(h) BY <1>7 DEF Queues, Core
<1> QED BY <1>4, <1>6, <1>7, <1>8, TidyQueues

-----------------------------------------------------------------------------
(* Ancestors.                                                               *)

Above(g, S) == \A x \in S : g.frames[x].parent.frame \in Frames(g) => g.frames[x].parent.frame \in S

\* the least set of frames with i that is closed under parents
Ancestors(g, i) == {a \in Frames(g) : \A S \in SUBSET Frames(g) : i \in S /\ Above(g, S) => a \in S}

LEMMA AncestorsStep ==
    ASSUME NEW g, NEW i \in Frames(g)
    PROVE  LET p == g.frames[i].parent.frame
           IN Ancestors(g, i) = {i} \cup (IF p \in Frames(g) THEN Ancestors(g, p) ELSE {})
<1> DEFINE p == g.frames[i].parent.frame
           R == {i} \cup (IF p \in Frames(g) THEN Ancestors(g, p) ELSE {})
<1>1. ASSUME NEW a \in R PROVE a \in Ancestors(g, i)
  <2>1. CASE a = i BY <2>1 DEF Ancestors
  <2>2. CASE a # i
    <3>1. p \in Frames(g) /\ a \in Ancestors(g, p) BY <1>1, <2>2
    <3>2. ASSUME NEW S \in SUBSET Frames(g), i \in S, Above(g, S) PROVE a \in S
      <4>1. p \in S BY <3>1, <3>2 DEF Above
      <4> QED BY <3>1, <3>2, <4>1 DEF Ancestors
    <3> QED BY <3>1, <3>2 DEF Ancestors
  <2> QED BY <2>1, <2>2
<1>2. R \in SUBSET Frames(g) BY DEF Ancestors
<1>3. Above(g, R)
  <2> SUFFICES ASSUME NEW x \in R, g.frames[x].parent.frame \in Frames(g)
               PROVE  g.frames[x].parent.frame \in R
    BY DEF Above
  <2> DEFINE q == g.frames[x].parent.frame
  <2>1. CASE x = i
    <3>1. p \in Frames(g) BY <2>1
    <3>2. p \in Ancestors(g, p) BY <3>1 DEF Ancestors
    <3> QED BY <2>1, <3>1, <3>2
  <2>2. CASE x # i
    <3>1. p \in Frames(g) /\ x \in Ancestors(g, p) BY <2>2
    <3>2. ASSUME NEW S \in SUBSET Frames(g), p \in S, Above(g, S) PROVE q \in S
      <4>1. x \in S BY <3>1, <3>2 DEF Ancestors
      <4> QED BY <4>1, <3>2 DEF Above
    <3>3. q \in Ancestors(g, p) BY <3>2 DEF Ancestors
    <3> QED BY <3>1, <3>3
  <2> QED BY <2>1, <2>2
<1>4. ASSUME NEW a \in Ancestors(g, i) PROVE a \in R
  <2>1. i \in R OBVIOUS
  <2> HIDE DEF R
  <2> QED BY <1>2, <1>3, <1>4, <2>1 DEF Ancestors
<1> HIDE DEF R
<1>5. Ancestors(g, i) = R BY <1>1, <1>4
<1> QED BY <1>5 DEF R

LEMMA ChainStep ==
    ASSUME NEW g, NEW i \in Frames(g)
    PROVE  LET p == g.frames[i].parent.frame
           IN Chain(g, i) = {i} \cup (IF p \in Frames(g) THEN Chain(g, p) ELSE {})
<1> DEFINE Up(u) == u = [j \in Frames(g) |->
                LET p == g.frames[j].parent.frame
                IN {j} \cup (IF p \in Frames(g) THEN u[p] ELSE {})]
           up == CHOOSE u : Up(u)
<1>1. PICK u : u = [j \in Frames(g) |-> Ancestors(g, j)] OBVIOUS
<1>2. Up(u)
  <2>1. \A j \in Frames(g) : u[j] = {j} \cup
           (IF g.frames[j].parent.frame \in Frames(g) THEN u[g.frames[j].parent.frame] ELSE {})
    BY <1>1, AncestorsStep
  <2>2. u = [j \in Frames(g) |-> u[j]] BY <1>1
  <2> QED BY <2>1, <2>2, Zenon
<1>3. Up(up) BY <1>2
<1>4. \A j \in Frames(g) : Chain(g, j) = up[j] BY Zenon DEF Chain, Has
<1> HIDE DEF up
<1>5. \A j \in Frames(g) : up[j] = {j} \cup
          (IF g.frames[j].parent.frame \in Frames(g) THEN up[g.frames[j].parent.frame] ELSE {})
  BY <1>3
<1> QED BY <1>4, <1>5

LEMMA ChainIs ==
    ASSUME NEW b, NEW g, Core(g, b), NEW id
    PROVE  Chain(g, id) \subseteq Frames(g)
<1>1. CASE ~Has(g, id) BY <1>1 DEF Chain
<1>2. CASE Has(g, id)
  <2>1. Frames(g) \subseteq Nat BY FrameTypes DEF Core
  <2> DEFINE B == {i \in Frames(g) : ~(Chain(g, i) \subseteq Frames(g))}
  <2>2. CASE B = {} BY <2>2, <1>2 DEF Has
  <2>3. CASE B # {}
    <3>1. PICK i \in B : \A j \in B : i <= j
      <4>1. B \subseteq Nat BY <2>1
      <4> HIDE DEF B
      <4> QED BY <2>3, <4>1, LeastNat
    <3>2. i \in Frames(g) /\ ~(Chain(g, i) \subseteq Frames(g)) OBVIOUS
    <3> DEFINE p == g.frames[i].parent.frame
    <3>3. Chain(g, i) = {i} \cup (IF p \in Frames(g) THEN Chain(g, p) ELSE {})
      BY <3>2, ChainStep
    <3>4. p \in Frames(g) => p < i
      <4>1. CASE i = ROOT
        <5>1. p = -1 BY <4>1, <3>2 DEF Core, Tree, NoParent
        <5> QED BY <5>1, <2>1
      <4>2. CASE i # ROOT BY <4>2, <3>2 DEF Core, Tree
      <4> QED BY <4>1, <4>2
    <3>5. p \in Frames(g) => p \notin B BY <3>1, <3>2, <3>4, <2>1
    <3>6. p \in Frames(g) => Chain(g, p) \subseteq Frames(g) BY <3>5
    <3> QED BY <3>2, <3>3, <3>6
  <2> QED BY <2>2, <2>3
<1> QED BY <1>1, <1>2

\* the frames below S: S and the children of frames below S
LEMMA BelowIs ==
    ASSUME NEW b, NEW g, Core(g, b), NEW S, S \subseteq Frames(g)
    PROVE  /\ S \subseteq Below(g, S) /\ Below(g, S) \subseteq Frames(g)
           /\ \A i \in Frames(g) : \A c \in g.frames[i].children :
                 i \in Below(g, S) => c \in Below(g, S)
           /\ \A i \in Below(g, S) \ S : g.frames[i].parent.frame \in Below(g, S)
<1>1. \A i \in S : i \in Chain(g, i) BY ChainStep
<1>2. S \subseteq Below(g, S) BY <1>1 DEF Below
<1>3. ASSUME NEW i \in Frames(g), NEW c \in g.frames[i].children, i \in Below(g, S)
      PROVE  c \in Below(g, S)
  <2>1. c \in Frames(g) /\ g.frames[c].parent.frame = i BY DEF Core, Tree
  <2>2. Chain(g, i) \subseteq Chain(g, c) BY <2>1, ChainStep
  <2> QED BY <2>1, <2>2, <1>3 DEF Below
<1>4. ASSUME NEW i \in Below(g, S) \ S PROVE g.frames[i].parent.frame \in Below(g, S)
  <2> DEFINE p == g.frames[i].parent.frame
  <2>1. i \in Frames(g) /\ Chain(g, i) \cap S # {} BY DEF Below
  <2>2. Chain(g, i) = {i} \cup (IF p \in Frames(g) THEN Chain(g, p) ELSE {}) BY <2>1, ChainStep
  <2>3. p \in Frames(g) /\ Chain(g, p) \cap S # {} BY <2>1, <2>2
  <2> QED BY <2>3 DEF Below
<1> QED BY <1>2, <1>3, <1>4 DEF Below

-----------------------------------------------------------------------------
(* Removing what is spent.                                                  *)

LEMMA UnlinkIs ==
    ASSUME NEW b, NEW g, Core(g, b), NEW G, G \subseteq Frames(g),
           \A i \in G : Retirable(g, i) /\ g.frames[i].children \subseteq G
    PROVE  /\ Tidies(g, Unlink(g, G)) /\ Silent(g, Unlink(g, G))
           /\ Frames(Unlink(g, G)) = Frames(g) \ G
<1>1. /\ g \in Schedulers /\ g.frames \in [Frames(g) -> FrameRecords] /\ Frames(g) \subseteq Nat
      /\ g.blocked \in Partial(Nat, {"Local", "Global"}) BY FrameTypes DEF Core
<1>2. PICK F : F = [i \in Frames(g) \ G |-> [g.frames[i] EXCEPT !.children = @ \ G]] OBVIOUS
<1>3. ASSUME NEW i \in Frames(g) \ G
      PROVE  /\ F[i] \in FrameRecords /\ F[i].children = g.frames[i].children \ G
             /\ F[i].notification = g.frames[i].notification /\ Alike(g.frames[i], F[i])
  <2>1. PICK f \in FrameRecords : f = g.frames[i] BY <1>1
  <2>2. f.children \ G \in SUBSET Nat BY <2>1, RecordTypes
  <2>3. F[i] = [f EXCEPT !.children = @ \ G] BY <2>1, <1>2
  <2>4. F[i] \in FrameRecords BY <2>2, <2>3 DEF FrameRecords
  <2>5. /\ F[i].children = f.children \ G
        /\ F[i].notification = f.notification /\ Alike(f, F[i])
    BY <2>3 DEF FrameRecords, Alike
  <2> QED BY <2>1, <2>4, <2>5
<1>4. F \in Partial(Nat, FrameRecords) /\ DOMAIN F = Frames(g) \ G
  <2>1. F \in [Frames(g) \ G -> FrameRecords] BY <1>2, <1>3
  <2> QED BY <2>1, <1>1, PartialFn
<1>5. PICK w : w = Drop(g.blocked, G) OBVIOUS
<1>6. w \in Partial(Nat, {"Local", "Global"}) /\ DOMAIN w \subseteq DOMAIN g.blocked \ G
  <2>1. DOMAIN g.blocked \subseteq Nat /\ g.blocked \in [DOMAIN g.blocked -> {"Local", "Global"}]
    BY <1>1, PartialFn
  <2>2. w = [x \in DOMAIN g.blocked \ G |-> g.blocked[x]] BY <1>5 DEF Drop, Restrict
  <2>3. w \in [DOMAIN g.blocked \ G -> {"Local", "Global"}] BY <2>1, <2>2
  <2>4. DOMAIN w = DOMAIN g.blocked \ G BY <2>2
  <2> QED BY <2>1, <2>3, <2>4, PartialFn
<1>7. PICK h : h = Unlink(g, G) OBVIOUS
<1>8. h = [g EXCEPT !.frames = F, !.queued = @ \ G, !.blocked = w]
  BY <1>2, <1>5, <1>7 DEF Unlink
<1>9. /\ h.frames = F /\ h.queued = g.queued \ G /\ h.blocked = w
      /\ h.pending = g.pending /\ h.remaining = g.remaining /\ h.next = g.next
      /\ h.calls = g.calls /\ h.outcome = g.outcome /\ Frames(h) = Frames(g) \ G
  BY <1>1, <1>4, <1>8 DEF Schedulers, Frames
<1>10. h \in Schedulers
  <2>1. g.queued \ G \in SUBSET Nat BY <1>1 DEF Schedulers
  <2> QED BY <1>1, <1>4, <1>6, <1>8, <2>1 DEF Schedulers
<1>11. Queues(h) BY <1>6, <1>9 DEF Queues, Core
<1>12. ASSUME NEW i \in Frames(h)
       PROVE  Alike(g.frames[i], h.frames[i])
              /\ h.frames[i].children = g.frames[i].children \cap Frames(h)
  <2>1. i \in Frames(g) \ G /\ h.frames[i] = F[i] BY <1>9
  <2>2. g.frames[i].children \subseteq Frames(g) BY <2>1 DEF Core, Tree
  <2> QED BY <2>1, <2>2, <1>3, <1>9
<1>13. ASSUME NEW i \in G
       PROVE  Spendable(g.frames[i]) /\ g.frames[i].children \cap Frames(h) = {}
              /\ g.frames[i].notification # "Queued"
  <2>1. Retirable(g, i) /\ g.frames[i].children \subseteq G OBVIOUS
  <2>2. DOMAIN g.frames[i].calls = {} BY <2>1 DEF Retirable, Empty
  <2>3. g.frames[i].notification = "Emitted" \/ g.frames[i].cancelling
    BY <2>1 DEF Retirable, Core, Halted
  <2> QED BY <2>1, <2>2, <2>3, <1>9 DEF Retirable, Spendable
<1>14. Tidies(g, h)
  <2>1. Frames(g) \ Frames(h) = G BY <1>9
  <2>2. Frames(h) \subseteq Frames(g) BY <1>9
  <2> QED BY <1>9, <1>10, <1>11, <1>12, <1>13, <2>1, <2>2 DEF Tidies
<1>15. Silent(g, h)
  <2>1. Frames(g) \ Frames(h) = G BY <1>9
  <2>2. ASSUME NEW i \in Frames(h) PROVE h.frames[i].notification = g.frames[i].notification
    BY <1>3, <1>9
  <2> QED BY <1>9, <1>13, <2>1, <2>2 DEF Silent
<1> QED BY <1>7, <1>9, <1>14, <1>15

LEMMA PruneIs ==
    ASSUME NEW b, NEW g, Core(g, b), NEW id
    PROVE  /\ Tidies(g, prune(g, id)) /\ Silent(g, prune(g, id))
           /\ ~Has(g, id) => Frames(prune(g, id)) = Frames(g)
<1>1. PICK C : C = Chain(g, id) OBVIOUS
<1>2. PICK G : G = Spent(g, C) OBVIOUS
<1>3. C \subseteq Frames(g) BY <1>1, ChainIs
<1>4. Frames(g) \subseteq Nat /\ g.next \in Nat BY FrameTypes DEF Core
<1>5. PICK O : O = {g.frames[i].parent.frame : i \in G} \cap Frames(g) OBVIOUS
<1>6. PICK ids : ids = Descending(g, O) OBVIOUS
<1>7. ids \in Seq(Nat)
  <2>1. O \subseteq 0..(g.next - 1) BY <1>4, <1>5 DEF Core, Tree
  <2> QED BY <2>1, <1>4, <1>6, DescendingIs
<1>8. PICK k : k = EnqueueAll(g, ids) OBVIOUS
<1>9. prune(g, id) = Unlink(k, G)
  BY <1>1, <1>2, <1>5, <1>6, <1>8 DEF prune, RemoveSpent, WakeOwners
<1>10. Tidies(g, k) /\ Silent(g, k) BY <1>7, <1>8, EnqueueAllIs
<1>11. Core(k, b) BY <1>10, TidyCore
<1>12. k.frames = g.frames /\ Frames(k) = Frames(g) /\ k.outcome = g.outcome
  BY <1>8 DEF EnqueueAll, Frames, Core, Schedulers
<1>13. ASSUME NEW i \in G PROVE i \in Frames(k) /\ Retirable(k, i) /\ k.frames[i].children \subseteq G
  <2>1. i \in C /\ \A x \in C : x >= i => Retirable(g, x) /\ g.frames[x].children \subseteq C
    BY <1>2 DEF Spent
  <2>2. i \in Frames(g) /\ i \in Nat /\ i >= i BY <2>1, <1>3, <1>4
  <2>3. Retirable(g, i) /\ g.frames[i].children \subseteq C BY <2>1, <2>2
  <2>4. Retirable(k, i) BY <2>3, <1>12 DEF Retirable
  <2>5. ASSUME NEW c \in g.frames[i].children PROVE c \in G
    <3>1. c \in C /\ c \in Frames(g) BY <2>3, <1>3
    <3>2. c # ROOT /\ g.frames[c].parent.frame = i BY <2>2 DEF Core, Tree
    <3>3. i < c BY <3>1, <3>2 DEF Core, Tree
    <3>4. \A x \in C : x >= c => x >= i BY <3>3, <3>1, <1>3, <1>4, <2>2
    <3> QED BY <3>1, <3>4, <2>1, <1>2 DEF Spent
  <2> QED BY <2>2, <2>4, <2>5, <1>12
<1>14. /\ Tidies(k, Unlink(k, G)) /\ Silent(k, Unlink(k, G))
       /\ Frames(Unlink(k, G)) = Frames(k) \ G BY <1>11, <1>13, UnlinkIs
<1>15. ~Has(g, id) => G = {} BY <1>1, <1>2 DEF Chain, Spent
<1>16. Tidies(g, Unlink(k, G)) /\ Silent(g, Unlink(k, G))
  BY <1>10, <1>14, TidyTrans, SilentTrans
<1> QED BY <1>9, <1>12, <1>14, <1>15, <1>16

\* f[n] is the scheduler after the first n frames
PruneFold(f, g, ids, n) ==
    f = [i \in 0..n |-> IF i = 0 THEN g ELSE prune(f[i - 1], ids[i])]

LEMMA PruneFoldExtends ==
    ASSUME NEW g, NEW ids, NEW n \in Nat, NEW f, PruneFold(f, g, ids, n)
    PROVE  \E e : PruneFold(e, g, ids, n + 1)
<1>1. PICK last : last = prune(f[n], ids[n + 1]) OBVIOUS
<1>2. PICK e : e = [i \in 0..(n + 1) |-> IF i = n + 1 THEN last ELSE f[i]] OBVIOUS
<1>3. ASSUME NEW i \in 0..(n + 1)
      PROVE  e[i] = IF i = 0 THEN g ELSE prune(e[i - 1], ids[i])
  <2>1. CASE i = n + 1
    <3>1. n \in 0..(n + 1) /\ n # n + 1 /\ i - 1 = n /\ i # 0 BY <2>1
    <3>2. e[i] = last /\ e[i - 1] = f[n] BY <2>1, <3>1, <1>2
    <3> QED BY <3>1, <3>2, <1>1, <2>1
  <2>2. CASE i = 0
    <3>1. e[0] = f[0] BY <1>2
    <3>2. f[0] = g BY DEF PruneFold
    <3> QED BY <3>1, <3>2, <2>2
  <2>3. CASE i \in 1..n
    <3>1. i \in 0..n /\ i - 1 \in 0..(n + 1) /\ i # n + 1 /\ i - 1 # n + 1 /\ i # 0 BY <2>3
    <3>2. e[i] = f[i] /\ e[i - 1] = f[i - 1] BY <3>1, <1>2
    <3>3. f[i] = prune(f[i - 1], ids[i]) BY <3>1 DEF PruneFold
    <3> QED BY <3>1, <3>2, <3>3
  <2> QED BY <2>1, <2>2, <2>3
<1>4. e = [i \in 0..(n + 1) |-> e[i]] BY <1>2
<1> QED BY <1>3, <1>4, Zenon DEF PruneFold

LEMMA PruneAllIs ==
    ASSUME NEW g, NEW ids, Len(ids) \in Nat
    PROVE  \E f : /\ PruneAll(g, ids) = f[Len(ids)] /\ f[0] = g
                  /\ \A i \in 1..Len(ids) : f[i] = prune(f[i - 1], ids[i])
<1>1. PICK T : T = {n \in Nat : \E f : PruneFold(f, g, ids, n)} OBVIOUS
<1>2. 0 \in T
  <2>1. PICK f : f = [i \in 0..0 |-> g] OBVIOUS
  <2>2. PruneFold(f, g, ids, 0) BY <2>1 DEF PruneFold
  <2> QED BY <1>1, <2>2
<1>3. ASSUME NEW n \in Nat, n \in T PROVE n + 1 \in T
  <2>1. PICK f : PruneFold(f, g, ids, n) BY <1>1, <1>3
  <2>2. PICK e : PruneFold(e, g, ids, n + 1) BY <2>1, PruneFoldExtends
  <2> QED BY <1>1, <2>2
<1>4. Nat \subseteq T BY <1>2, <1>3, Induction
<1>5. \E f : PruneFold(f, g, ids, Len(ids)) BY <1>1, <1>4
<1> DEFINE chosen == CHOOSE f : PruneFold(f, g, ids, Len(ids))
<1>6. PruneFold(chosen, g, ids, Len(ids)) BY <1>5
<1>7. PruneAll(g, ids) = chosen[Len(ids)] BY Zenon DEF PruneAll, PruneFold
<1> HIDE DEF chosen
<1>8. chosen[0] = g BY <1>6 DEF PruneFold
<1>9. ASSUME NEW i \in 1..Len(ids) PROVE chosen[i] = prune(chosen[i - 1], ids[i])
  <2>1. i \in 0..Len(ids) /\ i # 0 OBVIOUS
  <2> QED BY <2>1, <1>6 DEF PruneFold
<1> QED BY <1>7, <1>8, <1>9

LEMMA PruneAllTidies ==
    ASSUME NEW b, NEW g, Core(g, b), NEW ids \in Seq(Nat)
    PROVE  Tidies(g, PruneAll(g, ids)) /\ Silent(g, PruneAll(g, ids))
<1>1. Len(ids) \in Nat OBVIOUS
<1>2. PICK f : /\ PruneAll(g, ids) = f[Len(ids)] /\ f[0] = g
               /\ \A i \in 1..Len(ids) : f[i] = prune(f[i - 1], ids[i])
  BY <1>1, PruneAllIs
<1>4. PICK T : T = {n \in Nat : n <= Len(ids) => Tidies(g, f[n]) /\ Silent(g, f[n])} OBVIOUS
<1>5. 0 \in T BY <1>2, <1>4, TidyRefl, SilentRefl
<1>6. ASSUME NEW n \in Nat, n \in T PROVE n + 1 \in T
  <2>1. CASE n + 1 <= Len(ids)
    <3>1. n + 1 \in 1..Len(ids) /\ (n + 1) - 1 = n /\ n <= Len(ids) BY <1>1, <2>1
    <3>2. f[n + 1] = prune(f[n], ids[n + 1]) BY <3>1, <1>2
    <3>3. Tidies(g, f[n]) /\ Silent(g, f[n]) BY <1>4, <1>6, <3>1
    <3>4. Core(f[n], b) BY <3>3, TidyCore
    <3>5. Tidies(f[n], f[n + 1]) /\ Silent(f[n], f[n + 1]) BY <3>2, <3>4, PruneIs
    <3>6. Tidies(g, f[n + 1]) /\ Silent(g, f[n + 1]) BY <3>3, <3>5, TidyTrans, SilentTrans
    <3> QED BY <3>6, <1>4
  <2> QED BY <2>1, <1>4
<1>7. Nat \subseteq T BY <1>5, <1>6, Induction
<1> QED BY <1>1, <1>2, <1>4, <1>7

-----------------------------------------------------------------------------
(* Telling the parents.                                                     *)

\* nobody new is reported, by a notice or by being removed
Quiet(g, h) ==
    \A i \in Frames(g) \ {ROOT} :
        i \notin Frames(h) \/ h.frames[i].notification = "Emitted" => g.frames[i].notification = "Emitted"

\* the cancelled frames of S have still to queue their notices
Due(g, S) ==
    /\ \A i \in Frames(g) :
          /\ g.frames[i].cancelling =>
                Outcome(g.frames[i]) # None /\ (i # ROOT /\ g.frames[i].notification = "Waiting" => i \in S)
          /\ g.frames[i].notification # "Waiting" => i # ROOT /\ Outcome(g.frames[i]) # None
    /\ Range(g.pending) = {i \in Frames(g) : g.frames[i].notification = "Queued"}
    /\ \A m, n \in 1..Len(g.pending) :
          m <= n => g.frames[g.pending[n]].parent.frame # g.pending[m]
    /\ IsInjective(g.pending)
    /\ \A i \in Untold(g, S) : g.frames[i].parent.frame \in Frames(g) =>
                                  g.frames[g.frames[i].parent.frame].notification # "Queued"

LEMMA QuietTrans ==
    ASSUME NEW g, NEW h, NEW k, Frames(k) \subseteq Frames(h), Quiet(g, h), Quiet(h, k)
    PROVE  Quiet(g, k)
BY DEF Quiet

LEMMA SilentQuiet ==
    ASSUME NEW g \in Schedulers, NEW h, Notified(g), Tidies(g, h), Silent(g, h)
    PROVE  Quiet(g, h)
<1> SUFFICES ASSUME NEW i \in Frames(g) \ {ROOT},
                    i \notin Frames(h) \/ h.frames[i].notification = "Emitted"
             PROVE  g.frames[i].notification = "Emitted"
  BY DEF Quiet
<1>1. CASE i \in Frames(h) BY <1>1 DEF Silent
<1>2. CASE i \notin Frames(h)
  <2>1. g.frames[i].notification # "Queued" /\ Spendable(g.frames[i])
    BY <1>2 DEF Silent, Tidies
  <2>2. g.frames[i].cancelling => g.frames[i].notification # "Waiting" BY DEF Notified
  <2>3. g.frames[i].notification \in {"Waiting", "Queued", "Emitted"}
    BY FrameTypes, RecordTypes
  <2> QED BY <2>1, <2>2, <2>3 DEF Spendable
<1> QED BY <1>1, <1>2

LEMMA NoticesAre ==
    ASSUME NEW b, NEW g, Core(g, b), NEW S, S \subseteq Frames(g), Due(g, S)
    PROVE  LET h == Notices(g, S)
           IN /\ Tidies(g, h) /\ Notified(h) /\ Quiet(g, h) /\ Frames(h) = Frames(g)
<1>1. /\ g \in Schedulers /\ g.frames \in [Frames(g) -> FrameRecords] /\ Frames(g) \subseteq Nat
      /\ g.next \in Nat /\ g.pending \in Seq(Nat)
      /\ \A i \in Frames(g) : g.frames[i] \in FrameRecords
  BY FrameTypes DEF Core
<1>2. PICK U : U = Untold(g, S) OBVIOUS
<1>3. ASSUME NEW i \in U
      PROVE  /\ i \in Frames(g) /\ i # ROOT /\ g.frames[i].notification = "Waiting"
             /\ g.frames[i].cancelling /\ Outcome(g.frames[i]) # None
             /\ g.frames[i].parent.frame \in Frames(g)
             /\ g.frames[i].parent.frame < i
             /\ g.frames[g.frames[i].parent.frame].notification # "Queued"
  <2>1. /\ i \in Frames(g) /\ g.frames[i].notification = "Waiting" /\ g.frames[i].cancelling
        /\ Outcome(g.frames[i]) # None /\ g.frames[i].parent # NoParent
    BY <1>2 DEF Untold
  <2>2. i # ROOT BY <2>1 DEF Core, Tree
  <2>3. g.frames[i].parent.frame \in Frames(g) /\ g.frames[i].parent.frame < i
    BY <2>1, <2>2 DEF Core, Tree
  <2> QED BY <2>1, <2>2, <2>3, <1>2 DEF Due
<1>4. PICK t : t = Descending(g, U) OBVIOUS
<1>5. /\ t \in Seq(Nat) /\ Range(t) = U /\ IsInjective(t)
      /\ \A i, j \in 1..Len(t) : i < j => t[i] > t[j]
  <2>1. U \subseteq 0..(g.next - 1) BY <1>1, <1>3 DEF Core, Tree
  <2> QED BY <2>1, <1>1, <1>4, DescendingIs
<1>6. PICK F : F = [i \in Frames(g) |->
                 IF i \in U THEN [g.frames[i] EXCEPT !.notification = "Queued"]
                            ELSE g.frames[i]] OBVIOUS
<1>7. PICK q : q = g.pending \o t OBVIOUS
<1>8. PICK h : h = Notices(g, S) OBVIOUS
<1>9. h = [g EXCEPT !.frames = F, !.pending = q]
  BY <1>2, <1>4, <1>6, <1>7, <1>8 DEF Notices, QueueNotices
<1>10. ASSUME NEW i \in Frames(g)
       PROVE  /\ F[i] \in FrameRecords /\ Alike(g.frames[i], F[i])
              /\ F[i].children = g.frames[i].children
              /\ F[i].notification = IF i \in U THEN "Queued" ELSE g.frames[i].notification
  <2>1. PICK f \in FrameRecords : f = g.frames[i] BY <1>1
  <2>2. CASE i \in U
    <3>1. F[i] = [f EXCEPT !.notification = "Queued"] BY <2>1, <2>2, <1>6
    <3>2. f.cancelling /\ f.notification = "Waiting" BY <1>3, <2>1, <2>2
    <3> QED BY <3>1, <3>2, <2>1, <2>2 DEF FrameRecords, Alike
  <2>3. CASE i \notin U
    <3>1. F[i] = f BY <2>1, <2>3, <1>6
    <3> QED BY <3>1, <2>1, <2>3 DEF Alike
  <2> QED BY <2>2, <2>3
<1>11. q \in Seq(Nat) BY <1>1, <1>5, <1>7
<1>12. F \in Partial(Nat, FrameRecords) /\ DOMAIN F = Frames(g)
  <2>1. F \in [Frames(g) -> FrameRecords] BY <1>6, <1>10
  <2> QED BY <2>1, <1>1, PartialFn
<1>13. /\ h \in Schedulers /\ h.frames = F /\ Frames(h) = Frames(g) /\ h.pending = q
       /\ h.queued = g.queued /\ h.blocked = g.blocked /\ h.remaining = g.remaining
       /\ h.next = g.next /\ h.calls = g.calls /\ h.outcome = g.outcome
  BY <1>1, <1>9, <1>11, <1>12 DEF Schedulers, Frames
<1>14. Tidies(g, h)
  <2>1. \A i \in Frames(g) : g.frames[i].children = g.frames[i].children \cap Frames(g)
    BY DEF Core, Tree
  <2>2. Queues(h) BY <1>13 DEF Queues, Core
  <2> QED BY <1>10, <1>13, <2>1, <2>2 DEF Tidies
<1>15. Quiet(g, h) BY <1>10, <1>13 DEF Quiet
<1>16. ASSUME NEW i \in Frames(h)
       PROVE  /\ h.frames[i].cancelling = g.frames[i].cancelling
              /\ Outcome(h.frames[i]) = Outcome(g.frames[i])
              /\ h.frames[i].parent = g.frames[i].parent
              /\ h.frames[i].notification = IF i \in U THEN "Queued" ELSE g.frames[i].notification
  BY <1>10, <1>13 DEF Alike, Outcome
<1>17. ASSUME NEW i \in Frames(h)
       PROVE  /\ h.frames[i].cancelling =>
                     Outcome(h.frames[i]) # None /\ (i # ROOT => h.frames[i].notification # "Waiting")
              /\ h.frames[i].notification # "Waiting" => i # ROOT /\ Outcome(h.frames[i]) # None
  <2>1. i \in Frames(g) BY <1>13
  <2>2. CASE i \in U BY <2>2, <1>3, <1>16
  <2>3. CASE i \notin U
    <3>1. ASSUME g.frames[i].cancelling, i # ROOT, g.frames[i].notification = "Waiting"
          PROVE  FALSE
      <4>1. i \in S /\ Outcome(g.frames[i]) # None BY <2>1, <3>1 DEF Due
      <4>2. g.frames[i].parent # NoParent
        <5>1. g.frames[i].parent.frame \in Frames(g) BY <2>1, <3>1 DEF Core, Tree
        <5>2. -1 \notin Nat OBVIOUS
        <5> QED BY <5>1, <5>2, <1>1 DEF NoParent
      <4> QED BY <4>1, <4>2, <3>1, <2>3, <1>2 DEF Untold
    <3> QED BY <3>1, <2>1, <2>3, <1>16 DEF Due
  <2> QED BY <2>2, <2>3
<1>18. \A x : x \in Range(q) <=> x \in Range(g.pending) \/ x \in Range(t)
  <2>1. \A x : x \in Range(q) <=> \E i \in 1..Len(q) : q[i] = x BY <1>11, ElementsOf
  <2>2. \A x : x \in Range(t) <=> \E i \in 1..Len(t) : t[i] = x BY <1>5, ElementsOf
  <2>3. \A x : x \in Range(g.pending) <=> \E i \in 1..Len(g.pending) : g.pending[i] = x
    BY <1>1, ElementsOf
  <2>4. PICK m \in Nat : m = Len(g.pending) BY <1>1
  <2>5. PICK n \in Nat : n = Len(t) BY <1>5
  <2>6. Len(q) = m + n BY <1>1, <1>5, <1>7, <2>4, <2>5
  <2>7. \A i \in 1..m : q[i] = g.pending[i] BY <1>1, <1>5, <1>7, <2>4
  <2>8. \A i \in 1..n : q[m + i] = t[i] BY <1>1, <1>5, <1>7, <2>4, <2>5
  <2>9. ASSUME NEW x, x \in Range(q) PROVE x \in Range(g.pending) \/ x \in Range(t)
    <3>1. PICK i \in 1..(m + n) : q[i] = x BY <2>1, <2>6, <2>9
    <3>2. CASE i <= m BY <3>1, <3>2, <2>3, <2>4, <2>7
    <3>3. CASE i > m
      <4>1. i - m \in 1..n /\ m + (i - m) = i BY <3>3
      <4>2. t[i - m] = x BY <4>1, <3>1, <2>8
      <4> QED BY <4>1, <4>2, <2>2, <2>5
    <3> QED BY <3>2, <3>3
  <2>10. ASSUME NEW x, x \in Range(g.pending) \/ x \in Range(t) PROVE x \in Range(q)
    <3>1. CASE x \in Range(g.pending)
      <4>1. PICK i \in 1..m : g.pending[i] = x BY <3>1, <2>3, <2>4
      <4>2. i \in 1..(m + n) /\ q[i] = x BY <4>1, <2>7
      <4> QED BY <4>2, <2>1, <2>6
    <3>2. CASE x \in Range(t)
      <4>1. PICK i \in 1..n : t[i] = x BY <3>2, <2>2, <2>5
      <4>2. m + i \in 1..(m + n) /\ q[m + i] = x BY <4>1, <2>8
      <4> QED BY <4>2, <2>1, <2>6
    <3> QED BY <2>10, <3>1, <3>2
  <2> QED BY <2>9, <2>10
<1>19. Range(h.pending) = {i \in Frames(h) : h.frames[i].notification = "Queued"}
  <2>1. Range(g.pending) = {i \in Frames(g) : g.frames[i].notification = "Queued"} BY DEF Due
  <2>2. \A x : x \in Range(h.pending) <=> x \in Range(g.pending) \/ x \in U BY <1>5, <1>13, <1>18
  <2> QED BY <2>1, <2>2, <1>3, <1>13, <1>16
<1>20. PICK m \in Nat : m = Len(g.pending) BY <1>1
<1>21. PICK n \in Nat : n = Len(t) BY <1>5
<1>22. /\ Len(q) = m + n /\ \A i \in 1..m : q[i] = g.pending[i]
       /\ \A i \in (m + 1)..(m + n) : q[i] = t[i - m] /\ i - m \in 1..n
  <2>1. Len(q) = m + n BY <1>1, <1>5, <1>7, <1>20, <1>21
  <2>2. \A i \in 1..m : q[i] = g.pending[i] BY <1>1, <1>5, <1>7, <1>20
  <2>3. \A i \in (m + 1)..(m + n) : q[i] = t[i - m] BY <1>1, <1>5, <1>7, <1>20, <1>21
  <2>4. \A i \in (m + 1)..(m + n) : i - m \in 1..n OBVIOUS
  <2> QED BY <2>1, <2>2, <2>3, <2>4
<1>23. \A i \in 1..m : g.pending[i] \in Frames(g) /\ g.frames[g.pending[i]].notification = "Queued"
  <2>1. Range(g.pending) = {i \in Frames(g) : g.frames[i].notification = "Queued"} BY DEF Due
  <2>2. \A i \in 1..m : g.pending[i] \in Range(g.pending) BY <1>1, <1>20, ElementsOf
  <2> QED BY <2>1, <2>2
<1>24. \A i \in 1..n : t[i] \in U BY <1>5, <1>21, ElementsOf
<1>25. ASSUME NEW i \in 1..Len(q), NEW j \in 1..Len(q), i <= j
       PROVE  h.frames[q[j]].parent.frame # q[i]
  <2>0. i \in 1..(m + n) /\ j \in 1..(m + n) BY <1>22
  <2>1. CASE j <= m
    <3>1. i \in 1..m /\ j \in 1..m BY <2>0, <2>1, <1>25
    <3>2. q[i] = g.pending[i] /\ q[j] = g.pending[j] /\ q[j] \in Frames(g) BY <3>1, <1>22, <1>23
    <3>3. g.frames[g.pending[j]].parent.frame # g.pending[i] BY <3>1, <1>20, <1>25 DEF Due
    <3> QED BY <3>2, <3>3, <1>13, <1>16
  <2>2. CASE j > m
    <3>1. j \in (m + 1)..(m + n) BY <2>0, <2>2
    <3>2. q[j] = t[j - m] /\ j - m \in 1..n /\ q[j] \in U BY <3>1, <1>22, <1>24
    <3>3. h.frames[q[j]].parent.frame = g.frames[q[j]].parent.frame BY <3>2, <1>3, <1>13, <1>16
    <3>4. CASE i <= m
      <4>1. i \in 1..m BY <2>0, <3>4
      <4>2. g.frames[q[i]].notification = "Queued" BY <4>1, <1>22, <1>23
      <4> QED BY <4>2, <3>2, <3>3, <1>3
    <3>5. CASE i > m
      <4>1. i \in (m + 1)..(m + n) BY <2>0, <3>5
      <4>2. q[i] = t[i - m] /\ i - m \in 1..n /\ q[i] \in U BY <4>1, <1>22, <1>24
      <4>3. i - m <= j - m BY <2>0, <1>25
      <4>4. q[i] >= q[j]
        <5>1. CASE i = j BY <5>1, <3>2, <1>1, <1>3
        <5>2. CASE i # j
          <6>1. i - m < j - m BY <5>2, <2>0, <1>25
          <6>2. t[i - m] > t[j - m] BY <6>1, <4>2, <3>2, <1>5, <1>21
          <6> QED BY <6>2, <4>2, <3>2, <1>1, <1>3
        <5> QED BY <5>1, <5>2
      <4>5. g.frames[q[j]].parent.frame < q[j] BY <3>2, <1>3
      <4>6. g.frames[q[j]].parent.frame \in Nat /\ q[j] \in Nat /\ q[i] \in Nat
        BY <3>2, <4>2, <1>1, <1>3
      <4> QED BY <4>4, <4>5, <4>6, <3>3
    <3> QED BY <2>0, <3>4, <3>5
  <2> QED BY <2>0, <2>1, <2>2
<1>26. IsInjective(q)
  <2>1. ASSUME NEW i \in 1..(m + n), NEW j \in 1..(m + n), q[i] = q[j] PROVE i = j
    <3>1. CASE i <= m /\ j <= m
      <4>1. i \in 1..m /\ j \in 1..m BY <3>1
      <4>2. g.pending[i] = g.pending[j] BY <4>1, <2>1, <1>22
      <4> QED BY <4>1, <4>2, <1>1, <1>20, ElementsOf DEF Due
    <3>2. CASE i > m /\ j > m
      <4>1. i \in (m + 1)..(m + n) /\ j \in (m + 1)..(m + n) BY <3>2
      <4>2. t[i - m] = t[j - m] /\ i - m \in 1..n /\ j - m \in 1..n BY <4>1, <2>1, <1>22
      <4>3. i - m = j - m BY <4>2, <1>5, <1>21, ElementsOf
      <4> QED BY <4>3
    <3>3. CASE i <= m /\ j > m
      <4>1. i \in 1..m /\ j \in (m + 1)..(m + n) BY <3>3
      <4>2. g.frames[q[i]].notification = "Queued" /\ q[j] \in U BY <4>1, <1>22, <1>23, <1>24
      <4> QED BY <4>2, <2>1, <1>3
    <3>4. CASE i > m /\ j <= m
      <4>1. j \in 1..m /\ i \in (m + 1)..(m + n) BY <3>4
      <4>2. g.frames[q[j]].notification = "Queued" /\ q[i] \in U BY <4>1, <1>22, <1>23, <1>24
      <4> QED BY <4>2, <2>1, <1>3
    <3> QED BY <3>1, <3>2, <3>3, <3>4
  <2>2. \A i, j \in 1..Len(q) : q[i] = q[j] => i = j BY <2>1, <1>22
  <2> QED BY <2>2, <1>11, ElementsOf
<1>27. Notified(h) BY <1>13, <1>17, <1>19, <1>25, <1>26 DEF Notified
<1> QED BY <1>8, <1>13, <1>14, <1>15, <1>27

LEMMA RetireIs ==
    ASSUME NEW b, NEW g, Core(g, b), NEW S, S \subseteq Frames(g), Due(g, S),
           NEW ids \in Seq(Nat), Range(ids) \subseteq Frames(g)
    PROVE  /\ Tidies(g, Retire(g, S, ids)) /\ Notified(Retire(g, S, ids))
           /\ Quiet(g, Retire(g, S, ids))
<1>1. PICK h : h = Notices(g, S) OBVIOUS
<1>2. Tidies(g, h) /\ Notified(h) /\ Quiet(g, h) /\ Frames(h) = Frames(g) BY <1>1, NoticesAre
<1>3. Core(h, b) BY <1>2, TidyCore
<1>4. PICK k : k = CancelCalls(h, ids) OBVIOUS
<1>5. Tidies(h, k) /\ Silent(h, k) BY <1>2, <1>3, <1>4, CancelCallsTidies
<1>6. Core(k, b) BY <1>3, <1>5, TidyCore
<1>7. PICK m : m = PruneAll(k, ids) OBVIOUS
<1>8. Tidies(k, m) /\ Silent(k, m) BY <1>6, <1>7, PruneAllTidies
<1>9. Tidies(h, m) /\ Silent(h, m) BY <1>5, <1>8, TidyTrans, SilentTrans
<1>10. Notified(m) /\ Quiet(h, m) BY <1>2, <1>3, <1>9, TidyNotified, SilentQuiet DEF Core
<1>11. Tidies(g, m) BY <1>2, <1>9, TidyTrans
<1>12. Quiet(g, m) BY <1>2, <1>10, <1>9, QuietTrans DEF Tidies
<1>13. Retire(g, S, ids) = m BY <1>1, <1>4, <1>7 DEF Retire
<1> QED BY <1>10, <1>11, <1>12, <1>13

-----------------------------------------------------------------------------
(* Steps that start nothing: bookkeeping and cancellation.                  *)

Decided == {"Succeeded", "Failed", "Unsafe", "TimedOut", "Aborted"}

Coherent(g, b) == Core(g, b) /\ Branches(g) /\ Notified(g) /\ g.outcome # "Internal"

Elder(e, f) ==
    /\ f.parent = e.parent /\ f.generation = e.generation /\ DOMAIN f.calls = DOMAIN e.calls
    /\ e.cancelling => f.cancelling
    /\ ~f.cancelling => /\ f.round.attempt = e.round.attempt
                        /\ e.round.failed => f.round.failed
    /\ e.notification = "Emitted" => f.notification = "Emitted"

Steady(g, h) ==
    /\ h.next = g.next /\ h.remaining = g.remaining /\ h.calls = g.calls
    /\ Frames(h) \subseteq Frames(g) /\ Books(h) = Books(g)
    /\ \A i \in Frames(h) : Elder(g.frames[i], h.frames[i])
    /\ Quiet(g, h)

Sticky(g, h) == g.outcome # None => h.outcome = g.outcome

LEMMA SteadyTrans ==
    ASSUME NEW g, NEW h, NEW k, Steady(g, h), Steady(h, k)
    PROVE  Steady(g, k)
<1>1. Frames(k) \subseteq Frames(h) /\ Frames(h) \subseteq Frames(g) BY DEF Steady
<1>2. Quiet(g, k) BY <1>1, QuietTrans DEF Steady
<1>3. ASSUME NEW i \in Frames(k) PROVE Elder(g.frames[i], k.frames[i])
  <2>1. Elder(g.frames[i], h.frames[i]) /\ Elder(h.frames[i], k.frames[i]) BY <1>1 DEF Steady
  <2> QED BY <2>1 DEF Elder
<1> QED BY <1>1, <1>2, <1>3 DEF Steady

LEMMA TidySteady ==
    ASSUME NEW g, NEW h, Tidies(g, h), Quiet(g, h)
    PROVE  Steady(g, h) /\ Sticky(g, h)
<1>1. Books(h) = Books(g) BY TidyBooks
<1>2. ASSUME NEW i \in Frames(h) PROVE Elder(g.frames[i], h.frames[i])
  <2>1. Alike(g.frames[i], h.frames[i]) BY DEF Tidies
  <2> QED BY <2>1 DEF Alike, Elder
<1> QED BY <1>1, <1>2 DEF Steady, Sticky, Tidies

LEMMA SteadyRefl ==
    ASSUME NEW b, NEW g, Coherent(g, b)
    PROVE  Steady(g, g) /\ Sticky(g, g)
<1>1. Quiet(g, g) BY DEF Quiet
<1>2. Tidies(g, g) BY TidyRefl DEF Coherent
<1> QED BY <1>1, <1>2, TidySteady

\* silent bookkeeping
LEMMA SilentCoherent ==
    ASSUME NEW b, NEW g, Coherent(g, b), NEW h, Tidies(g, h), Silent(g, h)
    PROVE  Coherent(h, b) /\ Steady(g, h) /\ Sticky(g, h)
<1>1. Core(h, b) /\ Branches(h) BY TidyCore, TidyLive DEF Coherent
<1>2. Notified(h) BY TidyNotified DEF Coherent
<1>3. Quiet(g, h) BY SilentQuiet DEF Coherent, Core
<1>4. Steady(g, h) /\ Sticky(g, h) BY <1>3, TidySteady
<1> QED BY <1>1, <1>2, <1>4 DEF Coherent, Tidies

\* Books by the frames alone.
LEMMA BooksSame ==
    ASSUME NEW g, NEW h, Frames(h) = Frames(g),
           \A i \in Frames(g) : DOMAIN h.frames[i].calls = DOMAIN g.frames[i].calls
    PROVE  Books(h) = Books(g)
<1>1. \A c : c \in Books(h) <=> c \in Books(g) BY BooksIs
<1> QED BY <1>1

\* Whoever has a cancelled parent was told to finish with it.
LEMMA CancelledBelow ==
    ASSUME NEW b, NEW g, Core(g, b), Expected(g), Joins(g), Notified(g),
           NEW i \in Frames(g) \ {ROOT},
           g.frames[g.frames[i].parent.frame].cancelling
    PROVE  g.frames[i].notification # "Waiting"
<1> SUFFICES ASSUME g.frames[i].notification = "Waiting" PROVE FALSE
  OBVIOUS
<1> DEFINE p == g.frames[i].parent
<1>1. p.frame \in Frames(g) /\ p.round >= 1 BY DEF Core, Tree
<1>2. ~g.frames[i].cancelling BY DEF Notified
<1>3. g.frames[p.frame].round.attempt = p.round BY <1>2 DEF Waits, Expected
<1>4. g.frames[p.frame].round.attempt # 0
  <2>1. g.frames[i] \in FrameRecords BY FrameTypes DEF Core
  <2>2. p.round \in Nat BY <2>1, RecordTypes DEF Parents
  <2> QED BY <1>1, <1>3, <2>2
<1> QED BY <1>1, <1>4 DEF Joins

\* notices are queued by cancelled frames
Still(g) == \A i \in Frames(g) : g.frames[i].notification = "Queued" => g.frames[i].cancelling

LEMMA BranchesStill == ASSUME NEW g, Branches(g) PROVE Still(g)
BY DEF Branches, Settled, Still

\* The tree depends on parents and children alone.
LEMMA TreeSame ==
    ASSUME NEW g, NEW h, Tree(g), Frames(h) = Frames(g), h.next = g.next,
           \A i \in Frames(g) : /\ h.frames[i].parent = g.frames[i].parent
                                /\ h.frames[i].children = g.frames[i].children
    PROVE  Tree(h)
<1>1. \A i \in Frames(h) : \A c \in h.frames[i].children :
          c \in Frames(h) /\ c # ROOT /\ h.frames[c].parent.frame = i
  BY DEF Tree
<1>2. ASSUME NEW i \in Frames(h) \ {ROOT}
      PROVE  LET p == h.frames[i].parent
             IN p.frame \in Frames(h) /\ p.frame < i /\ i \in h.frames[p.frame].children /\ p.round >= 1
  BY DEF Tree
<1> QED BY <1>1, <1>2 DEF Tree

LEMMA StoppedIs ==
    ASSUME NEW b, NEW g, Core(g, b), Notified(g), Expected(g), Joins(g), Still(g),
           NEW o \in Decided,
           o = "Succeeded" => \A i \in Frames(g) \ {ROOT} : Outcome(g.frames[i]) # None
    PROVE  LET h == Stopped(g, o)
           IN /\ Core(h, b) /\ Branches(h) /\ Due(h, Frames(h)) /\ Frames(h) = Frames(g)
              /\ Steady(g, h) /\ h.outcome = o
<1>1. /\ g \in Schedulers /\ g.frames \in [Frames(g) -> FrameRecords] /\ Frames(g) \subseteq Nat
      /\ \A i \in Frames(g) : g.frames[i] \in FrameRecords
  BY FrameTypes DEF Core
<1>2. PICK F : F = [i \in Frames(g) |->
                 [g.frames[i] EXCEPT
                    !.cancelling = TRUE,
                    !.round = NoRound,
                    !.phase = IF i = ROOT THEN Terminal(o)
                              ELSE IF o # "Succeeded" THEN Terminal("Aborted")
                              ELSE @]] OBVIOUS
<1>3. PICK h : h = Stopped(g, o) OBVIOUS
<1>4. h = [g EXCEPT !.frames = F, !.ready = <<>>, !.queued = {}, !.blocked = Empty, !.outcome = o]
  BY <1>2, <1>3 DEF Stopped
<1>5. Terminal(o) \in Phases /\ Terminal("Aborted") \in Phases /\ NoRound \in Rounds
      /\ Terminal(o).outcome = o /\ Terminal("Aborted").outcome = "Aborted" /\ NoRound.attempt = 0
  BY DEF Terminal, Phase, Phases, Outcomes, Decided, NoRound, Rounds
<1>6. ASSUME NEW i \in Frames(g)
      PROVE  /\ F[i] \in FrameRecords /\ F[i].cancelling /\ F[i].round = NoRound
             /\ F[i].parent = g.frames[i].parent /\ F[i].children = g.frames[i].children
             /\ F[i].calls = g.frames[i].calls /\ F[i].generation = g.frames[i].generation
             /\ F[i].notification = g.frames[i].notification
             /\ Outcome(F[i]) # None
  <2>1. PICK f \in FrameRecords : f = g.frames[i] BY <1>1
  <2>2. PICK p : p = IF i = ROOT THEN Terminal(o)
                     ELSE IF o # "Succeeded" THEN Terminal("Aborted") ELSE f.phase OBVIOUS
  <2>3. F[i] = [f EXCEPT !.cancelling = TRUE, !.round = NoRound, !.phase = p]
    BY <2>1, <2>2, <1>2
  <2>4. p \in Phases BY <2>2, <1>5, RecordTypes
  <2>5. p.outcome # None
    <3>1. None \notin Decided /\ None # "Aborted" BY DEF None, Decided
    <3>2. o = "Succeeded" /\ i # ROOT => f.phase.outcome # None BY <2>1 DEF Outcome
    <3> QED BY <3>1, <3>2, <2>2, <1>5
  <2>6. F[i] \in FrameRecords BY <2>3, <2>4, <1>5 DEF FrameRecords
  <2> QED BY <2>1, <2>3, <2>5, <2>6 DEF FrameRecords, Outcome
<1>7. F \in Partial(Nat, FrameRecords) /\ DOMAIN F = Frames(g)
  <2>1. F \in [Frames(g) -> FrameRecords] BY <1>2, <1>6
  <2> QED BY <2>1, <1>1, PartialFn
<1>8. Empty \in Partial(Nat, {"Local", "Global"}) /\ DOMAIN Empty = {}
  <2>1. Empty \in [{} -> {"Local", "Global"}] /\ DOMAIN Empty = {} BY DEF Empty
  <2> QED BY <2>1, PartialFn
<1>9. /\ h \in Schedulers /\ h.frames = F /\ Frames(h) = Frames(g) /\ h.pending = g.pending
      /\ h.queued = {} /\ h.blocked = Empty /\ h.remaining = g.remaining
      /\ h.next = g.next /\ h.calls = g.calls /\ h.outcome = o
  <2>1. o \in Outcomes BY DEF Outcomes, Decided
  <2>2. <<>> \in Seq(Nat) OBVIOUS
  <2>3. h \in Schedulers BY <1>1, <1>4, <1>7, <1>8, <2>1, <2>2 DEF Schedulers
  <2>4. /\ h.frames = F /\ h.pending = g.pending
        /\ h.queued = {} /\ h.blocked = Empty /\ h.remaining = g.remaining
        /\ h.next = g.next /\ h.calls = g.calls /\ h.outcome = o
    BY <1>1, <1>4 DEF Schedulers
  <2>5. Frames(h) = Frames(g) BY <2>4, <1>7 DEF Frames
  <2> QED BY <2>3, <2>4, <2>5
<1>10. Core(h, b)
  <2>1. Tree(h) BY <1>6, <1>9, TreeSame DEF Core
  <2>2. Queues(h) BY <1>8, <1>9 DEF Queues
  <2>3. Budget(h, b)
    <3>1. ASSUME NEW i \in Frames(h)
          PROVE  /\ h.frames[i].generation + h.remaining <= b
                 /\ DOMAIN h.frames[i].calls \subseteq 1..h.frames[i].generation
                 /\ h.frames[i].round.attempt <= h.frames[i].generation
      <4>1. g.frames[i].generation \in Nat BY <1>1, <1>9, RecordTypes
      <4>2. h.frames[i].generation = g.frames[i].generation /\ h.frames[i].round.attempt = 0
        BY <1>5, <1>6, <1>9
      <4> QED BY <4>1, <4>2, <1>6, <1>9 DEF Core, Budget
    <3> QED BY <3>1 DEF Budget
  <2>4. Halted(h) BY <1>6, <1>9 DEF Halted
  <2> QED BY <1>9, <2>1, <2>2, <2>3, <2>4 DEF Core
<1>11. \A i \in Frames(h) : h.frames[i].cancelling /\ h.frames[i].round = NoRound BY <1>6, <1>9
<1>12. Branches(h)
  <2>1. Expected(h) BY <1>11 DEF Expected, Waits
  <2>2. Joins(h) BY <1>5, <1>11 DEF Joins
  <2>3. Settled(h) BY <1>11 DEF Settled
  <2>4. ASSUME NEW i \in Frames(h) \ {ROOT} PROVE h.frames[i].parent.frame \in Frames(h)
    BY <1>10 DEF Core, Tree
  <2>5. Unreported(h) BY <1>11, <2>4 DEF Unreported
  <2> QED BY <2>1, <2>2, <2>3, <2>5 DEF Branches
<1>13. Due(h, Frames(h))
  <2>1. \A i \in Frames(h) :
          /\ h.frames[i].cancelling =>
                Outcome(h.frames[i]) # None /\ (i # ROOT /\ h.frames[i].notification = "Waiting" => i \in Frames(h))
          /\ h.frames[i].notification # "Waiting" => i # ROOT /\ Outcome(h.frames[i]) # None
    BY <1>6, <1>9 DEF Notified
  <2>2. Range(h.pending) = {i \in Frames(h) : h.frames[i].notification = "Queued"}
    BY <1>6, <1>9 DEF Notified
  <2>3. ASSUME NEW m \in 1..Len(h.pending), NEW n \in 1..Len(h.pending), m <= n
        PROVE  h.frames[h.pending[n]].parent.frame # h.pending[m]
    <3>1. h.pending \in Seq(Nat) BY <1>9, FrameTypes
    <3>2. h.pending[n] \in Range(h.pending) BY <3>1, ElementsOf
    <3>3. h.pending[n] \in Frames(g) BY <3>2, <2>2, <1>9
    <3>4. g.frames[g.pending[n]].parent.frame # g.pending[m] BY <2>3, <1>9 DEF Notified
    <3> QED BY <3>3, <3>4, <1>6, <1>9
  <2>4. IsInjective(h.pending) BY <1>9 DEF Notified
  <2>5. ASSUME NEW i \in Untold(h, Frames(h)), h.frames[i].parent.frame \in Frames(h)
        PROVE  h.frames[h.frames[i].parent.frame].notification # "Queued"
    <3>1. i \in Frames(h) /\ h.frames[i].notification = "Waiting" /\ h.frames[i].parent # NoParent
      BY DEF Untold
    <3>2. i # ROOT BY <3>1, <1>10 DEF Core, Tree
    <3>3. g.frames[i].notification = "Waiting" /\ g.frames[i].parent = h.frames[i].parent
      BY <3>1, <1>6, <1>9
    <3>4. ~g.frames[g.frames[i].parent.frame].cancelling
      BY <3>1, <3>2, <3>3, <1>9, CancelledBelow
    <3>5. g.frames[g.frames[i].parent.frame].notification # "Queued"
      BY <3>3, <3>4, <2>5, <1>9 DEF Still
    <3> QED BY <3>3, <3>5, <2>5, <1>6, <1>9
  <2> QED BY <2>1, <2>2, <2>3, <2>4, <2>5 DEF Due
<1>14. Steady(g, h)
  <2>1. Books(h) = Books(g) BY <1>6, <1>9, BooksSame
  <2>2. ASSUME NEW i \in Frames(h) PROVE Elder(g.frames[i], h.frames[i]) BY <1>6, <1>9 DEF Elder
  <2>3. Quiet(g, h) BY <1>6, <1>9 DEF Quiet
  <2> QED BY <1>9, <2>1, <2>2, <2>3 DEF Steady
<1> QED BY <1>3, <1>9, <1>10, <1>12, <1>13, <1>14

\* Everything is stopped: nothing waits any more and all is said.
LEMMA StopIs ==
    ASSUME NEW b, NEW g, Core(g, b), Notified(g), Expected(g), Joins(g), Still(g),
           NEW o \in Decided,
           o = "Succeeded" => \A i \in Frames(g) \ {ROOT} : Outcome(g.frames[i]) # None
    PROVE  LET h == Retire(Stopped(g, o), Frames(g), Ascending(g, Frames(g)))
           IN Coherent(h, b) /\ Steady(g, h) /\ h.outcome = o
<1>1. PICK k : k = Stopped(g, o) OBVIOUS
<1>2. /\ Core(k, b) /\ Branches(k) /\ Due(k, Frames(k)) /\ Frames(k) = Frames(g)
      /\ Steady(g, k) /\ k.outcome = o BY <1>1, StoppedIs
<1>3. PICK ids : ids = Ascending(g, Frames(g)) OBVIOUS
<1>4. ids \in Seq(Nat) /\ Range(ids) = Frames(g)
  <2>1. Frames(g) \subseteq Nat /\ g.next \in Nat BY FrameTypes DEF Core
  <2>2. Frames(g) \subseteq 0..(g.next - 1) BY <2>1 DEF Core, Tree
  <2> QED BY <2>1, <2>2, <1>3, AscendingIs
<1>5. PICK h : h = Retire(k, Frames(k), ids) OBVIOUS
<1>6. Tidies(k, h) /\ Notified(h) /\ Quiet(k, h) BY <1>2, <1>4, <1>5, RetireIs
<1>7. Core(h, b) /\ Branches(h) BY <1>2, <1>6, TidyCore, TidyLive
<1>8. Steady(g, h) BY <1>2, <1>6, TidySteady, SteadyTrans
<1>9. h.outcome = o BY <1>2, <1>6 DEF Tidies
<1>10. o # "Internal" BY DEF Decided
<1> QED BY <1>1, <1>2, <1>3, <1>5, <1>6, <1>7, <1>8, <1>9, <1>10 DEF Coherent

LEMMA TerminateIs ==
    ASSUME NEW b, NEW g, Coherent(g, b), NEW o \in Decided \ {"Succeeded"}
    PROVE  LET h == terminate(g, o)
           IN /\ Coherent(h, b) /\ Steady(g, h) /\ Sticky(g, h)
              /\ g.outcome = None => h.outcome = o
<1>1. CASE g.outcome # None
  <2>1. terminate(g, o) = g BY <1>1 DEF terminate
  <2> QED BY <1>1, <2>1, SteadyRefl
<1>2. CASE g.outcome = None
  <2>1. terminate(g, o) = Retire(Stopped(g, o), Frames(g), Ascending(g, Frames(g)))
    BY <1>2 DEF terminate
  <2>2. /\ Core(g, b) /\ Notified(g) /\ Expected(g) /\ Joins(g) /\ Still(g)
    BY BranchesStill DEF Coherent, Branches
  <2>3. o \in Decided /\ o # "Succeeded" OBVIOUS
  <2> QED BY <1>2, <2>1, <2>2, <2>3, StopIs DEF Sticky
<1> QED BY <1>1, <1>2

\* Once stopped, a scheduler may be stopped again with another verdict.
LEMMA SupersedeIs ==
    ASSUME NEW b, NEW g, Coherent(g, b), NEW o \in Decided \ {"Succeeded"}
    PROVE  LET h == supersede_uncommitted(g, o)
           IN Coherent(h, b) /\ Steady(g, h) /\ h.outcome = o
<1>1. PICK k : k = [g EXCEPT !.outcome = None] OBVIOUS
<1>2. g \in Schedulers BY DEF Coherent, Core
<1>3. k.outcome = None /\ Frames(k) = Frames(g) /\ k.next = g.next
  BY <1>1, <1>2 DEF Schedulers, Frames
<1>4. Stopped(k, o) = Stopped(g, o)
  <2>1. k.frames = g.frames BY <1>1, <1>2 DEF Schedulers
  <2>2. PICK F : F = [i \in Frames(g) |->
                 [g.frames[i] EXCEPT
                    !.cancelling = TRUE,
                    !.round = NoRound,
                    !.phase = IF i = ROOT THEN Terminal(o)
                              ELSE IF o # "Succeeded" THEN Terminal("Aborted")
                              ELSE @]] OBVIOUS
  <2>3. Stopped(g, o) = [g EXCEPT !.frames = F, !.ready = <<>>, !.queued = {}, !.blocked = Empty,
                                  !.outcome = o] BY <2>2 DEF Stopped
  <2>4. Stopped(k, o) = [k EXCEPT !.frames = F, !.ready = <<>>, !.queued = {}, !.blocked = Empty,
                                  !.outcome = o] BY <2>1, <2>2, <1>3 DEF Stopped
  <2> QED BY <2>3, <2>4, <1>1, <1>2 DEF Schedulers
<1>5. Ascending(k, Frames(k)) = Ascending(g, Frames(g)) BY <1>3 DEF Ascending
<1>6. supersede_uncommitted(g, o) = Retire(Stopped(g, o), Frames(g), Ascending(g, Frames(g)))
  BY <1>1, <1>3, <1>4, <1>5 DEF supersede_uncommitted, terminate
<1>7. /\ Core(g, b) /\ Notified(g) /\ Expected(g) /\ Joins(g) /\ Still(g)
  BY BranchesStill DEF Coherent, Branches
<1>8. o \in Decided /\ o # "Succeeded" OBVIOUS
<1> QED BY <1>6, <1>7, <1>8, StopIs

-----------------------------------------------------------------------------
(* A round fails: its branches are cancelled.                               *)

LEMMA ParentBelow ==
    ASSUME NEW b, NEW g, Core(g, b), NEW i \in Frames(g), g.frames[i].parent.frame \in Frames(g)
    PROVE  g.frames[i].parent.frame < i /\ i # ROOT
<1>1. Frames(g) \subseteq Nat BY FrameTypes DEF Core
<1>2. i # ROOT
  <2> SUFFICES ASSUME i = ROOT PROVE FALSE OBVIOUS
  <2>1. g.frames[i].parent.frame = -1 BY DEF Core, Tree, NoParent
  <2> QED BY <1>1, <2>1
<1> QED BY <1>2 DEF Core, Tree

\* An ancestor is older.
LEMMA ChainOlder ==
    ASSUME NEW b, NEW g, Core(g, b), NEW id \in Frames(g)
    PROVE  \A a \in Chain(g, id) : a <= id
<1>1. Frames(g) \subseteq Nat BY FrameTypes DEF Core
<1> DEFINE B == {i \in Frames(g) : \E a \in Chain(g, i) : ~(a <= i)}
<1>2. CASE B = {} BY <1>2
<1>3. CASE B # {}
  <2>1. PICK i \in B : \A j \in B : i <= j
    <3>1. B \subseteq Nat BY <1>1
    <3> HIDE DEF B
    <3> QED BY <1>3, <3>1, LeastNat
  <2> DEFINE p == g.frames[i].parent.frame
  <2>2. PICK a \in Chain(g, i) : ~(a <= i) OBVIOUS
  <2>3. i \in Frames(g) OBVIOUS
  <2>4. Chain(g, i) = {i} \cup (IF p \in Frames(g) THEN Chain(g, p) ELSE {}) BY <2>3, ChainStep
  <2>5. p \in Frames(g) /\ a \in Chain(g, p) BY <2>2, <2>4, <2>3, <1>1
  <2>6. p < i BY <2>3, <2>5, ParentBelow
  <2>7. a \in Frames(g) BY <2>5, ChainIs
  <2>8. ~(a <= p) BY <2>2, <2>3, <2>5, <2>6, <2>7, <1>1
  <2>9. p \in B BY <2>5, <2>8
  <2> QED BY <2>1, <2>3, <2>5, <2>6, <2>9, <1>1
<1> QED BY <1>2, <1>3

\* the state in which the branches S of round id are cancelled
Cancelled(g, id, S, ignore) ==
    LET m == MarkFailed(g, id)
    IN [m EXCEPT !.frames = [i \in Frames(m) |->
           IF i \in S THEN CancelFrame(m.frames[i], i = ignore) ELSE m.frames[i]]]

\* whom a failed round may spare: the branch whose failure it is
Spared(g, id, ignore) ==
    ignore \in Frames(g) =>
        /\ ~g.frames[ignore].cancelling /\ g.frames[ignore].round = NoRound
        /\ Outcome(g.frames[ignore]) = "Failed" /\ g.frames[ignore].parent.frame = id

FailedRound(f) == [f.round EXCEPT !.failed = TRUE, !.outputs = {}]

LEMMA MarkFailedIs ==
    ASSUME NEW b, NEW g, Core(g, b), NEW id \in Frames(g), NEW h, h = MarkFailed(g, id),
           NEW r, r = FailedRound(g.frames[id])
    PROVE  /\ h \in Schedulers /\ Frames(h) = Frames(g)
           /\ r \in Rounds /\ h.frames[id] = [g.frames[id] EXCEPT !.round = r]
           /\ r.failed /\ r.attempt = g.frames[id].round.attempt
           /\ r.running = g.frames[id].round.running
           /\ \A i \in Frames(g) \ {id} : h.frames[i] = g.frames[i]
           /\ h.ready = g.ready /\ h.queued = g.queued
           /\ DOMAIN h.blocked \subseteq DOMAIN g.blocked
           /\ h.cancels = g.cancels /\ h.pending = g.pending /\ h.remaining = g.remaining
           /\ h.next = g.next /\ h.calls = g.calls /\ h.outcome = g.outcome
<1>1. /\ g \in Schedulers /\ g.frames \in [Frames(g) -> FrameRecords] /\ Frames(g) \subseteq Nat
      /\ g.frames[id] \in FrameRecords
      /\ g.blocked \in Partial(Nat, {"Local", "Global"})
  BY FrameTypes DEF Core
<1>2. r = [g.frames[id].round EXCEPT !.failed = TRUE, !.outputs = {}] BY DEF FailedRound
<1>3. /\ r \in Rounds /\ r.failed /\ r.attempt = g.frames[id].round.attempt
      /\ r.running = g.frames[id].round.running
  <2>1. g.frames[id].round \in Rounds BY <1>1, RecordTypes
  <2>2. PICK s \in Rounds : s = g.frames[id].round BY <2>1
  <2> QED BY <2>2, <1>2 DEF Rounds
<1>4. PICK e : e = [g.frames[id] EXCEPT !.round = r] OBVIOUS
<1>5. e \in FrameRecords
  <2>1. PICK f \in FrameRecords : f = g.frames[id] BY <1>1
  <2> QED BY <2>1, <1>3, <1>4 DEF FrameRecords
<1>6. PICK F : F = [g.frames EXCEPT ![id] = e] OBVIOUS
<1>7. F \in [Frames(g) -> FrameRecords] BY <1>1, <1>5, <1>6
<1>8. F \in Partial(Nat, FrameRecords) /\ DOMAIN F = Frames(g) BY <1>1, <1>7, PartialFn
<1>9. PICK w : w = Drop(g.blocked, {id}) OBVIOUS
<1>10. w \in Partial(Nat, {"Local", "Global"}) /\ DOMAIN w \subseteq DOMAIN g.blocked
  <2>1. DOMAIN g.blocked \subseteq Nat /\ g.blocked \in [DOMAIN g.blocked -> {"Local", "Global"}]
    BY <1>1, PartialFn
  <2>2. w = [x \in DOMAIN g.blocked \ {id} |-> g.blocked[x]] BY <1>9 DEF Drop, Restrict
  <2>3. w \in [DOMAIN g.blocked \ {id} -> {"Local", "Global"}] BY <2>1, <2>2
  <2>4. DOMAIN w = DOMAIN g.blocked \ {id} BY <2>2
  <2> QED BY <2>1, <2>3, <2>4, PartialFn
<1>11. h = MarkFailed(g, id) OBVIOUS
<1>12. h = [[g EXCEPT !.frames = F] EXCEPT !.blocked = w]
  <2>1. h = [g EXCEPT !.frames[id].round = [@ EXCEPT !.failed = TRUE, !.outputs = {}],
                      !.blocked = w]
    BY <1>9, <1>11 DEF MarkFailed
  <2>2. [g.frames EXCEPT ![id].round = [@ EXCEPT !.failed = TRUE, !.outputs = {}]] = F
    BY <1>1, <1>2, <1>4, <1>6
  <2> QED BY <2>1, <2>2, <1>1 DEF Schedulers
<1>13. h \in Schedulers BY <1>1, <1>8, <1>10, <1>12 DEF Schedulers
<1>14. /\ h.frames = F /\ h.blocked = w /\ h.ready = g.ready /\ h.queued = g.queued
       /\ h.cancels = g.cancels /\ h.pending = g.pending /\ h.remaining = g.remaining
       /\ h.next = g.next /\ h.calls = g.calls /\ h.outcome = g.outcome
  BY <1>1, <1>12 DEF Schedulers
<1>15. Frames(h) = Frames(g) BY <1>8, <1>14 DEF Frames
<1>16. h.frames[id] = e /\ \A i \in Frames(g) \ {id} : h.frames[i] = g.frames[i]
  BY <1>1, <1>6, <1>14
<1> QED BY <1>2, <1>3, <1>4, <1>10, <1>11, <1>13, <1>14, <1>15, <1>16

LEMMA CancelledIs ==
    ASSUME NEW b, NEW g, Coherent(g, b), NEW id \in Frames(g), g.frames[id].round # NoRound,
           NEW ignore, Spared(g, id, ignore), NEW S,
           S = Below(MarkFailed(g, id), RoundChildren(MarkFailed(g, id), id))
    PROVE  LET h == Cancelled(g, id, S, ignore)
           IN /\ Core(h, b) /\ Branches(h) /\ Due(h, S) /\ Frames(h) = Frames(g)
              /\ S \subseteq Frames(g) /\ Steady(g, h) /\ h.outcome = g.outcome /\ h.next = g.next
<1>1. /\ g \in Schedulers /\ g.frames \in [Frames(g) -> FrameRecords] /\ Frames(g) \subseteq Nat
      /\ \A i \in Frames(g) : g.frames[i] \in FrameRecords
  BY FrameTypes DEF Coherent, Core
<1>2. /\ Core(g, b) /\ Tree(g) /\ Expected(g) /\ Joins(g) /\ Settled(g) /\ Unreported(g)
      /\ Notified(g) /\ Still(g)
  BY BranchesStill DEF Coherent, Core, Branches
<1>3. PICK m : m = MarkFailed(g, id) OBVIOUS
<1>33. PICK r : r = FailedRound(g.frames[id]) OBVIOUS
<1>4. r = [g.frames[id].round EXCEPT !.failed = TRUE, !.outputs = {}] BY <1>33 DEF FailedRound
<1>5. /\ m \in Schedulers /\ Frames(m) = Frames(g)
      /\ r \in Rounds /\ m.frames[id] = [g.frames[id] EXCEPT !.round = r]
      /\ r.failed /\ r.attempt = g.frames[id].round.attempt
      /\ \A i \in Frames(g) \ {id} : m.frames[i] = g.frames[i]
      /\ m.ready = g.ready /\ m.queued = g.queued
      /\ DOMAIN m.blocked \subseteq DOMAIN g.blocked
      /\ m.cancels = g.cancels /\ m.pending = g.pending /\ m.remaining = g.remaining
      /\ m.next = g.next /\ m.calls = g.calls /\ m.outcome = g.outcome
  BY <1>2, <1>3, <1>33, MarkFailedIs
<1>6. ASSUME NEW i \in Frames(g)
      PROVE  /\ m.frames[i] \in FrameRecords
             /\ m.frames[i].parent = g.frames[i].parent
             /\ m.frames[i].children = g.frames[i].children
             /\ m.frames[i].calls = g.frames[i].calls
             /\ m.frames[i].generation = g.frames[i].generation
             /\ m.frames[i].notification = g.frames[i].notification
             /\ m.frames[i].cancelling = g.frames[i].cancelling
             /\ m.frames[i].phase = g.frames[i].phase
             /\ m.frames[i].round.attempt = g.frames[i].round.attempt
             /\ i # id => m.frames[i].round = g.frames[i].round
  <2>1. CASE i = id
    <3>1. PICK f \in FrameRecords : f = g.frames[id] BY <1>1
    <3>2. m.frames[id] = [f EXCEPT !.round = r] BY <3>1, <1>5
    <3>3. r.attempt = f.round.attempt BY <3>1, <1>5
    <3>4. m.frames[id] \in FrameRecords BY <3>2, <1>5 DEF FrameRecords
    <3> QED BY <2>1, <3>1, <3>2, <3>3, <3>4 DEF FrameRecords
  <2>2. CASE i # id
    <3>1. m.frames[i] = g.frames[i] BY <2>2, <1>5
    <3> QED BY <3>1, <1>1
  <2> QED BY <2>1, <2>2
<1>7. Core(m, b)
  <2>1. Tree(m) BY <1>2, <1>5, <1>6, TreeSame
  <2>2. Queues(m) BY <1>2, <1>5 DEF Queues, Core
  <2>3. Budget(m, b) BY <1>2, <1>5, <1>6 DEF Budget, Core
  <2>4. Halted(m) BY <1>2, <1>5, <1>6 DEF Halted, Core
  <2> QED BY <1>5, <2>1, <2>2, <2>3, <2>4 DEF Core
<1>8. PICK R : R = RoundChildren(m, id) OBVIOUS
<1>9. R \subseteq Frames(m) /\ \A c \in R : g.frames[c].parent.frame = id /\ id < c
  <2>1. ASSUME NEW c \in R PROVE c \in Frames(m) /\ g.frames[c].parent.frame = id /\ id < c
    <3>1. c \in m.frames[id].children /\ c \in Frames(m) BY <1>8 DEF RoundChildren, Has
    <3>2. g.frames[c].parent.frame = id BY <3>1, <1>2, <1>5, <1>6 DEF Tree
    <3> QED BY <3>1, <3>2, <1>2, <1>5, ParentBelow
  <2> QED BY <2>1
<1>10. /\ R \subseteq S /\ S \subseteq Frames(g)
       /\ \A i \in Frames(g) : \A c \in g.frames[i].children : i \in S => c \in S
       /\ \A i \in S \ R : g.frames[i].parent.frame \in S
  <2>1. S = Below(m, R) BY <1>3, <1>8
  <2>2. /\ R \subseteq S /\ S \subseteq Frames(m)
        /\ \A i \in Frames(m) : \A c \in m.frames[i].children : i \in S => c \in S
        /\ \A i \in S \ R : m.frames[i].parent.frame \in S
    BY <2>1, <1>7, <1>9, BelowIs
  <2> QED BY <2>2, <1>5, <1>6
<1>11. id \notin S
  <2> SUFFICES ASSUME id \in S PROVE FALSE OBVIOUS
  <2>1. PICK a \in Chain(m, id) : a \in R BY <1>3, <1>8 DEF Below
  <2>2. a <= id BY <2>1, <1>5, <1>7, ChainOlder
  <2>3. id < a BY <2>1, <1>9
  <2>4. a \in Nat /\ id \in Nat BY <2>1, <1>1, <1>5, <1>9
  <2> QED BY <2>2, <2>3, <2>4
<1>12. PICK F : F = [i \in Frames(m) |->
                 IF i \in S THEN CancelFrame(m.frames[i], i = ignore) ELSE m.frames[i]] OBVIOUS
<1>13. PICK h : h = Cancelled(g, id, S, ignore) OBVIOUS
<1>14. h = [m EXCEPT !.frames = F] BY <1>3, <1>12, <1>13 DEF Cancelled
<1>15. Terminal("Aborted") \in Phases /\ Terminal("Aborted").outcome # None
       /\ NoRound \in Rounds /\ NoRound.attempt = 0
  BY DEF Terminal, Phase, Phases, Outcomes, None, NoRound, Rounds
<1>16. ASSUME NEW i \in Frames(g)
       PROVE  /\ F[i] \in FrameRecords
              /\ F[i].parent = g.frames[i].parent /\ F[i].children = g.frames[i].children
              /\ F[i].calls = g.frames[i].calls /\ F[i].generation = g.frames[i].generation
              /\ F[i].notification = g.frames[i].notification
              /\ i \notin S => F[i] = m.frames[i]
              /\ i \in S => /\ F[i].cancelling = (i # ignore) /\ F[i].round = NoRound
                            /\ Outcome(F[i]) # None
                            /\ Outcome(g.frames[i]) # None => F[i].phase = g.frames[i].phase
  <2>1. CASE i \notin S
    <3>1. F[i] = m.frames[i] BY <2>1, <1>5, <1>12
    <3> QED BY <3>1, <2>1, <1>6
  <2>2. CASE i \in S
    <3>1. PICK f \in FrameRecords : f = m.frames[i] BY <1>6
    <3>2. PICK p : p = IF Outcome(f) = None THEN Terminal("Aborted") ELSE f.phase OBVIOUS
    <3>3. PICK c \in BOOLEAN : c = (i # ignore) OBVIOUS
    <3>4. F[i] = [f EXCEPT !.cancelling = c, !.round = NoRound, !.phase = p]
      <4>1. F[i] = CancelFrame(f, i = ignore) BY <2>2, <3>1, <1>5, <1>12
      <4> QED BY <4>1, <3>2, <3>3 DEF CancelFrame
    <3>5. p \in Phases /\ p.outcome # None /\ (Outcome(f) # None => p = f.phase)
      BY <3>2, <1>15, RecordTypes DEF Outcome
    <3>6. F[i] \in FrameRecords BY <3>4, <3>5, <1>15 DEF FrameRecords
    <3>7. /\ F[i].cancelling = c /\ F[i].round = NoRound /\ F[i].phase = p
          /\ F[i].parent = f.parent /\ F[i].children = f.children /\ F[i].calls = f.calls
          /\ F[i].generation = f.generation /\ F[i].notification = f.notification
      BY <3>4 DEF FrameRecords
    <3>8. Outcome(g.frames[i]) = Outcome(f) BY <3>1, <1>6 DEF Outcome
    <3> QED BY <2>2, <3>1, <3>3, <3>5, <3>6, <3>7, <3>8, <1>6 DEF Outcome
  <2> QED BY <2>1, <2>2
<1>17. F \in Partial(Nat, FrameRecords) /\ DOMAIN F = Frames(g)
  <2>1. F \in [Frames(g) -> FrameRecords] BY <1>5, <1>12, <1>16
  <2> QED BY <2>1, <1>1, PartialFn
<1>18. /\ h \in Schedulers /\ h.frames = F /\ Frames(h) = Frames(g) /\ h.pending = g.pending
       /\ h.queued = g.queued /\ DOMAIN h.blocked \subseteq DOMAIN g.blocked
       /\ h.remaining = g.remaining
       /\ h.next = g.next /\ h.calls = g.calls /\ h.outcome = g.outcome
  BY <1>5, <1>14, <1>17 DEF Schedulers, Frames
<1>19. g.frames[id].round.attempt # 0 /\ ~g.frames[id].cancelling
       /\ g.frames[id].phase.k = "Joining" /\ Outcome(g.frames[id]) = None
  BY <1>2 DEF Joins, Outcome
<1>20. g.outcome = None BY <1>2, <1>19 DEF Core, Halted
<1>21. \A i \in S : i = ignore =>
          /\ ~g.frames[i].cancelling /\ g.frames[i].round = NoRound
          /\ Outcome(g.frames[i]) = "Failed" /\ g.frames[i].parent.frame = id
          /\ F[i].phase = g.frames[i].phase
  BY <1>10, <1>16 DEF Spared, None
<1>22. ASSUME NEW i \in Frames(g) \ {ROOT}
       PROVE  /\ g.frames[i].parent.frame \in Frames(g) /\ g.frames[i].parent.round \in Nat
              /\ g.frames[i].parent.round >= 1
              /\ i \in g.frames[g.frames[i].parent.frame].children
  <2>1. g.frames[i].parent \in Parents BY <1>1, RecordTypes
  <2> QED BY <2>1, <1>2 DEF Tree, Parents
<1>23. \A i \in Frames(g) \ {ROOT} : g.frames[i].parent.frame \in S => i \in S
  BY <1>10, <1>22
<1>24. \A i \in S : i # ROOT
  <2>1. \A i \in R : i # ROOT
    <3>1. \A c \in R : id < c /\ c \in Nat /\ id \in Nat BY <1>1, <1>5, <1>9
    <3> QED BY <3>1 DEF ROOT
  <2>2. \A i \in S \ R : i # ROOT BY <1>2, <1>10, ParentBelow
  <2> QED BY <2>1, <2>2
<1>25. Core(h, b)
  <2>1. Tree(h) BY <1>2, <1>16, <1>18, TreeSame
  <2>2. Queues(h) BY <1>2, <1>18 DEF Queues, Core
  <2>3. Budget(h, b)
    <3>1. ASSUME NEW i \in Frames(h)
          PROVE  /\ h.frames[i].generation + h.remaining <= b
                 /\ DOMAIN h.frames[i].calls \subseteq 1..h.frames[i].generation
                 /\ h.frames[i].round.attempt <= h.frames[i].generation
      <4>1. g.frames[i].generation \in Nat BY <1>1, <1>18, RecordTypes
      <4>2. /\ g.frames[i].generation + g.remaining <= b
            /\ DOMAIN g.frames[i].calls \subseteq 1..g.frames[i].generation
            /\ g.frames[i].round.attempt <= g.frames[i].generation
        BY <1>2, <1>18 DEF Core, Budget
      <4>3. h.frames[i].round.attempt \in {0, g.frames[i].round.attempt}
        BY <1>6, <1>15, <1>16, <1>18
      <4> QED BY <4>1, <4>2, <4>3, <1>16, <1>18
    <3> QED BY <3>1 DEF Budget
  <2>4. Halted(h) BY <1>18, <1>20 DEF Halted
  <2> QED BY <1>18, <2>1, <2>2, <2>3, <2>4 DEF Core
<1>26. Expected(h)
  <2> SUFFICES ASSUME NEW i \in Frames(h) \ {ROOT}, Waits(h.frames[i])
               PROVE  LET p == h.frames[i].parent
                      IN /\ h.frames[p.frame].round.attempt = p.round
                         /\ i \in h.frames[p.frame].round.running
    BY DEF Expected
  <2> DEFINE p == g.frames[i].parent
  <2>1. i \in Frames(g) /\ h.frames[i].parent = p BY <1>16, <1>18
  <2>2. Waits(g.frames[i])
    <3>1. CASE i \in S
      <4>1. i = ignore BY <3>1, <1>16, <1>18 DEF Waits
      <4> QED BY <3>1, <4>1, <2>1, <1>16, <1>18, <1>21 DEF Waits
    <3>2. CASE i \notin S BY <3>2, <2>1, <1>6, <1>16, <1>18 DEF Waits
    <3> QED BY <3>1, <3>2
  <2>3. g.frames[p.frame].round.attempt = p.round /\ i \in g.frames[p.frame].round.running
    BY <2>1, <2>2, <1>2 DEF Expected
  <2>4. p.frame \in Frames(g) BY <2>1, <1>22
  <2>5. p.frame \notin S
    <3>1. CASE i \in S
      <4>1. i = ignore BY <3>1, <1>16, <1>18 DEF Waits
      <4> QED BY <3>1, <4>1, <1>11, <1>21
    <3>2. CASE i \notin S BY <3>2, <2>1, <1>23
    <3> QED BY <3>1, <3>2
  <2>6. h.frames[p.frame] = m.frames[p.frame] BY <2>4, <2>5, <1>16, <1>18
  <2>7. m.frames[p.frame].round.running = g.frames[p.frame].round.running
    <3>1. CASE p.frame = id
      <4>1. PICK f \in FrameRecords : f = g.frames[id] BY <1>1
      <4>2. m.frames[id].round = r BY <4>1, <1>5 DEF FrameRecords
      <4>3. PICK s \in Rounds : s = g.frames[id].round BY <1>1, RecordTypes
      <4>4. r.running = s.running BY <4>3, <1>4 DEF Rounds
      <4> QED BY <3>1, <4>2, <4>3, <4>4
    <3>2. CASE p.frame # id BY <3>2, <2>4, <1>6
    <3> QED BY <3>1, <3>2
  <2> QED BY <2>1, <2>3, <2>4, <2>6, <2>7, <1>6
<1>27. ASSUME NEW i \in Frames(g) \ S, i # id, Owed(g, i)
       PROVE  Owed(h, i)
  <2> DEFINE q == g.frames[i].round
  <2>1. h.frames[i].round = q BY <1>6, <1>16, <1>18, <1>27
  <2>2. ASSUME NEW c \in q.running
        PROVE  /\ c \in Frames(g) /\ h.frames[c].parent = g.frames[c].parent
               /\ Waits(h.frames[c])
    <3>1. c \in Frames(g) /\ c # ROOT /\ Waits(g.frames[c]) /\ g.frames[c].parent.frame = i
      BY <1>27 DEF Owed
    <3>2. c \notin S BY <3>1, <1>9, <1>10, <1>27
    <3> QED BY <3>1, <3>2, <1>6, <1>16, <1>18 DEF Waits
  <2>3. /\ q.next <= q.count
        /\ q.outputs \subseteq 0..(q.next - 1)
        /\ \A c \in q.running :
             /\ c \in Frames(g) /\ c # ROOT
             /\ g.frames[c].parent.frame = i /\ g.frames[c].parent.round = q.attempt
             /\ g.frames[c].parent.index \in 0..(q.next - 1) \ q.outputs
        /\ \A c, d \in q.running :
             g.frames[c].parent.index = g.frames[d].parent.index => c = d
    BY <1>27 DEF Owed
  <2> QED BY <2>1, <2>2, <2>3, <1>18 DEF Owed
<1>28. Joins(h)
  <2>1. ASSUME NEW i \in Frames(h)
        PROVE  LET f == h.frames[i]
               IN IF f.round.attempt = 0 THEN f.round = NoRound
                  ELSE /\ ~f.cancelling /\ f.phase.k = "Joining" /\ f.phase.outcome = None
                       /\ ~f.round.failed => Owed(h, i)
    <3>1. CASE i \in S BY <3>1, <1>15, <1>16, <1>18
    <3>2. CASE i = id
      <4>1. h.frames[i] = m.frames[id] BY <3>2, <1>11, <1>16, <1>18
      <4>2. m.frames[id].round = r
        <5>1. PICK f \in FrameRecords : f = g.frames[id] BY <1>1
        <5> QED BY <5>1, <1>5 DEF FrameRecords
      <4> QED BY <4>1, <4>2, <1>5, <1>6, <1>19 DEF Outcome
    <3>3. CASE i \notin S /\ i # id
      <4>1. i \in Frames(g) /\ h.frames[i] = g.frames[i] BY <3>3, <1>5, <1>16, <1>18
      <4> QED BY <4>1, <3>3, <1>2, <1>27 DEF Joins
    <3> QED BY <3>1, <3>2, <3>3
  <2> QED BY <2>1 DEF Joins
<1>29. Settled(h)
  <2>1. ASSUME NEW i \in Frames(h), ~h.frames[i].cancelling
        PROVE  /\ Outcome(h.frames[i]) \in {None, "Succeeded", "Failed"}
               /\ Outcome(h.frames[i]) = None => h.frames[i].notification = "Waiting"
               /\ h.frames[i].notification # "Queued"
               /\ i = ROOT => Outcome(h.frames[i]) = None
    <3>1. i \in Frames(g) BY <1>18
    <3>2. ~g.frames[i].cancelling /\ h.frames[i].phase = g.frames[i].phase
      <4>1. CASE i \in S
        <5>1. i = ignore BY <4>1, <3>1, <2>1, <1>16, <1>18
        <5> QED BY <4>1, <5>1, <1>18, <1>21
      <4>2. CASE i \notin S
        <5>1. h.frames[i] = m.frames[i] BY <4>2, <3>1, <1>16, <1>18
        <5> QED BY <5>1, <3>1, <2>1, <1>6
      <4> QED BY <4>1, <4>2
    <3>3. h.frames[i].notification = g.frames[i].notification BY <3>1, <1>16, <1>18
    <3> QED BY <3>1, <3>2, <3>3, <1>2 DEF Settled, Outcome
  <2> QED BY <2>1 DEF Settled
<1>30. Unreported(h)
  <2> SUFFICES ASSUME NEW i \in Frames(h) \ {ROOT},
                      ~h.frames[h.frames[i].parent.frame].cancelling,
                      h.frames[i].notification # "Emitted"
               PROVE  /\ h.frames[h.frames[i].parent.frame].round.attempt = h.frames[i].parent.round
                      /\ ~h.frames[h.frames[i].parent.frame].round.failed =>
                            ~h.frames[i].cancelling
    BY DEF Unreported
  <2> DEFINE p == g.frames[i].parent
  <2>1. i \in Frames(g) /\ h.frames[i].parent = p /\ g.frames[i].notification # "Emitted"
        /\ p.frame \in Frames(g)
    BY <1>16, <1>18, <1>22
  <2>2. p.frame \notin S
    <3> SUFFICES ASSUME p.frame \in S PROVE FALSE OBVIOUS
    <3>1. p.frame = ignore BY <2>1, <1>16, <1>18
    <3>2. ~g.frames[p.frame].cancelling /\ g.frames[p.frame].round = NoRound BY <3>1, <1>21
    <3>3. g.frames[p.frame].round.attempt = p.round BY <2>1, <3>2, <1>2 DEF Unreported
    <3> QED BY <2>1, <3>2, <3>3, <1>15, <1>22
  <2>3. h.frames[p.frame] = m.frames[p.frame] BY <2>1, <2>2, <1>16, <1>18
  <2>4. ~g.frames[p.frame].cancelling /\ h.frames[p.frame].round.attempt = g.frames[p.frame].round.attempt
    BY <2>1, <2>3, <1>6
  <2>5. g.frames[p.frame].round.attempt = p.round
        /\ (~g.frames[p.frame].round.failed => ~g.frames[i].cancelling)
    BY <2>1, <2>4, <1>2 DEF Unreported
  <2>6. CASE p.frame = id
    <3>1. PICK f \in FrameRecords : f = g.frames[id] BY <1>1
    <3>2. m.frames[id].round = r BY <3>1, <1>5 DEF FrameRecords
    <3> QED BY <3>2, <2>1, <2>3, <2>4, <2>5, <2>6, <1>5
  <2>7. CASE p.frame # id
    <3>1. i \notin S
      <4>1. i \in S => i \in R \/ p.frame \in S BY <1>10
      <4> QED BY <4>1, <2>2, <2>7, <1>9
    <3>2. h.frames[i].cancelling = g.frames[i].cancelling BY <3>1, <2>1, <1>6, <1>16, <1>18
    <3>3. h.frames[p.frame].round = g.frames[p.frame].round BY <2>1, <2>3, <2>7, <1>6
    <3> QED BY <3>2, <3>3, <2>1, <2>5
  <2> QED BY <2>6, <2>7
<1>31. Due(h, S)
  <2>1. ASSUME NEW i \in Frames(h)
        PROVE  /\ h.frames[i].cancelling =>
                    Outcome(h.frames[i]) # None /\ (i # ROOT /\ h.frames[i].notification = "Waiting" => i \in S)
               /\ h.frames[i].notification # "Waiting" => i # ROOT /\ Outcome(h.frames[i]) # None
    <3>1. i \in Frames(g) /\ h.frames[i].notification = g.frames[i].notification BY <1>16, <1>18
    <3>2. CASE i \in S BY <3>1, <3>2, <1>16, <1>18, <1>24
    <3>3. CASE i \notin S
      <4>1. h.frames[i] = m.frames[i] BY <3>1, <3>3, <1>16, <1>18
      <4>2. /\ h.frames[i].cancelling = g.frames[i].cancelling
            /\ Outcome(h.frames[i]) = Outcome(g.frames[i]) BY <4>1, <3>1, <1>6 DEF Outcome
      <4> QED BY <3>1, <4>2, <1>2 DEF Notified
    <3> QED BY <3>2, <3>3
  <2>2. Range(h.pending) = {i \in Frames(h) : h.frames[i].notification = "Queued"}
    BY <1>2, <1>16, <1>18 DEF Notified
  <2>3. ASSUME NEW j \in 1..Len(h.pending), NEW n \in 1..Len(h.pending), j <= n
        PROVE  h.frames[h.pending[n]].parent.frame # h.pending[j]
    <3>1. h.pending \in Seq(Nat) BY <1>18, FrameTypes
    <3>2. h.pending[n] \in Range(h.pending) BY <3>1, ElementsOf
    <3>3. h.pending[n] \in Frames(g) BY <3>2, <2>2, <1>18
    <3>4. g.frames[g.pending[n]].parent.frame # g.pending[j] BY <2>3, <1>2, <1>18 DEF Notified
    <3> QED BY <3>3, <3>4, <1>16, <1>18
  <2>4. IsInjective(h.pending) BY <1>2, <1>18 DEF Notified
  <2>5. ASSUME NEW i \in Untold(h, S), h.frames[i].parent.frame \in Frames(h)
        PROVE  h.frames[h.frames[i].parent.frame].notification # "Queued"
    <3>1. i \in S /\ h.frames[i].notification = "Waiting" BY DEF Untold
    <3>2. i \in Frames(g) \ {ROOT} BY <3>1, <1>10, <1>24
    <3>3. g.frames[i].notification = "Waiting" /\ g.frames[i].parent = h.frames[i].parent
      BY <3>1, <3>2, <1>16, <1>18
    <3>4. ~g.frames[g.frames[i].parent.frame].cancelling
      BY <3>2, <3>3, <1>2, CancelledBelow
    <3>5. g.frames[g.frames[i].parent.frame].notification # "Queued"
      BY <3>3, <3>4, <2>5, <1>2, <1>18 DEF Still
    <3> QED BY <3>3, <3>5, <2>5, <1>16, <1>18
  <2> QED BY <2>1, <2>2, <2>3, <2>4, <2>5 DEF Due
<1>32. Steady(g, h)
  <2>1. Books(h) = Books(g) BY <1>16, <1>18, BooksSame
  <2>2. ASSUME NEW i \in Frames(h) PROVE Elder(g.frames[i], h.frames[i])
    <3>1. i \in Frames(g) BY <1>18
    <3>2. CASE i \in S
      <4>1. CASE i = ignore BY <4>1, <3>1, <3>2, <1>16, <1>18, <1>21 DEF Elder
      <4>2. CASE i # ignore BY <4>2, <3>1, <3>2, <1>16, <1>18 DEF Elder
      <4> QED BY <4>1, <4>2
    <3>3. CASE i \notin S
      <4>1. h.frames[i] = m.frames[i] BY <3>1, <3>3, <1>16, <1>18
      <4>2. g.frames[i].round.failed => m.frames[i].round.failed
        <5>1. CASE i = id
          <6>1. PICK f \in FrameRecords : f = g.frames[id] BY <1>1
          <6>2. m.frames[id] = [f EXCEPT !.round = r] BY <6>1, <1>5
          <6>3. m.frames[id].round = r BY <6>2 DEF FrameRecords
          <6> QED BY <5>1, <6>3, <1>5
        <5>2. CASE i # id BY <5>2, <3>1, <1>6
        <5> QED BY <5>1, <5>2
      <4> QED BY <3>1, <4>1, <4>2, <1>6 DEF Elder
    <3> QED BY <3>2, <3>3
  <2>3. Quiet(g, h) BY <1>16, <1>18 DEF Quiet
  <2> QED BY <1>18, <2>1, <2>2, <2>3 DEF Steady
<1>34. Branches(h) BY <1>26, <1>28, <1>29, <1>30 DEF Branches
<1> QED BY <1>10, <1>13, <1>18, <1>25, <1>31, <1>32, <1>34

LEMMA FailRoundIs ==
    ASSUME NEW b, NEW g, Coherent(g, b), NEW id \in Frames(g), g.frames[id].round # NoRound,
           NEW ignore, Spared(g, id, ignore)
    PROVE  LET h == fail_round_from(g, id, ignore)
           IN /\ Coherent(h, b) /\ Steady(g, h) /\ h.outcome = g.outcome
              /\ ignore \in Frames(g) => h.outcome = None
<1>1. CASE g.frames[id].round.failed
  <2>1. fail_round_from(g, id, ignore) = g BY <1>1 DEF fail_round_from, Has
  <2>2. ~g.frames[id].cancelling BY DEF Coherent, Branches, Joins
  <2>3. g.outcome = None BY <2>2 DEF Coherent, Core, Halted
  <2> QED BY <2>1, <2>3, SteadyRefl
<1>2. CASE ~g.frames[id].round.failed
  <2>1. PICK m : m = MarkFailed(g, id) OBVIOUS
  <2>2. PICK S : S = Below(m, RoundChildren(m, id)) OBVIOUS
  <2>3. PICK k : k = Cancelled(g, id, S, ignore) OBVIOUS
  <2>4. /\ Core(k, b) /\ Branches(k) /\ Due(k, S) /\ Frames(k) = Frames(g)
        /\ S \subseteq Frames(g) /\ Steady(g, k) /\ k.outcome = g.outcome /\ k.next = g.next
    BY <2>1, <2>2, <2>3, CancelledIs
  <2>5. PICK ids : ids = Descending(m, S) OBVIOUS
  <2>6. ids \in Seq(Nat) /\ Range(ids) \subseteq Frames(k)
    <3>1. m.next = g.next BY <2>1 DEF MarkFailed, Coherent, Core, Schedulers
    <3>2. Frames(g) \subseteq Nat /\ g.next \in Nat BY FrameTypes DEF Coherent, Core
    <3>3. S \subseteq 0..(m.next - 1) BY <2>4, <3>1, <3>2 DEF Coherent, Core, Tree
    <3> QED BY <3>1, <3>2, <3>3, <2>4, <2>5, DescendingIs
  <2>7. PICK w : w = Retire(k, S, ids) OBVIOUS
  <2>8. Tidies(k, w) /\ Notified(w) /\ Quiet(k, w) BY <2>4, <2>6, <2>7, RetireIs
  <2>9. Core(w, b) /\ Branches(w) BY <2>4, <2>8, TidyCore, TidyLive
  <2>10. w.outcome = g.outcome /\ w.outcome # "Internal" BY <2>4, <2>8 DEF Tidies, Coherent
  <2>11. Coherent(w, b) BY <2>8, <2>9, <2>10 DEF Coherent
  <2>12. Steady(g, w) BY <2>4, <2>8, TidySteady, SteadyTrans
  <2>13. fail_round_from(g, id, ignore) = enqueue(w, id, FALSE)
    BY <1>2, <2>1, <2>2, <2>3, <2>5, <2>7
       DEF fail_round_from, Has, cancel_round, CancelFrames, Cancelled
  <2>14. id \in Nat BY FrameTypes DEF Coherent, Core
  <2>15. Tidies(w, enqueue(w, id, FALSE)) /\ Silent(w, enqueue(w, id, FALSE))
    BY <2>9, <2>14, EnqueueIs
  <2>16. Coherent(enqueue(w, id, FALSE), b) /\ Steady(w, enqueue(w, id, FALSE))
         /\ enqueue(w, id, FALSE).outcome = w.outcome
    BY <2>11, <2>15, SilentCoherent DEF Tidies
  <2>17. g.outcome = None
    <3>1. ~g.frames[id].cancelling BY DEF Coherent, Branches, Joins
    <3> QED BY <3>1 DEF Coherent, Core, Halted
  <2> QED BY <2>10, <2>12, <2>13, <2>16, <2>17, SteadyTrans
<1> QED BY <1>1, <1>2
=============================================================================
