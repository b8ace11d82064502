----------------------------- MODULE StepProofs -----------------------------
(***************************************************************************)
(* Proofs about one execution: the actor, its worker and its watchers keep   *)
(* the scheduler sound, the verdict in step with it, the frames of running   *)
(* calls registered, and the execution contract.                            *)
(***************************************************************************)
EXTENDS StepExecution, SchedulerProofs

CallRecords == [seen : BOOLEAN, cancelled : BOOLEAN, settled : {None, "clean", "dirty"},
                deadline : Nat]
Watchers == {"running", "closing", "clean", "dirty"}

IsActor(a) ==
    /\ a \in [calls : Partial(CallIds, CallRecords), pending : Partial(CallIds, Nat),
              acks : SUBSET CallIds, forced : Outcomes, committed : Outcomes, published : Outcomes,
              park : {a.park}, uncertain : {a.uncertain}, unrecorded : BOOLEAN, ended : BOOLEAN]
    /\ a.unrecorded => a.published = "Unsafe"

\* actor a has told its caller of outcome o, or that its event could not be kept
Informs(a, o) == a.published = Said(a, o) /\ (a.unrecorded => o \in {"Succeeded", "Failed", "Aborted"})

IsPair(s) == s = [a |-> s.a, g |-> s.g]

IsWorker(w) ==
    /\ w \in [st : {"idle", "permit", "running", "done"}, op : {None, "Advance", "Complete"},
              call : {w.call}, ok : {w.ok}, at : Nat, update : {w.update}]
    /\ w.st # "idle" /\ w.op # "Advance" => w.call \in CallIds

\* calls that the actor has heard of: their attempts are not used again
Known(G, C, p) ==
    \A c \in C : /\ c \in CallIds /\ c.frame < G.next /\ c.attempt \in 1..p.budget
                 /\ c.frame \in Frames(G) => c.attempt <= G.frames[c.frame].generation

\* a and G with the watchers W, when the calls A have been accepted
Tended(a, G, W, A, p) ==
    /\ IsActor(a) /\ Sound(G, p) /\ IsFiniteSet(a.acks)
    /\ Known(G, A \cup a.acks \cup DOMAIN a.pending, p)
    /\ DOMAIN W \subseteq DOMAIN a.calls /\ DOMAIN a.calls \subseteq A
    /\ \A c \in DOMAIN a.pending : c \notin A /\ c \notin a.acks
    /\ \A c \in DOMAIN W \cup DOMAIN a.pending : c \in Books(G)
    /\ \A c \in DOMAIN W : c \notin a.acks /\ a.calls[c].settled = None

-----------------------------------------------------------------------------
(* Acknowledging settled calls.                                             *)

LEMMA FirstCallIs ==
    ASSUME NEW S, S \subseteq CallIds, S # {}
    PROVE  FirstCall(S) \in S
<1>1. PICK T : T = {c.frame : c \in S} OBVIOUS
<1>2. T \subseteq Nat /\ T # {} BY <1>1 DEF CallIds
<1>3. PICK i \in T : \A m \in T : i <= m BY <1>2, LeastNat
<1>4. PICK U : U = {c.attempt : c \in {d \in S : d.frame = i}} OBVIOUS
<1>5. U \subseteq Nat /\ U # {} BY <1>1, <1>3, <1>4 DEF CallIds
<1>6. PICK m \in U : \A n \in U : m <= n BY <1>5, LeastNat
<1>7. PICK c \in S : c.frame = i /\ c.attempt = m BY <1>4, <1>6
<1>8. ASSUME NEW d \in S PROVE c = d \/ CallOrder(c, d)
  <2>1. c \in CallIds /\ d \in CallIds OBVIOUS
  <2>2. d.frame \in Nat /\ d.attempt \in Nat /\ i \in Nat /\ m \in Nat BY <1>7, <2>1 DEF CallIds
  <2>3. i <= d.frame BY <1>1, <1>3
  <2>4. CASE i < d.frame BY <1>7, <2>4 DEF CallOrder
  <2>5. CASE d.frame = i
    <3>1. m <= d.attempt BY <1>4, <1>6, <2>5
    <3>2. CASE m < d.attempt BY <1>7, <2>5, <3>2 DEF CallOrder
    <3>3. CASE m = d.attempt BY <1>7, <2>1, <2>5, <3>3 DEF CallIds
    <3> QED BY <2>2, <3>1, <3>2, <3>3
  <2> QED BY <2>2, <2>3, <2>4, <2>5
<1> QED BY <1>7, <1>8 DEF FirstCall

LEMMA KnownLoses ==
    ASSUME NEW G, NEW H, NEW S, Loses(G, H, S), NEW C, NEW p, Known(G, C, p)
    PROVE  Known(H, C, p)
<1>1. ASSUME NEW c \in C, c.frame \in Frames(H)
      PROVE  c.attempt <= H.frames[c.frame].generation
  <2>1. c.frame \in Frames(G) /\ Kept(G.frames[c.frame], H.frames[c.frame]) BY <1>1 DEF Loses
  <2>2. H.frames[c.frame].generation = G.frames[c.frame].generation BY <2>1 DEF Kept
  <2> QED BY <2>1, <2>2 DEF Known
<1>2. H.next = G.next BY DEF Loses
<1> QED BY <1>1, <1>2 DEF Known

\* what acknowledging does: R leaves the books and the actor's fields
Acknowledges(s, t, R, p) ==
    /\ IsPair(t) /\ IsActor(t.a) /\ Sound(t.g, p) /\ Loses(s.g, t.g, R)
    /\ t.g.outcome = s.g.outcome
    /\ R \subseteq s.a.acks /\ t.a.acks = s.a.acks \ R
    /\ DOMAIN t.a.calls = DOMAIN s.a.calls \ R
    /\ \A c \in DOMAIN t.a.calls : t.a.calls[c] = s.a.calls[c]
    /\ t.a.pending = s.a.pending /\ t.a.forced = s.a.forced /\ t.a.committed = s.a.committed
    /\ t.a.published = s.a.published /\ t.a.unrecorded = s.a.unrecorded
    /\ t.a.ended = s.a.ended

LEMMA DropCalls ==
    ASSUME NEW D, NEW R, NEW f, f \in Partial(D, R), NEW S
    PROVE  Drop(f, S) \in Partial(D, R)
<1>1. DOMAIN f \subseteq D /\ f \in [DOMAIN f -> R] BY PartialFn
<1>2. Drop(f, S) = [y \in DOMAIN f \ S |-> f[y]] BY DEF Drop, Restrict
<1>3. DOMAIN Drop(f, S) \subseteq D /\ Drop(f, S) \in [DOMAIN Drop(f, S) -> R]
      /\ DOMAIN Drop(f, S) = DOMAIN f \ S
  BY <1>1, <1>2
<1> QED BY <1>2, <1>3, PartialFn

LEMMA AcknowledgedIs ==
    ASSUME NEW p \in Plans, NEW s, IsPair(s), IsActor(s.a), Sound(s.g, p), NEW c \in s.a.acks
    PROVE  LET t == Acknowledged(s, c, retired(s.g, c))
           IN \E R \in SUBSET {c} : Acknowledges(s, t, R, p)
<1>1. PICK a : a = s.a OBVIOUS
<1>2. PICK G : G = s.g OBVIOUS
<1>3. IsActor(a) /\ Sound(G, p) /\ c \in a.acks BY <1>1, <1>2
<1>4. c \in CallIds BY <1>3 DEF IsActor
<1>5. PICK r : r = retired(G, c) OBVIOUS
<1>6. /\ Sound(r.g, p) /\ Loses(G, r.g, IF r.changed THEN {c} ELSE {})
      /\ r.g.outcome = G.outcome /\ (r.ok => c \notin Books(r.g))
  BY <1>3, <1>4, <1>5, RetiredIs
<1>7. CASE ~r.ok
  <2>1. Loses(G, G, {}) BY <1>3, CalmRefl, SteadyLoses DEF Calm
  <2>2. Acknowledged(s, c, r) = s BY <1>7 DEF Acknowledged
  <2>3. Acknowledges(s, s, {}, p) BY <1>1, <1>2, <1>3, <2>1 DEF Acknowledges
  <2> QED BY <1>2, <1>5, <2>2, <2>3
<1>8. CASE r.ok
  <2>1. PICK R : R = {c} OBVIOUS
  <2>2. Loses(G, r.g, R)
    <3>1. c \notin Books(r.g) BY <1>6, <1>8
    <3>2. Books(r.g) = Books(G) \ {c} BY <1>6, <3>1 DEF Loses
    <3> QED BY <1>6, <2>1, <3>2 DEF Loses
  <2>3. PICK f : f = Drop(a.calls, R) OBVIOUS
  <2>4. f \in Partial(CallIds, CallRecords) /\ DOMAIN f = DOMAIN a.calls \ R
        /\ \A d \in DOMAIN f : f[d] = a.calls[d]
    <3>1. PICK Q : Q = CallRecords OBVIOUS
    <3>2. PICK D : D = CallIds OBVIOUS
    <3>3. a.calls \in Partial(D, Q) BY <1>3, <3>1, <3>2 DEF IsActor
    <3>4. /\ f \in Partial(D, Q) /\ DOMAIN f = DOMAIN a.calls \ R
          /\ \A d \in DOMAIN a.calls \ R : f[d] = a.calls[d]
      <4>1. PICK e : e = a.calls OBVIOUS
      <4>2. e \in Partial(D, Q) BY <3>3, <4>1
      <4>3. f = Drop(e, R) BY <2>3, <4>1
      <4>4. /\ Drop(e, R) \in Partial(D, Q) /\ DOMAIN Drop(e, R) = DOMAIN e \ R
            /\ \A d \in DOMAIN e \ R : Drop(e, R)[d] = e[d]
        <5>1. Drop(e, R) \in Partial(D, Q) BY <4>2, DropCalls, Zenon
        <5>2. DOMAIN Drop(e, R) = DOMAIN e \ R BY DEF Drop, Restrict
        <5>3. \A d \in DOMAIN e \ R : Drop(e, R)[d] = e[d] BY DEF Drop, Restrict
        <5> QED BY <5>1, <5>2, <5>3
      <4> QED BY <4>1, <4>3, <4>4
    <3> QED BY <3>1, <3>2, <3>4
  <2>5. PICK k : k = IF r.changed THEN Running ELSE a.park OBVIOUS
  <2>6. PICK b : b = [a EXCEPT !.acks = a.acks \ R, !.calls = f, !.park = k] OBVIOUS
  <2>7. /\ IsActor(b) /\ b.acks = a.acks \ R /\ b.calls = f
        /\ b.pending = a.pending /\ b.forced = a.forced /\ b.committed = a.committed
        /\ b.published = a.published /\ b.unrecorded = a.unrecorded /\ b.ended = a.ended
    BY <1>3, <2>4, <2>6 DEF IsActor
  <2>8. PICK t : t = Acknowledged(s, c, r) OBVIOUS
  <2>9. t = [g |-> r.g, a |-> b] BY <1>1, <1>8, <2>1, <2>3, <2>5, <2>6, <2>8 DEF Acknowledged
  <2>10. IsPair(t) /\ t.a = b /\ t.g = r.g BY <2>9 DEF IsPair
  <2>11. Acknowledges(s, t, R, p)
    BY <1>1, <1>2, <1>3, <1>6, <2>1, <2>2, <2>4, <2>7, <2>10 DEF Acknowledges
  <2> QED BY <1>2, <1>5, <2>1, <2>8, <2>11
<1> QED BY <1>7, <1>8

LEMMA AcknowledgesRefl ==
    ASSUME NEW p \in Plans, NEW s, IsPair(s), IsActor(s.a), Sound(s.g, p)
    PROVE  Acknowledges(s, s, {}, p)
<1>1. Loses(s.g, s.g, {}) BY CalmRefl, SteadyLoses DEF Calm
<1> QED BY <1>1 DEF Acknowledges

LEMMA AcknowledgesTrans ==
    ASSUME NEW s, NEW t, NEW u, NEW R, NEW S, NEW p, Acknowledges(s, t, R, p),
           Acknowledges(t, u, S, p)
    PROVE  Acknowledges(s, u, R \cup S, p)
<1>1. Loses(s.g, u.g, R \cup S) BY LosesTrans DEF Acknowledges
<1>2. R \cup S \subseteq s.a.acks /\ u.a.acks = s.a.acks \ (R \cup S) BY DEF Acknowledges
<1>3. DOMAIN u.a.calls = DOMAIN s.a.calls \ (R \cup S)
  <2>1. PICK D : D = DOMAIN s.a.calls OBVIOUS
  <2>2. PICK E : E = DOMAIN t.a.calls OBVIOUS
  <2>3. PICK F : F = DOMAIN u.a.calls OBVIOUS
  <2>4. E = D \ R /\ F = E \ S BY <2>1, <2>2, <2>3 DEF Acknowledges
  <2>5. F = D \ (R \cup S) BY <2>4
  <2> QED BY <2>1, <2>3, <2>5
<1>4. ASSUME NEW c \in DOMAIN u.a.calls PROVE u.a.calls[c] = s.a.calls[c]
  <2>1. c \in DOMAIN t.a.calls BY DEF Acknowledges
  <2> QED BY <2>1 DEF Acknowledges
<1> QED BY <1>1, <1>2, <1>3, <1>4 DEF Acknowledges

\* f[n] is what n calls acknowledged, and the calls left, give
AckFold(f, s, n) ==
    f = [i \in 0..n |-> IF i = 0 THEN [s |-> s, left |-> s.a.acks]
                                 ELSE AcknowledgeFirst(f[i - 1])]

LEMMA AckFoldExtends ==
    ASSUME NEW s, NEW n \in Nat, NEW f, AckFold(f, s, n)
    PROVE  \E e : AckFold(e, s, n + 1)
<1>1. PICK last : last = AcknowledgeFirst(f[n]) OBVIOUS
<1>2. PICK e : e = [i \in 0..(n + 1) |-> IF i = n + 1 THEN last ELSE f[i]] OBVIOUS
<1> DEFINE first == [s |-> s, left |-> s.a.acks]
<1>3. ASSUME NEW i \in 0..(n + 1)
      PROVE  e[i] = IF i = 0 THEN first ELSE AcknowledgeFirst(e[i - 1])
  <2> HIDE DEF first
  <2>1. CASE i = n + 1
    <3>1. n \in 0..(n + 1) /\ n # n + 1 /\ i - 1 = n /\ i # 0 BY <2>1
    <3>2. e[i] = last /\ e[i - 1] = f[n] BY <2>1, <3>1, <1>2
    <3> QED BY <3>1, <3>2, <1>1, <2>1
  <2>2. CASE i = 0
    <3>1. e[0] = f[0] BY <1>2
    <3>2. f[0] = first BY DEF AckFold, first
    <3> QED BY <3>1, <3>2, <2>2
  <2>3. CASE i \in 1..n
    <3>1. i \in 0..n /\ i - 1 \in 0..(n + 1) /\ i # n + 1 /\ i - 1 # n + 1 /\ i # 0 BY <2>3
    <3>2. e[i] = f[i] /\ e[i - 1] = f[i - 1] BY <3>1, <1>2
    <3>3. f[i] = AcknowledgeFirst(f[i - 1]) BY <3>1 DEF AckFold
    <3> QED BY <3>1, <3>2, <3>3
  <2> QED BY <2>1, <2>2, <2>3
<1>4. e = [i \in 0..(n + 1) |-> e[i]] BY <1>2
<1> QED BY <1>3, <1>4, Zenon DEF AckFold

LEMMA ReconcileFold ==
    ASSUME NEW s, NEW m, m = Cardinality(s.a.acks), m \in Nat
    PROVE  \E f : /\ reconcile(s) = f[m].s /\ f[0] = [s |-> s, left |-> s.a.acks]
                  /\ \A i \in 1..m : f[i] = AcknowledgeFirst(f[i - 1])
<1>1. PICK T : T = {n \in Nat : \E f : AckFold(f, s, n)} OBVIOUS
<1>2. 0 \in T
  <2>1. PICK z : z = [s |-> s, left |-> s.a.acks] OBVIOUS
  <2>2. PICK f : f = [i \in 0..0 |-> z] OBVIOUS
  <2>3. AckFold(f, s, 0) BY <2>1, <2>2 DEF AckFold
  <2> QED BY <1>1, <2>3
<1>3. ASSUME NEW n \in Nat, n \in T PROVE n + 1 \in T
  <2>1. PICK f : AckFold(f, s, n) BY <1>1, <1>3
  <2>2. PICK e : AckFold(e, s, n + 1) BY <2>1, AckFoldExtends
  <2> QED BY <1>1, <2>2
<1>4. Nat \subseteq T BY <1>2, <1>3, Induction
<1>5. \E f : AckFold(f, s, m) BY <1>1, <1>4
<1> DEFINE chosen == CHOOSE f : AckFold(f, s, m)
<1>6. AckFold(chosen, s, m) BY <1>5
<1>7. reconcile(s) = chosen[m].s BY Zenon DEF reconcile, AckFold
<1> HIDE DEF chosen
<1>8. chosen[0] = [s |-> s, left |-> s.a.acks] BY <1>6 DEF AckFold
<1>9. ASSUME NEW i \in 1..m PROVE chosen[i] = AcknowledgeFirst(chosen[i - 1])
  <2>1. i \in 0..m /\ i # 0 OBVIOUS
  <2> QED BY <2>1, <1>6 DEF AckFold
<1> QED BY <1>7, <1>8, <1>9

\* so far: t.s has acknowledged calls of s, and m more are left
Underway(s, t, m, p) ==
    /\ IsFiniteSet(t.left) /\ Cardinality(t.left) = m /\ t.left \subseteq t.s.a.acks
    /\ \E R : Acknowledges(s, t.s, R, p)

LEMMA UnderwayStep ==
    ASSUME NEW p \in Plans, NEW s, NEW t, NEW m \in Nat, Underway(s, t, m + 1, p)
    PROVE  Underway(s, AcknowledgeFirst(t), m, p)
<1>1. PICK L : L = t.left OBVIOUS
<1>2. PICK R : Acknowledges(s, t.s, R, p) BY DEF Underway
<1>3. IsFiniteSet(L) /\ Cardinality(L) = m + 1 /\ L \subseteq t.s.a.acks BY <1>1 DEF Underway
<1>4. L # {} BY <1>3, FS_EmptySet
<1>5. L \subseteq CallIds BY <1>2, <1>3 DEF Acknowledges, IsActor
<1>6. PICK c : c = FirstCall(L) OBVIOUS
<1>7. c \in L BY <1>4, <1>5, <1>6, FirstCallIs
<1>8. PICK k : k = Acknowledged(t.s, c, retired(t.s.g, c)) OBVIOUS
<1>9. PICK S : S \subseteq {c} /\ Acknowledges(t.s, k, S, p)
  <2>1. IsPair(t.s) /\ IsActor(t.s.a) /\ Sound(t.s.g, p) BY <1>2 DEF Acknowledges
  <2>2. \E S \in SUBSET {c} : Acknowledges(t.s, k, S, p)
    BY <1>3, <1>7, <1>8, <2>1, AcknowledgedIs
  <2> QED BY <2>2
<1>10. Acknowledges(s, k, R \cup S, p) BY <1>2, <1>9, AcknowledgesTrans
<1>11. IsFiniteSet(L \ {c}) /\ Cardinality(L \ {c}) = m
  <2>1. /\ IsFiniteSet(L \ {c})
        /\ Cardinality(L \ {c}) = IF c \in L THEN Cardinality(L) - 1 ELSE Cardinality(L)
    BY <1>3, FS_RemoveElement
  <2>2. (m + 1) - 1 = m OBVIOUS
  <2> QED BY <1>3, <1>7, <2>1, <2>2
<1>12. L \ {c} \subseteq k.a.acks
  <2>1. k.a.acks = t.s.a.acks \ S BY <1>9 DEF Acknowledges
  <2> QED BY <1>3, <1>9, <2>1
<1>13. PICK q : q = AcknowledgeFirst(t) OBVIOUS
<1>14. q = [s |-> k, left |-> L \ {c}] BY <1>1, <1>6, <1>8, <1>13 DEF AcknowledgeFirst
<1>15. q.s = k /\ q.left = L \ {c} BY <1>14
<1> QED BY <1>10, <1>11, <1>12, <1>13, <1>15 DEF Underway

\* reconcile retires some of the settled calls.
LEMMA ReconcileIs ==
    ASSUME NEW p \in Plans, NEW s, IsPair(s), IsActor(s.a), Sound(s.g, p), IsFiniteSet(s.a.acks)
    PROVE  \E R : Acknowledges(s, reconcile(s), R, p)
<1>1. PICK N \in Nat : N = Cardinality(s.a.acks) BY FS_CardinalityType
<1>2. PICK f : /\ reconcile(s) = f[N].s /\ f[0] = [s |-> s, left |-> s.a.acks]
               /\ \A i \in 1..N : f[i] = AcknowledgeFirst(f[i - 1])
  BY <1>1, ReconcileFold
<1>3. PICK T : T = {k \in Nat : k <= N => Underway(s, f[k], N - k, p)} OBVIOUS
<1>4. 0 \in T
  <2>1. Acknowledges(s, s, {}, p) BY AcknowledgesRefl
  <2>2. f[0].s = s /\ f[0].left = s.a.acks BY <1>2
  <2>3. Underway(s, f[0], N - 0, p) BY <1>1, <2>1, <2>2 DEF Underway
  <2> QED BY <1>3, <2>3
<1>5. ASSUME NEW k \in Nat, k \in T PROVE k + 1 \in T
  <2>1. CASE k + 1 <= N
    <3>1. Underway(s, f[k], N - k, p) BY <1>3, <1>5, <2>1
    <3>2. f[k + 1] = AcknowledgeFirst(f[k]) BY <1>2, <2>1
    <3>3. N - (k + 1) \in Nat /\ N - k = (N - (k + 1)) + 1 BY <2>1
    <3>4. Underway(s, f[k + 1], N - (k + 1), p) BY <3>1, <3>2, <3>3, UnderwayStep
    <3> QED BY <1>3, <3>4
  <2>2. CASE ~(k + 1 <= N) BY <1>3, <2>2
  <2> QED BY <2>1, <2>2
<1>6. Nat \subseteq T BY <1>4, <1>5, Induction
<1>7. Underway(s, f[N], N - N, p) BY <1>3, <1>6
<1> QED BY <1>2, <1>7 DEF Underway

LEMMA ReconcileTended ==
    ASSUME NEW p, NEW s, NEW t, NEW R, Acknowledges(s, t, R, p), NEW W, NEW A,
           Tended(s.a, s.g, W, A, p)
    PROVE  Tended(t.a, t.g, W, A, p)
<1>1. Known(s.g, A \cup s.a.acks \cup DOMAIN s.a.pending, p) BY DEF Tended
<1>2. t.a.acks \subseteq s.a.acks /\ t.a.pending = s.a.pending BY DEF Acknowledges
<1>3. Known(t.g, A \cup s.a.acks \cup DOMAIN s.a.pending, p)
  BY <1>1, KnownLoses DEF Acknowledges
<1>4. Known(t.g, A \cup t.a.acks \cup DOMAIN t.a.pending, p) BY <1>2, <1>3 DEF Known
<1>5. IsFiniteSet(t.a.acks)
  <2>1. IsFiniteSet(s.a.acks) BY DEF Tended
  <2> QED BY <1>2, <2>1, FS_Subset
<1>6. ASSUME NEW c \in DOMAIN W
      PROVE  /\ c \in DOMAIN t.a.calls /\ c \in Books(t.g) /\ c \notin t.a.acks
             /\ t.a.calls[c].settled = None
  <2>1. /\ c \in DOMAIN s.a.calls /\ c \in Books(s.g) /\ c \notin s.a.acks
        /\ s.a.calls[c].settled = None
    BY DEF Tended
  <2>2. c \notin R BY <2>1 DEF Acknowledges
  <2>3. c \in DOMAIN t.a.calls BY <2>1, <2>2 DEF Acknowledges
  <2>4. t.a.calls[c] = s.a.calls[c] BY <2>3 DEF Acknowledges
  <2>5. c \in Books(t.g)
    <3>1. Books(t.g) = Books(s.g) \ R BY DEF Acknowledges, Loses
    <3> QED BY <2>1, <2>2, <3>1
  <2> QED BY <1>2, <2>1, <2>3, <2>4, <2>5
<1>7. ASSUME NEW c \in DOMAIN t.a.pending
      PROVE  c \notin A /\ c \notin t.a.acks /\ c \in Books(t.g)
  <2>1. c \notin A /\ c \notin s.a.acks /\ c \in Books(s.g) BY <1>2, <1>7 DEF Tended
  <2>2. c \notin R BY <2>1 DEF Acknowledges
  <2>3. Books(t.g) = Books(s.g) \ R BY DEF Acknowledges, Loses
  <2> QED BY <1>2, <2>1, <2>2, <2>3
<1>8. DOMAIN t.a.calls \subseteq A
  <2>1. DOMAIN s.a.calls \subseteq A BY DEF Tended
  <2>2. DOMAIN t.a.calls = DOMAIN s.a.calls \ R BY DEF Acknowledges
  <2> QED BY <2>1, <2>2
<1>9. IsActor(t.a) /\ Sound(t.g, p) BY DEF Acknowledges
<1>10. DOMAIN W \subseteq DOMAIN t.a.calls BY <1>6
<1> QED BY <1>4, <1>5, <1>6, <1>7, <1>8, <1>9, <1>10 DEF Tended

-----------------------------------------------------------------------------
(* Changes of the actor's own fields.                                       *)

\* calls on the books are known
LEMMA BooksKnown ==
    ASSUME NEW p \in Plans, NEW G, Sound(G, p)
    PROVE  Known(G, Books(G), p)
<1>1. ASSUME NEW c \in Books(G)
      PROVE  /\ c \in CallIds /\ c.frame < G.next /\ c.attempt \in 1..p.budget
             /\ c.frame \in Frames(G) /\ c.attempt <= G.frames[c.frame].generation
  <2>1. PICK i, m : i \in Frames(G) /\ m \in DOMAIN G.frames[i].calls /\ c = [frame |-> i, attempt |-> m]
    BY BooksIs
  <2>2. c.frame = i /\ c.attempt = m BY <2>1
  <2>3. i \in Nat /\ i < G.next /\ G.frames[i] \in FrameRecords /\ G.remaining \in Nat
    BY <2>1, SoundTypes
  <2>4. /\ G.frames[i].generation + G.remaining <= p.budget
        /\ DOMAIN G.frames[i].calls \subseteq 1..G.frames[i].generation
    BY <2>1, SoundTypes DEF Core, Budget
  <2>5. G.frames[i].generation \in Nat BY <2>3, RecordTypes
  <2>6. p.budget \in Nat BY PlanTypes
  <2>7. m \in 1..G.frames[i].generation BY <2>1, <2>4
  <2> QED BY <2>1, <2>2, <2>3, <2>4, <2>5, <2>6, <2>7 DEF CallIds
<1> QED BY <1>1 DEF Known

\* the verdict and what led to it
SameVerdict(a, b) ==
    /\ b.forced = a.forced /\ b.committed = a.committed /\ b.published = a.published
    /\ b.unrecorded = a.unrecorded /\ b.ended = a.ended

\* b is a but for what is noted about call c
Notes(a, b, c) ==
    /\ IsActor(b) /\ DOMAIN b.calls = DOMAIN a.calls
    /\ \A d \in DOMAIN a.calls : d # c => b.calls[d].settled = a.calls[d].settled
    /\ b.acks = a.acks \/ b.acks = a.acks \cup {c}
    /\ DOMAIN b.pending \subseteq DOMAIN a.pending

LEMMA NotesTended ==
    ASSUME NEW p, NEW a, NEW G, NEW W, NEW A, Tended(a, G, W, A, p), NEW c, NEW b,
           Notes(a, b, c), Known(G, {c}, p), c \notin DOMAIN b.pending,
           c \in DOMAIN W => b.acks = a.acks /\ b.calls[c].settled = None
    PROVE  Tended(b, G, W, A, p)
<1>1. IsFiniteSet(b.acks)
  <2>1. IsFiniteSet(a.acks) BY DEF Tended
  <2>2. IsFiniteSet(a.acks \cup {c}) BY <2>1, FS_AddElement
  <2> QED BY <2>1, <2>2 DEF Notes
<1>2. Known(G, A \cup b.acks \cup DOMAIN b.pending, p)
  <2>1. PICK N : N = A \cup a.acks \cup DOMAIN a.pending OBVIOUS
  <2>2. Known(G, N, p) BY <2>1 DEF Tended
  <2>3. ASSUME NEW d \in A \cup b.acks \cup DOMAIN b.pending PROVE d \in N \/ d = c
    BY <2>1 DEF Notes
  <2> QED BY <2>2, <2>3 DEF Known
<1>3. ASSUME NEW d \in DOMAIN W
      PROVE  d \notin b.acks /\ b.calls[d].settled = None
  <2>1. d \notin a.acks /\ a.calls[d].settled = None /\ d \in DOMAIN a.calls BY DEF Tended
  <2>2. CASE d = c BY <2>1, <2>2
  <2>3. CASE d # c BY <2>1, <2>3 DEF Notes
  <2> QED BY <2>2, <2>3
<1>4. ASSUME NEW d \in DOMAIN b.pending
      PROVE  d \notin A /\ d \notin b.acks /\ d \in Books(G)
  <2>1. d \in DOMAIN a.pending BY <1>4 DEF Notes
  <2>2. d \notin A /\ d \notin a.acks /\ d \in Books(G) BY <2>1 DEF Tended
  <2>3. d # c BY <1>4
  <2> QED BY <2>2, <2>3 DEF Notes
<1>5. /\ DOMAIN W \subseteq DOMAIN b.calls /\ DOMAIN b.calls \subseteq A
      /\ \A d \in DOMAIN W : d \in Books(G)
  BY DEF Tended, Notes
<1>6. IsActor(b) /\ Sound(G, p) BY DEF Tended, Notes
<1> QED BY <1>1, <1>2, <1>3, <1>4, <1>5, <1>6 DEF Tended

LEMMA CallNoted ==
    ASSUME NEW f, f \in Partial(CallIds, CallRecords), NEW c \in DOMAIN f, NEW r \in CallRecords
    PROVE  LET e == [f EXCEPT ![c] = r]
           IN /\ e \in Partial(CallIds, CallRecords) /\ DOMAIN e = DOMAIN f /\ e[c] = r
              /\ \A d \in DOMAIN f : d # c => e[d] = f[d]
<1>1. PICK D : D = CallIds OBVIOUS
<1>2. PICK Q : Q = CallRecords OBVIOUS
<1>3. f \in Partial(D, Q) /\ r \in Q BY <1>1, <1>2
<1>4. DOMAIN f \subseteq D /\ f \in [DOMAIN f -> Q] BY <1>3, PartialFn
<1>5. PICK e : e = [f EXCEPT ![c] = r] OBVIOUS
<1>6. DOMAIN e = DOMAIN f /\ e[c] = r /\ \A d \in DOMAIN f : d # c => e[d] = f[d] BY <1>4, <1>5
<1>7. e \in [DOMAIN e -> Q] /\ DOMAIN e \subseteq D BY <1>3, <1>4, <1>5, <1>6
<1>8. e \in Partial(D, Q) BY <1>7, PartialFn
<1> QED BY <1>1, <1>2, <1>5, <1>6, <1>8

WithRecord(a, c, r, S, u) ==
    [a EXCEPT !.calls = [a.calls EXCEPT ![c] = r], !.acks = S, !.uncertain = u]

\* what NoteCancel, NoteResult and NoteExit do to the record of a call
LEMMA RecordNoted ==
    ASSUME NEW a, IsActor(a), NEW c \in DOMAIN a.calls, NEW r \in CallRecords, NEW S,
           S = a.acks \/ S = a.acks \cup {c}, NEW u
    PROVE  LET b == WithRecord(a, c, r, S, u)
           IN /\ Notes(a, b, c) /\ SameVerdict(a, b)
              /\ b.acks = S /\ b.calls[c] = r /\ b.pending = a.pending
<1>1. PICK e : e = [a.calls EXCEPT ![c] = r] OBVIOUS
<1>2. /\ e \in Partial(CallIds, CallRecords) /\ DOMAIN e = DOMAIN a.calls /\ e[c] = r
      /\ \A d \in DOMAIN a.calls : d # c => e[d] = a.calls[d]
  <2>1. a.calls \in Partial(CallIds, CallRecords) BY DEF IsActor
  <2>2. PICK f : f = a.calls OBVIOUS
  <2>3. f \in Partial(CallIds, CallRecords) /\ c \in DOMAIN f /\ e = [f EXCEPT ![c] = r]
    BY <1>1, <2>1, <2>2
  <2>4. /\ e \in Partial(CallIds, CallRecords) /\ DOMAIN e = DOMAIN f /\ e[c] = r
        /\ \A d \in DOMAIN f : d # c => e[d] = f[d]
    BY <2>3, CallNoted
  <2> QED BY <2>2, <2>4
<1>3. c \in CallIds
  <2>1. a.calls \in Partial(CallIds, CallRecords) BY DEF IsActor
  <2>2. DOMAIN a.calls \subseteq CallIds BY <2>1 DEF Partial
  <2> QED BY <2>2
<1>4. S \in SUBSET CallIds BY <1>3 DEF IsActor
<1>5. PICK b : b = [a EXCEPT !.calls = e, !.acks = S, !.uncertain = u] OBVIOUS
<1>6. /\ IsActor(b) /\ b.calls = e /\ b.acks = S /\ b.pending = a.pending /\ b.forced = a.forced
      /\ b.committed = a.committed /\ b.published = a.published /\ b.unrecorded = a.unrecorded
      /\ b.ended = a.ended
  BY <1>2, <1>4, <1>5 DEF IsActor
<1>7. Notes(a, b, c) /\ SameVerdict(a, b) BY <1>2, <1>6 DEF Notes, SameVerdict
<1> QED BY <1>1, <1>2, <1>5, <1>6, <1>7 DEF WithRecord


LEMMA NoteCancelIs ==
    ASSUME NEW p \in Plans, NEW a, NEW G, NEW W, NEW A, Tended(a, G, W, A, p), NEW c \in Books(G)
    PROVE  LET b == NoteCancel(a, c) IN Tended(b, G, W, A, p) /\ SameVerdict(a, b)
<1>1. PICK b : b = NoteCancel(a, c) OBVIOUS
<1>2. IsActor(a) /\ Sound(G, p) BY DEF Tended
<1>3. Known(G, {c}, p) /\ c \in CallIds
  <2>1. Known(G, Books(G), p) BY <1>2, BooksKnown
  <2> QED BY <2>1 DEF Known
<1>4. CASE c \in DOMAIN a.calls
  <2>1. a.calls[c] \in CallRecords
    <3>1. a.calls \in Partial(CallIds, CallRecords) BY <1>2 DEF IsActor
    <3>2. a.calls \in [DOMAIN a.calls -> CallRecords] BY <3>1 DEF Partial
    <3> QED BY <1>4, <3>2
  <2>2. PICK r : r = [a.calls[c] EXCEPT !.cancelled = TRUE] OBVIOUS
  <2>3. r \in CallRecords /\ r.settled = a.calls[c].settled BY <2>1, <2>2 DEF CallRecords
  <2>4. PICK S : S = IF a.calls[c].settled = "clean" THEN a.acks \cup {c} ELSE a.acks OBVIOUS
  <2> PICK u : u = a.uncertain OBVIOUS
  <2>5. b = WithRecord(a, c, r, S, u)
    BY <1>1, <1>2, <1>4, <2>2, <2>4 DEF NoteCancel, IsActor, WithRecord
  <2>6. /\ Notes(a, b, c) /\ SameVerdict(a, b)
        /\ b.acks = S /\ b.calls[c] = r /\ b.pending = a.pending
    <3>1. S = a.acks \/ S = a.acks \cup {c} BY <2>4
    <3> QED BY <1>2, <1>4, <2>3, <2>5, <3>1, RecordNoted
  <2>7. c \notin DOMAIN b.pending BY <1>4, <2>6 DEF Tended
  <2>8. c \in DOMAIN W => b.acks = a.acks /\ b.calls[c].settled = None
    <3>1. c \in DOMAIN W => a.calls[c].settled = None BY DEF Tended
    <3> QED BY <2>3, <2>4, <2>6, <3>1 DEF None
  <2>9. Tended(b, G, W, A, p) BY <1>3, <2>6, <2>7, <2>8, NotesTended
  <2> QED BY <1>1, <2>6, <2>9
<1>5. CASE c \notin DOMAIN a.calls
  <2>1. PICK f : f = Drop(a.pending, {c}) OBVIOUS
  <2>2. f \in Partial(CallIds, Nat) /\ DOMAIN f = DOMAIN a.pending \ {c}
    <3>1. PICK e : e = a.pending OBVIOUS
    <3>2. PICK D : D = CallIds OBVIOUS
    <3>3. e \in Partial(D, Nat) BY <1>2, <3>1, <3>2 DEF IsActor
    <3>4. Drop(e, {c}) \in Partial(D, Nat) BY <3>3, DropCalls
    <3>5. DOMAIN Drop(e, {c}) = DOMAIN e \ {c} BY DEF Drop, Restrict
    <3> QED BY <2>1, <3>1, <3>2, <3>4, <3>5
  <2>3. PICK S : S = a.acks \cup {c} OBVIOUS
  <2>4. S \in SUBSET CallIds BY <1>2, <1>3, <2>3 DEF IsActor
  <2>5. b = [a EXCEPT !.pending = f, !.acks = S] BY <1>1, <1>5, <2>1, <2>3 DEF NoteCancel
  <2>6. /\ IsActor(b) /\ b.calls = a.calls /\ b.acks = S /\ b.pending = f
        /\ SameVerdict(a, b)
    BY <1>2, <2>2, <2>4, <2>5 DEF IsActor, SameVerdict
  <2>7. Notes(a, b, c) BY <2>2, <2>3, <2>6 DEF Notes, SameVerdict
  <2>8. c \notin DOMAIN b.pending BY <2>2, <2>6
  <2>9. c \notin DOMAIN W BY <1>5 DEF Tended
  <2>10. Tended(b, G, W, A, p) BY <1>3, <2>7, <2>8, <2>9, NotesTended
  <2> QED BY <1>1, <2>6, <2>10
<1> QED BY <1>4, <1>5

LEMMA PutCalls ==
    ASSUME NEW D, NEW R, NEW f, f \in Partial(D, R), NEW c \in D, NEW v \in R
    PROVE  LET e == Put(f, c, v)
           IN /\ e \in Partial(D, R) /\ e[c] = v
              /\ \A d : d \in DOMAIN e <=> d \in DOMAIN f \/ d = c
              /\ \A d \in DOMAIN f : d # c => e[d] = f[d]
<1>1. DOMAIN f \subseteq D /\ f \in [DOMAIN f -> R] BY PartialFn
<1>2. PICK E : E = DOMAIN f \cup {c} OBVIOUS
<1>3. E \subseteq D /\ c \in E /\ \A d : d \in E <=> d \in DOMAIN f \/ d = c BY <1>1, <1>2
<1>4. PICK e : e = Put(f, c, v) OBVIOUS
<1>5. e = [y \in E |-> IF y = c THEN v ELSE f[y]] BY <1>2, <1>4 DEF Put
<1>6. DOMAIN e = E /\ e \in [E -> R] BY <1>1, <1>3, <1>5
<1>7. e \in Partial(D, R) BY <1>3, <1>6, PartialFn
<1> QED BY <1>3, <1>4, <1>5, <1>6, <1>7

LEMMA ScheduleIs ==
    ASSUME NEW p \in Plans, NEW a, NEW G, NEW W, NEW A, Tended(a, G, W, A, p), NEW c \in Books(G),
           c \notin A, c \notin a.acks, c # NoCall
    PROVE  LET b == schedule(a, G, c) IN Tended(b, G, W, A, p) /\ SameVerdict(a, b)
<1>1. PICK b : b = schedule(a, G, c) OBVIOUS
<1>2. IsActor(a) /\ Sound(G, p) BY DEF Tended
<1>3. Known(G, Books(G), p) BY <1>2, BooksKnown
<1>4. c \in CallIds /\ c.frame \in Frames(G)
  <2>1. PICK i, m : i \in Frames(G) /\ m \in DOMAIN G.frames[i].calls /\ c = [frame |-> i, attempt |-> m]
    BY BooksIs
  <2>2. c.frame = i BY <2>1
  <2> QED BY <1>3, <2>1, <2>2 DEF Known
<1>5. PICK v : v = G.frames[c.frame].phase.until OBVIOUS
<1>6. v \in Nat
  <2>1. G.frames[c.frame] \in FrameRecords BY <1>2, <1>4, SoundTypes
  <2>2. G.frames[c.frame].phase \in Phases BY <2>1, RecordTypes
  <2> QED BY <1>5, <2>2 DEF Phases
<1>7. PICK f : f = Put(a.pending, c, v) OBVIOUS
<1>8. /\ f \in Partial(CallIds, Nat)
      /\ \A d : d \in DOMAIN f <=> d \in DOMAIN a.pending \/ d = c
  <2>1. PICK e : e = a.pending OBVIOUS
  <2>2. PICK D : D = CallIds OBVIOUS
  <2>3. e \in Partial(D, Nat) /\ c \in D BY <1>2, <1>4, <2>1, <2>2 DEF IsActor
  <2>4. /\ Put(e, c, v) \in Partial(D, Nat)
        /\ \A d : d \in DOMAIN Put(e, c, v) <=> d \in DOMAIN e \/ d = c
    BY <1>6, <2>3, PutCalls
  <2> QED BY <1>7, <2>1, <2>2, <2>4
<1>9. b = [a EXCEPT !.pending = f] BY <1>1, <1>5, <1>7 DEF schedule
<1>10. /\ IsActor(b) /\ b.calls = a.calls /\ b.acks = a.acks /\ b.pending = f
       /\ SameVerdict(a, b)
  BY <1>2, <1>8, <1>9 DEF IsActor, SameVerdict
<1>11. Known(G, A \cup b.acks \cup DOMAIN b.pending, p)
  <2>1. PICK N : N = A \cup a.acks \cup DOMAIN a.pending OBVIOUS
  <2>2. Known(G, N, p) BY <2>1 DEF Tended
  <2>3. ASSUME NEW d \in A \cup b.acks \cup DOMAIN b.pending PROVE d \in N \/ d = c
    BY <1>8, <1>10, <2>1
  <2> QED BY <1>3, <2>2, <2>3 DEF Known
<1>12. ASSUME NEW d \in DOMAIN b.pending
       PROVE  d \notin A /\ d \notin b.acks /\ d \in Books(G)
  <2>1. d \in DOMAIN a.pending \/ d = c BY <1>8, <1>10, <1>12
  <2> QED BY <1>10, <2>1 DEF Tended
<1>13. IsFiniteSet(b.acks) /\ DOMAIN W \subseteq DOMAIN b.calls /\ DOMAIN b.calls \subseteq A
       /\ \A d \in DOMAIN W : d \in Books(G) /\ d \notin b.acks /\ b.calls[d].settled = None
  BY <1>10 DEF Tended
<1>14. Tended(b, G, W, A, p) BY <1>2, <1>10, <1>11, <1>12, <1>13 DEF Tended
<1> QED BY <1>1, <1>10, <1>14

LEMMA CancelAllIs ==
    ASSUME NEW f, f \in Partial(CallIds, CallRecords)
    PROVE  LET e == CancelAll(f)
           IN /\ e \in Partial(CallIds, CallRecords) /\ DOMAIN e = DOMAIN f
              /\ \A c \in DOMAIN f : e[c].settled = f[c].settled
<1>1. PICK e : e = CancelAll(f) OBVIOUS
<1>2. DOMAIN f \subseteq CallIds /\ f \in [DOMAIN f -> CallRecords] BY DEF Partial
<1>3. ASSUME NEW c \in DOMAIN f
      PROVE  LET r == [f[c] EXCEPT !.cancelled = TRUE]
             IN r \in CallRecords /\ r.settled = f[c].settled
  BY <1>2 DEF CallRecords
<1>4. DOMAIN e = DOMAIN f /\ \A c \in DOMAIN f : e[c] = [f[c] EXCEPT !.cancelled = TRUE]
  BY <1>1 DEF CancelAll
<1>5. \A c \in DOMAIN f : e[c] \in CallRecords /\ e[c].settled = f[c].settled BY <1>3, <1>4
<1>6. e = [c \in DOMAIN e |-> e[c]] BY <1>1 DEF CancelAll
<1>7. e \in [DOMAIN e -> CallRecords]
  <2>1. PICK Q : Q = CallRecords OBVIOUS
  <2>2. \A c \in DOMAIN e : e[c] \in Q BY <1>4, <1>5, <2>1
  <2>3. e \in [DOMAIN e -> Q] BY <1>6, <2>2
  <2> QED BY <2>1, <2>3
<1>8. e \in Partial(CallIds, CallRecords) BY <1>2, <1>4, <1>7, PartialFn
<1> QED BY <1>1, <1>4, <1>5, <1>8

\* b follows no new calls and forgets none that is watched
Retains(a, b) ==
    /\ IsActor(b) /\ DOMAIN b.calls = DOMAIN a.calls /\ b.acks = a.acks
    /\ \A c \in DOMAIN a.calls : b.calls[c].settled = a.calls[c].settled
    /\ DOMAIN b.pending \subseteq DOMAIN a.pending

LEMMA RetainsTended ==
    ASSUME NEW p, NEW a, NEW G, NEW W, NEW A, Tended(a, G, W, A, p), NEW b, Retains(a, b)
    PROVE  Tended(b, G, W, A, p)
<1>1. Known(G, A \cup b.acks \cup DOMAIN b.pending, p)
  <2>1. PICK N : N = A \cup a.acks \cup DOMAIN a.pending OBVIOUS
  <2>2. Known(G, N, p) BY <2>1 DEF Tended
  <2>3. \A d \in A \cup b.acks \cup DOMAIN b.pending : d \in N BY <2>1 DEF Retains
  <2> QED BY <2>2, <2>3 DEF Known
<1>2. ASSUME NEW d \in DOMAIN W PROVE d \notin b.acks /\ b.calls[d].settled = None
  BY DEF Tended, Retains
<1>3. ASSUME NEW d \in DOMAIN b.pending PROVE d \notin A /\ d \notin b.acks /\ d \in Books(G)
  BY <1>3 DEF Tended, Retains
<1>4. /\ DOMAIN W \subseteq DOMAIN b.calls /\ DOMAIN b.calls \subseteq A /\ IsFiniteSet(b.acks)
      /\ \A d \in DOMAIN W : d \in Books(G)
  BY DEF Tended, Retains
<1>5. IsActor(b) /\ Sound(G, p) BY DEF Tended, Retains
<1> QED BY <1>1, <1>2, <1>3, <1>4, <1>5 DEF Tended

\* The scheduler may change under the actor as long as no call leaves its books.
LEMMA SteadyTended ==
    ASSUME NEW p, NEW a, NEW G, NEW W, NEW A, Tended(a, G, W, A, p), NEW H,
           Sound(H, p), Loses(G, H, {})
    PROVE  Tended(a, H, W, A, p)
<1>1. Known(H, A \cup a.acks \cup DOMAIN a.pending, p) BY KnownLoses DEF Tended
<1>2. Books(H) = Books(G) BY DEF Loses
<1> QED BY <1>1, <1>2 DEF Tended

\* a new watch on the same calls, or on fewer
LEMMA WatchTended ==
    ASSUME NEW p, NEW a, NEW G, NEW W, NEW A, Tended(a, G, W, A, p), NEW V,
           DOMAIN V \subseteq DOMAIN W
    PROVE  Tended(a, G, V, A, p)
BY DEF Tended

LEMMA ParkRetains ==
    ASSUME NEW p, NEW a, IsActor(a), NEW k
    PROVE  LET b == [a EXCEPT !.park = k] IN Retains(a, b) /\ SameVerdict(a, b)
<1>1. PICK b : b = [a EXCEPT !.park = k] OBVIOUS
<1>2. /\ IsActor(b) /\ b.calls = a.calls /\ b.acks = a.acks /\ b.pending = a.pending
      /\ SameVerdict(a, b)
  BY <1>1 DEF IsActor, SameVerdict
<1>3. Retains(a, b) BY <1>2 DEF Retains
<1> QED BY <1>1, <1>2, <1>3

\* Publishing leaves the calls alone, and the caller is told something.
LEMMA PublishIs ==
    ASSUME NEW a, IsActor(a), a.published = None, NEW o \in Decided, NEW hist
    PROVE  LET b == publish_terminal(a, o, hist)
           IN /\ IsActor(b) /\ Informs(b, o) /\ b.published # None
              /\ b.calls = a.calls /\ b.acks = a.acks /\ b.pending = a.pending
              /\ b.forced = a.forced /\ b.committed = a.committed /\ b.ended = a.ended
<1>1. PICK b : b = publish_terminal(a, o, hist) OBVIOUS
<1>2. a.unrecorded = FALSE BY DEF IsActor, None
<1>3. o \in Outcomes /\ "Unsafe" \in Outcomes /\ o # None BY DEF Decided, Outcomes, None
<1>4. CASE TerminalFits(o, hist)
  <2>1. b = [a EXCEPT !.published = o] BY <1>1, <1>4 DEF publish_terminal
  <2>2. /\ IsActor(b) /\ b.published = o /\ b.unrecorded = FALSE
        /\ b.calls = a.calls /\ b.acks = a.acks /\ b.pending = a.pending
        /\ b.forced = a.forced /\ b.committed = a.committed /\ b.ended = a.ended
    BY <1>2, <1>3, <2>1 DEF IsActor
  <2>3. Informs(b, o) BY <2>2 DEF Informs, Said
  <2> QED BY <1>1, <1>3, <2>2, <2>3
<1>5. CASE ~TerminalFits(o, hist)
  <2>1. TerminalFits("Unsafe", hist) BY DEF TerminalFits
  <2>2. o \in {"Succeeded", "Failed", "Aborted"} BY <1>5 DEF TerminalFits, Decided
  <2>3. b = [a EXCEPT !.published = "Unsafe", !.unrecorded = TRUE]
    BY <1>1, <1>5, <2>1 DEF publish_terminal
  <2>4. /\ IsActor(b) /\ b.published = "Unsafe" /\ b.unrecorded = TRUE
        /\ b.calls = a.calls /\ b.acks = a.acks /\ b.pending = a.pending
        /\ b.forced = a.forced /\ b.committed = a.committed /\ b.ended = a.ended
    BY <1>3, <2>3 DEF IsActor
  <2>5. Informs(b, o) BY <2>2, <2>4 DEF Informs, Said
  <2>6. "Unsafe" # None BY DEF None
  <2> QED BY <1>1, <2>4, <2>5, <2>6
<1> QED BY <1>4, <1>5

\* the actor when o is forced
ForcedActor(a, o, hist) ==
    publish_terminal([a EXCEPT !.forced = o, !.pending = Empty, !.calls = CancelAll(@),
                               !.park = Running], o, hist)

LEMMA ForcedIs ==
    ASSUME NEW p, NEW a, NEW G, NEW W, NEW A, Tended(a, G, W, A, p),
           a.published = None, NEW o \in Decided \ {"Succeeded"}, NEW hist
    PROVE  LET b == ForcedActor(a, o, hist)
           IN /\ Tended(b, G, W, A, p) /\ Informs(b, o) /\ b.published # None /\ b.forced = o
              /\ b.committed = a.committed /\ b.ended = a.ended /\ b.acks = a.acks
<1>3. /\ IsActor(a) /\ Sound(G, p) /\ a.published = None /\ Tended(a, G, W, A, p)
  BY DEF Tended
<1>4. PICK f : f = CancelAll(a.calls) OBVIOUS
<1>5. /\ f \in Partial(CallIds, CallRecords) /\ DOMAIN f = DOMAIN a.calls
      /\ \A c \in DOMAIN a.calls : f[c].settled = a.calls[c].settled
  BY <1>3, <1>4, CancelAllIs DEF IsActor
<1>6. o \in Outcomes BY DEF Decided, Outcomes
<1>7. PICK e : e = Empty OBVIOUS
<1>8. e \in Partial(CallIds, Nat) /\ DOMAIN e = {}
  <2>1. DOMAIN e = {} /\ e \in [DOMAIN e -> Nat] BY <1>7 DEF Empty
  <2>2. PICK D : D = CallIds OBVIOUS
  <2>3. e \in Partial(D, Nat) BY <2>1, PartialFn
  <2> QED BY <2>1, <2>2, <2>3
<1>9. PICK k : k = Running OBVIOUS
<1>10. PICK x : x = [a EXCEPT !.forced = o, !.pending = e, !.calls = f, !.park = k] OBVIOUS
<1>11. /\ IsActor(x) /\ x.calls = f /\ x.acks = a.acks /\ x.pending = e /\ x.forced = o
       /\ x.committed = a.committed /\ x.published = None /\ x.ended = a.ended
  BY <1>3, <1>5, <1>6, <1>8, <1>10 DEF IsActor
<1>12. PICK b : b = publish_terminal(x, o, hist) OBVIOUS
<1>13. /\ IsActor(b) /\ b.calls = f /\ b.acks = a.acks /\ b.pending = e /\ b.forced = o
       /\ b.committed = a.committed /\ Informs(b, o) /\ b.published # None /\ b.ended = a.ended
  BY <1>11, <1>12, PublishIs
<1>14. Retains(a, b) BY <1>5, <1>8, <1>13 DEF Retains
<1>15. Tended(b, G, W, A, p) BY <1>3, <1>14, RetainsTended
<1>16. b = ForcedActor(a, o, hist) BY <1>4, <1>7, <1>9, <1>10, <1>12 DEF ForcedActor
<1> QED BY <1>13, <1>15, <1>16

\* the caller is told of o, and the calls are told to stop
Forces(s, t, o, W, A, p) ==
    /\ IsPair(t) /\ Tended(t.a, t.g, W, A, p)
    /\ Informs(t.a, o) /\ t.a.published # None /\ t.a.forced = o /\ t.a.acks = s.a.acks
    /\ t.a.committed = s.a.committed /\ t.a.ended = s.a.ended
    /\ Loses(s.g, t.g, {})

\* the pair s when o is forced with, or without, the scheduler at hand
ForcedHere(s, o, hist) == [a |-> ForcedActor(s.a, o, hist), g |-> supersede_uncommitted(s.g, o)]
ForcedAway(s, o, hist) == [a |-> ForcedActor(s.a, o, hist), g |-> s.g]

\* forced while the scheduler is at hand
LEMMA ForceHere ==
    ASSUME NEW p \in Plans, NEW s, IsPair(s), NEW W, NEW A, Tended(s.a, s.g, W, A, p),
           s.a.published = None, NEW o \in Decided \ {"Succeeded"}, NEW hist,
           NEW t, t = ForcedHere(s, o, hist)
    PROVE  Forces(s, t, o, W, A, p) /\ t.g.outcome = o
<1>1. PICK G : G = s.g OBVIOUS
<1>2. Sound(G, p) BY <1>1 DEF Tended
<1>3. PICK b : b = ForcedActor(s.a, o, hist) OBVIOUS
<1>4. /\ Tended(b, G, W, A, p) /\ Informs(b, o) /\ b.published # None /\ b.forced = o
      /\ b.committed = s.a.committed /\ b.ended = s.a.ended /\ b.acks = s.a.acks
  BY <1>1, <1>3, ForcedIs
<1>5. PICK H : H = supersede_uncommitted(G, o) OBVIOUS
<1>6. Coherent(H, p.budget) /\ Steady(G, H) /\ H.outcome = o BY <1>2, <1>5, SupersedeIs DEF Sound
<1>7. H.outcome # None BY <1>6 DEF Decided, None
<1>8. Sound(H, p) /\ Loses(G, H, {}) BY <1>2, <1>6, <1>7, SteadySound, SteadyLoses
<1>9. Tended(b, H, W, A, p) BY <1>4, <1>8, SteadyTended
<1>11. t = [a |-> b, g |-> H] BY <1>1, <1>3, <1>5 DEF ForcedHere
<1>12. IsPair(t) /\ t.a = b /\ t.g = H BY <1>11 DEF IsPair
<1>13. Forces(s, t, o, W, A, p) BY <1>1, <1>4, <1>8, <1>9, <1>12 DEF Forces
<1>14. t.g.outcome = o BY <1>6, <1>12
<1> QED BY <1>13, <1>14

\* forced while the worker has the scheduler
LEMMA ForceAway ==
    ASSUME NEW p \in Plans, NEW s, IsPair(s), NEW W, NEW A, Tended(s.a, s.g, W, A, p),
           s.a.published = None, NEW o \in Decided \ {"Succeeded"}, NEW hist,
           NEW t, t = ForcedAway(s, o, hist)
    PROVE  Forces(s, t, o, W, A, p) /\ t.g = s.g
<1>1. PICK b : b = ForcedActor(s.a, o, hist) OBVIOUS
<1>2. /\ Tended(b, s.g, W, A, p) /\ Informs(b, o) /\ b.published # None /\ b.forced = o
      /\ b.committed = s.a.committed /\ b.ended = s.a.ended /\ b.acks = s.a.acks
  BY <1>1, ForcedIs
<1>4. t = [a |-> b, g |-> s.g] BY <1>1 DEF ForcedAway
<1>5. IsPair(t) /\ t.a = b /\ t.g = s.g BY <1>4 DEF IsPair
<1>6. Loses(s.g, s.g, {}) BY CalmRefl, SteadyLoses DEF Calm, Tended
<1>7. Forces(s, t, o, W, A, p) BY <1>2, <1>5, <1>6 DEF Forces
<1>8. t.g = s.g BY <1>5
<1> QED BY <1>7, <1>8

-----------------------------------------------------------------------------
(* Applying an update of the scheduler.                                     *)

\* what the actor relies on in an update u of G
Sensible(u, a, G, A) ==
    /\ u.k = "Transition" /\ u.call # NoCall =>
          u.call \in Books(G) /\ u.call \notin A /\ u.call \notin a.acks
    /\ u.k = "Cancel" => u.call \in Books(G)
    /\ u.k = "Settled" => G.outcome # None

\* the verdict stands, or the outcome of the scheduler is told now
Decides(a, G, b, H) ==
    \/ /\ b.published = a.published /\ b.unrecorded = a.unrecorded /\ b.forced = a.forced
       /\ H.outcome = G.outcome
    \/ /\ a.published = None /\ b.published # None /\ Informs(b, H.outcome)
       /\ b.forced = a.forced \/ (b.forced = "Unsafe" /\ Informs(b, "Unsafe"))

\* what a method of the actor does to the pair s
Handles(s, t, W, A, p) ==
    /\ IsPair(t) /\ Tended(t.a, t.g, W, A, p)
    /\ \E R : Loses(s.g, t.g, R)
    /\ t.a.committed = s.a.committed /\ t.a.ended = s.a.ended
    /\ Decides(s.a, s.g, t.a, t.g)

LEMMA HandlesRefl ==
    ASSUME NEW p \in Plans, NEW s, IsPair(s), NEW W, NEW A, Tended(s.a, s.g, W, A, p)
    PROVE  Handles(s, s, W, A, p)
<1>1. Loses(s.g, s.g, {}) BY CalmRefl, SteadyLoses DEF Calm, Tended
<1> QED BY <1>1 DEF Handles, Decides

LEMMA HandlesTrans ==
    ASSUME NEW s, NEW t, NEW u, NEW W, NEW A, NEW p, Handles(s, t, W, A, p),
           Handles(t, u, W, A, p),
           t.a.published = s.a.published /\ t.a.unrecorded = s.a.unrecorded
    PROVE  Handles(s, u, W, A, p)
<1>1. \E R : Loses(s.g, u.g, R)
  <2>1. PICK R : Loses(s.g, t.g, R) BY DEF Handles
  <2>2. PICK S : Loses(t.g, u.g, S) BY DEF Handles
  <2> QED BY <2>1, <2>2, LosesTrans
<1>2. Decides(s.a, s.g, u.a, u.g) BY DEF Handles, Decides
<1> QED BY <1>1, <1>2 DEF Handles

WithActor(s, b) == [s EXCEPT !.a = b]
Parked(s, k) == [s EXCEPT !.a.park = k]

\* the actor only changes fields that have no part in this
LEMMA ParkHandles ==
    ASSUME NEW p \in Plans, NEW s, IsPair(s), NEW W, NEW A, Tended(s.a, s.g, W, A, p), NEW k
    PROVE  Handles(s, Parked(s, k), W, A, p) /\ SameVerdict(s.a, Parked(s, k).a)
<1>1. PICK a : a = s.a OBVIOUS
<1>2. PICK b : b = [a EXCEPT !.park = k] OBVIOUS
<1>3. IsActor(a) BY <1>1 DEF Tended
<1>4. Retains(a, b) /\ SameVerdict(a, b) BY <1>2, <1>3 DEF IsActor, Retains, SameVerdict
<1>5. PICK t : t = Parked(s, k) OBVIOUS
<1>6. t = [a |-> b, g |-> s.g] BY <1>1, <1>2, <1>5 DEF IsPair, Parked
<1>7. IsPair(t) /\ t.a = b /\ t.g = s.g BY <1>6 DEF IsPair
<1>8. Tended(b, s.g, W, A, p) BY <1>1, <1>4, RetainsTended
<1>9. Loses(s.g, t.g, {}) BY <1>7, CalmRefl, SteadyLoses DEF Calm, Tended
<1> QED BY <1>1, <1>4, <1>5, <1>7, <1>8, <1>9 DEF Handles, Decides, SameVerdict

LEMMA AwakeHandles ==
    ASSUME NEW p \in Plans, NEW s, IsPair(s), NEW W, NEW A, Tended(s.a, s.g, W, A, p)
    PROVE  Handles(s, Awake(s), W, A, p) /\ SameVerdict(s.a, Awake(s).a)
<1>1. PICK k : k = Running OBVIOUS
<1>2. Awake(s) = Parked(s, k) BY <1>1 DEF Awake, Parked
<1> QED BY <1>2, ParkHandles

LEMMA AcknowledgesHandles ==
    ASSUME NEW p \in Plans, NEW s, IsPair(s), NEW W, NEW A, Tended(s.a, s.g, W, A, p)
    PROVE  /\ Handles(s, reconcile(s), W, A, p) /\ SameVerdict(s.a, reconcile(s).a)
           /\ reconcile(s).g.outcome = s.g.outcome
<1>1. PICK t : t = reconcile(s) OBVIOUS
<1>2. PICK R : Acknowledges(s, t, R, p) BY <1>1, ReconcileIs DEF Tended
<1>3. Tended(t.a, t.g, W, A, p) BY <1>2, ReconcileTended
<1>4. SameVerdict(s.a, t.a) /\ t.g.outcome = s.g.outcome BY <1>2 DEF Acknowledges, SameVerdict
<1>5. IsPair(t) /\ Loses(s.g, t.g, R) BY <1>2 DEF Acknowledges
<1> QED BY <1>1, <1>3, <1>4, <1>5 DEF Handles, Decides, SameVerdict

\* s with other fields of its actor
LEMMA ActorHandles ==
    ASSUME NEW p \in Plans, NEW s, IsPair(s), NEW W, NEW A, Tended(s.a, s.g, W, A, p), NEW b,
           Tended(b, s.g, W, A, p), SameVerdict(s.a, b)
    PROVE  LET t == WithActor(s, b)
           IN Handles(s, t, W, A, p) /\ t.a = b /\ t.g = s.g /\ IsPair(t)
<1>1. PICK t : t = WithActor(s, b) OBVIOUS
<1>2. t = [a |-> b, g |-> s.g] BY <1>1 DEF IsPair, WithActor
<1>3. IsPair(t) /\ t.a = b /\ t.g = s.g BY <1>2 DEF IsPair
<1>4. Loses(s.g, t.g, {}) BY <1>3, CalmRefl, SteadyLoses DEF Calm, Tended
<1> QED BY <1>1, <1>3, <1>4 DEF Handles, Decides, SameVerdict

LEMMA FailHandles ==
    ASSUME NEW p \in Plans, NEW s, IsPair(s), NEW W, NEW A, Tended(s.a, s.g, W, A, p),
           s.a.published = None
    PROVE  Handles(s, fail(s), W, A, p)
<1>1. PICK t : t = fail(s) OBVIOUS
<1>2. PICK o : o = "Unsafe" OBVIOUS
<1>3. o \in Decided \ {"Succeeded"} BY <1>2 DEF Decided
<1>4. PICK hist : hist = "ok" OBVIOUS
<1>5. t = ForcedHere(s, o, hist)
  BY <1>1, <1>2, <1>4 DEF fail, force, ForcedActor, ForcedHere
<1>6. Forces(s, t, o, W, A, p) /\ t.g.outcome = o BY <1>3, <1>5, ForceHere
<1> QED BY <1>1, <1>2, <1>6 DEF Handles, Decides, Forces

LEMMA ApplyIs ==
    ASSUME NEW p \in Plans, NEW s, IsPair(s), NEW W, NEW A, Tended(s.a, s.g, W, A, p),
           NEW u, Sensible(u, s.a, s.g, A), NEW hist
    PROVE  Handles(s, ApplyUpdate(s, u, hist), W, A, p)
<1>1. CASE hist = "full" /\ Journalled(s, u)
  <2>1. s.a.published = None BY <1>1 DEF Journalled
  <2>2. ApplyUpdate(s, u, hist) = fail(s) BY <1>1 DEF ApplyUpdate
  <2> QED BY <2>1, <2>2, FailHandles
<1>2. CASE ~(hist = "full" /\ Journalled(s, u)) /\ u.k = "Transition"
  <2>1. CASE s.a.published # None
    <3>1. ApplyUpdate(s, u, hist) = s BY <1>2, <2>1 DEF ApplyUpdate
    <3> QED BY <3>1, HandlesRefl
  <2>2. CASE s.a.published = None
    <3>1. PICK b : b = schedule(s.a, s.g, u.call) OBVIOUS
    <3>2. Tended(b, s.g, W, A, p) /\ SameVerdict(s.a, b)
      <4>1. CASE u.call = NoCall BY <3>1, <4>1 DEF schedule, SameVerdict
      <4>2. CASE u.call # NoCall BY <1>2, <3>1, <4>2, ScheduleIs DEF Sensible
      <4> QED BY <4>1, <4>2
    <3>3. PICK t : t = WithActor(s, b) OBVIOUS
    <3>4. Handles(s, t, W, A, p) /\ t.a = b /\ t.g = s.g /\ IsPair(t) BY <3>2, <3>3, ActorHandles
    <3>5. ApplyUpdate(s, u, hist) = Awake(t)
      <4>1. t = [s EXCEPT !.a = schedule(s.a, s.g, u.call)] BY <3>1, <3>3 DEF WithActor
      <4> QED BY <1>2, <2>2, <4>1 DEF ApplyUpdate
    <3>6. Handles(t, Awake(t), W, A, p) BY <3>2, <3>4, AwakeHandles
    <3> QED BY <2>2, <3>2, <3>4, <3>5, <3>6, HandlesTrans DEF SameVerdict
  <2> QED BY <2>1, <2>2
<1>3. CASE ~(hist = "full" /\ Journalled(s, u)) /\ u.k = "Cancel"
  <2>1. PICK b : b = NoteCancel(s.a, u.call) OBVIOUS
  <2>2. Tended(b, s.g, W, A, p) /\ SameVerdict(s.a, b) BY <1>3, <2>1, NoteCancelIs DEF Sensible
  <2>3. PICK t : t = WithActor(s, b) OBVIOUS
  <2>4. Handles(s, t, W, A, p) /\ t.a = b /\ t.g = s.g /\ IsPair(t) BY <2>2, <2>3, ActorHandles
  <2>5. PICK q : q = reconcile(t) OBVIOUS
  <2>6. Handles(t, q, W, A, p) /\ SameVerdict(t.a, q.a) /\ q.g.outcome = t.g.outcome
    BY <2>2, <2>4, <2>5, AcknowledgesHandles
  <2>7. Handles(q, Awake(q), W, A, p) BY <2>6, AwakeHandles DEF Handles
  <2>8. ApplyUpdate(s, u, hist) = Awake(q)
    <3>1. t = [s EXCEPT !.a = NoteCancel(s.a, u.call)] BY <2>1, <2>3 DEF WithActor
    <3> QED BY <1>3, <2>5, <3>1 DEF ApplyUpdate
  <2>9. Handles(s, q, W, A, p) BY <2>2, <2>4, <2>6, HandlesTrans DEF SameVerdict
  <2>10. q.a.published = s.a.published /\ q.a.unrecorded = s.a.unrecorded
    BY <2>2, <2>4, <2>6 DEF SameVerdict
  <2> QED BY <2>7, <2>8, <2>9, <2>10, HandlesTrans
<1>4. CASE ~(hist = "full" /\ Journalled(s, u)) /\ u.k = "Settled"
  <2>1. PICK x : x = publish_terminal(s.a, s.g.outcome, hist) OBVIOUS
  <2>2. PICK k : k = ParkUntil(plan.deadline, FALSE) OBVIOUS
  <2>3. PICK b : b = [x EXCEPT !.park = k] OBVIOUS
  <2>4. PICK t : t = [s EXCEPT !.a = b] OBVIOUS
  <2>5. ApplyUpdate(s, u, hist) = t
    <3>1. t = [s EXCEPT !.a = [publish_terminal(s.a, s.g.outcome, hist) EXCEPT
                                   !.park = ParkUntil(plan.deadline, FALSE)]]
      BY <2>1, <2>2, <2>3, <2>4
    <3> QED BY <1>4, <3>1 DEF ApplyUpdate
  <2>6. IsActor(s.a) /\ s.g.outcome \in Decided
    <3>1. Sound(s.g, p) BY DEF Tended
    <3>2. s.g.outcome \in Outcomes /\ s.g.outcome # "Internal"
      BY <3>1, SoundTypes, FrameTypes DEF Sound, Coherent
    <3>3. s.g.outcome # None BY <1>4 DEF Sensible
    <3> QED BY <3>2, <3>3 DEF Tended, Outcomes, Decided
  <2>7. /\ IsActor(x) /\ x.calls = s.a.calls /\ x.acks = s.a.acks /\ x.pending = s.a.pending
        /\ x.forced = s.a.forced /\ x.committed = s.a.committed /\ x.ended = s.a.ended
        /\ \/ x.published = s.a.published /\ x.unrecorded = s.a.unrecorded
           \/ s.a.published = None /\ x.published # None /\ Informs(x, s.g.outcome)
    <3>1. CASE s.a.published = None BY <2>1, <2>6, <3>1, PublishIs
    <3>2. CASE s.a.published # None BY <2>1, <2>6, <3>2 DEF publish_terminal
    <3> QED BY <3>1, <3>2
  <2>8. Retains(x, b) /\ SameVerdict(x, b) BY <2>3, <2>7, ParkRetains
  <2>9. Retains(s.a, b) BY <2>7, <2>8 DEF Retains
  <2>10. Tended(b, s.g, W, A, p) BY <2>9, RetainsTended
  <2>11. t = [a |-> b, g |-> s.g] BY <2>4 DEF IsPair
  <2>12. IsPair(t) /\ t.a = b /\ t.g = s.g BY <2>11 DEF IsPair
  <2>13. Loses(s.g, t.g, {}) BY <2>12, CalmRefl, SteadyLoses DEF Calm, Tended
  <2>14. Decides(s.a, s.g, b, s.g) BY <2>7, <2>8 DEF Decides, SameVerdict, Informs, Said
  <2> QED BY <2>5, <2>7, <2>8, <2>10, <2>12, <2>13, <2>14 DEF Handles, SameVerdict
<1>5. CASE ~(hist = "full" /\ Journalled(s, u)) /\ u.k \notin {"Transition", "Cancel", "Settled"}
  <2>1. \/ ApplyUpdate(s, u, hist) = s
        \/ ApplyUpdate(s, u, hist) = Parked(s, ParkUntil(u.until, u.global))
        \/ ApplyUpdate(s, u, hist) = Awake(s)
    <3>1. CASE u.k = "Park"
      BY <1>5, <3>1 DEF ApplyUpdate, Parked
    <3>2. CASE u.k \in {"ChildStarted", "ChildFinished", "Yield"}
      BY <1>5, <3>2 DEF ApplyUpdate
    <3>3. CASE u.k \notin {"Park", "ChildStarted", "ChildFinished", "Yield"}
      <4>1. ApplyUpdate(s, u, hist) = s BY <1>5, <3>3, Zenon DEF ApplyUpdate
      <4> QED BY <4>1
    <3> QED BY <3>1, <3>2, <3>3
  <2> QED BY <2>1, HandlesRefl, ParkHandles, AwakeHandles
<1> QED BY <1>1, <1>2, <1>3, <1>4, <1>5

-----------------------------------------------------------------------------
(* The scheduler moves while the actor waits.                               *)

LEMMA FineTended ==
    ASSUME NEW p \in Plans, NEW a, NEW G, NEW W, NEW A, Tended(a, G, W, A, p), NEW r,
           Fine(G, r, p)
    PROVE  Tended(a, r.g, W, A, p) /\ Sensible(r.update, a, r.g, A)
<1>1. PICK H : H = r.g OBVIOUS
<1>2. PICK u : u = r.update OBVIOUS
<1>3. Sound(G, p) /\ Sound(H, p) /\ Follows(G, H, u) BY <1>1, <1>2 DEF Fine, Tended
<1>4. PICK N : N = A \cup a.acks \cup DOMAIN a.pending OBVIOUS
<1>5. Known(G, N, p) BY <1>4 DEF Tended
<1>6. G.next \in Nat /\ Frames(G) \subseteq Nat BY <1>3, SoundTypes
<1>7. H.next = IF u.k = "ChildStarted" THEN G.next + 1 ELSE G.next BY <1>3 DEF Follows
<1>8. ASSUME NEW c \in N
      PROVE  /\ c \in CallIds /\ c.frame < H.next /\ c.attempt \in 1..p.budget
             /\ c.frame \in Frames(H) => c.attempt <= H.frames[c.frame].generation
  <2>1. /\ c \in CallIds /\ c.frame < G.next /\ c.attempt \in 1..p.budget
        /\ c.frame \in Frames(G) => c.attempt <= G.frames[c.frame].generation
    BY <1>5 DEF Known
  <2>2. c.frame \in Nat /\ c.attempt \in Nat BY <2>1 DEF CallIds
  <2>3. c.frame < H.next BY <1>6, <1>7, <2>1, <2>2
  <2>4. ASSUME c.frame \in Frames(H) PROVE c.attempt <= H.frames[c.frame].generation
    <3>1. c.frame \in Frames(G)
      <4>1. c.frame \in Frames(G) \/ c.frame \in Opened(u) BY <1>3, <2>4 DEF Follows
      <4>2. \A i \in Opened(u) : i = G.next BY <1>3 DEF Follows
      <4> QED BY <1>6, <2>1, <2>2, <4>1, <4>2
    <3>2. Grows(G.frames[c.frame], H.frames[c.frame]) BY <1>3, <2>4, <3>1 DEF Follows
    <3>3. G.frames[c.frame].generation \in Nat /\ H.frames[c.frame].generation \in Nat
      BY <1>3, <2>4, <3>1, SoundTypes, RecordTypes
    <3> QED BY <2>1, <2>2, <3>1, <3>2, <3>3 DEF Grows
  <2> QED BY <2>1, <2>3, <2>4
<1>9. Known(H, N, p) BY <1>8 DEF Known
<1>10. \A c \in Books(G) : c \in Books(H) BY <1>3 DEF Follows
<1>11. Tended(a, H, W, A, p) BY <1>3, <1>4, <1>9, <1>10 DEF Tended
<1>12. ASSUME u.k = "Transition", u.call # NoCall
       PROVE  u.call \in Books(H) /\ u.call \notin A /\ u.call \notin a.acks
  <2>1. PICK c : c = u.call OBVIOUS
  <2>2. c \in Started(u) BY <1>12, <2>1 DEF Started
  <2>3. /\ c \in CallIds /\ c.frame \in Frames(G)
        /\ c.attempt = G.frames[c.frame].generation + 1
    BY <1>3, <2>2 DEF Follows
  <2>4. c \in Books(H) BY <1>3, <2>2 DEF Follows
  <2>5. G.frames[c.frame].generation \in Nat BY <1>3, <2>3, SoundTypes, RecordTypes
  <2>6. ~(c.attempt <= G.frames[c.frame].generation) BY <2>3, <2>5
  <2>7. c \notin N BY <1>5, <2>3, <2>6 DEF Known
  <2> QED BY <1>4, <2>1, <2>4, <2>7
<1>13. u.k = "Cancel" => u.call \in Books(H) BY <1>3, <1>10 DEF Follows
<1>14. u.k = "Settled" => H.outcome # None BY <1>3 DEF Follows
<1>15. Sensible(u, a, H, A) BY <1>12, <1>13, <1>14 DEF Sensible
<1> QED BY <1>1, <1>2, <1>11, <1>15

-----------------------------------------------------------------------------
(* The histories.                                                           *)

\* B records the parent of every child started
Recorded(G, B) ==
    /\ DOMAIN B = 1..(G.next - 1)
    /\ \A i \in DOMAIN B : B[i].frame \in Nat /\ B[i].frame < i
    /\ \A i \in Frames(G) \ {ROOT} : B[i] = G.frames[i].parent

\* T lists the children that have told their parents, or are gone, once each and
\* after those below them
Reports(G, B, T) ==
    /\ T \in Seq(Nat) /\ IsInjective(T)
    /\ \A i : i \in Range(T) <=>
                 i \in DOMAIN B /\ (i \notin Frames(G) \/ G.frames[i].notification = "Emitted")
    /\ \A i, j \in DOMAIN T : T[j] \in Line(B, T[i]) => i <= j

\* the least set with i that is closed under B's parents
Climbs(B, S) == \A x \in S \ {ROOT} : B[x].frame \in S
Elders(B, i) == {a \in Nat : \A S \in SUBSET Nat : i \in S /\ Climbs(B, S) => a \in S}

\* a history of children, each older than its own children
History(B) == \A i \in DOMAIN B : i \in Nat /\ i # ROOT /\ B[i].frame \in DOMAIN B \cup {ROOT} /\ B[i].frame < i

LEMMA EldersStep ==
    ASSUME NEW B, NEW i \in Nat, i # ROOT => B[i].frame \in Nat
    PROVE  \A a : a \in Elders(B, i) <=> a = i \/ (i # ROOT /\ a \in Elders(B, B[i].frame))
<1>1. ASSUME NEW a, a = i \/ (i # ROOT /\ a \in Elders(B, B[i].frame)) PROVE a \in Elders(B, i)
  <2>1. CASE a = i BY <2>1 DEF Elders
  <2>2. CASE i # ROOT /\ a \in Elders(B, B[i].frame)
    <3>1. ASSUME NEW S \in SUBSET Nat, i \in S, Climbs(B, S) PROVE a \in S
      <4>1. B[i].frame \in S BY <2>2, <3>1 DEF Climbs
      <4> QED BY <2>2, <3>1, <4>1 DEF Elders
    <3> QED BY <2>2, <3>1 DEF Elders
  <2> QED BY <1>1, <2>1, <2>2
<1>2. ASSUME NEW a \in Elders(B, i), a # i PROVE i # ROOT /\ a \in Elders(B, B[i].frame)
  <2>1. i # ROOT
    <3>1. SUFFICES ASSUME i = ROOT PROVE FALSE OBVIOUS
    <3>2. PICK S : S = {ROOT} OBVIOUS
    <3>3. S \in SUBSET Nat /\ i \in S /\ Climbs(B, S) /\ a \notin S
      BY <1>2, <3>1, <3>2 DEF Climbs, ROOT
    <3> QED BY <3>3 DEF Elders
  <2>2. PICK q \in Nat : q = B[i].frame BY <2>1
  <2>3. ASSUME NEW S \in SUBSET Nat, q \in S, Climbs(B, S) PROVE a \in S
    <3>1. PICK R : R = S \cup {i} OBVIOUS
    <3>2. R \in SUBSET Nat /\ i \in R /\ Climbs(B, R)
      BY <2>1, <2>2, <2>3, <3>1 DEF Climbs
    <3>3. a \in R BY <3>2 DEF Elders
    <3> QED BY <1>2, <3>1, <3>3
  <2> QED BY <2>1, <2>2, <2>3 DEF Elders
<1> QED BY <1>1, <1>2

LEMMA LineStep ==
    ASSUME NEW B, DOMAIN B \subseteq Nat, \A i \in DOMAIN B : B[i].frame \in DOMAIN B \cup {ROOT},
           NEW i \in DOMAIN B \cup {ROOT}
    PROVE  Line(B, i) = IF i = ROOT THEN {ROOT} ELSE {i} \cup Line(B, B[i].frame)
<1>1. PICK D : D = DOMAIN B \cup {ROOT} OBVIOUS
<1>2. D \subseteq Nat /\ ROOT \in D /\ i \in D BY <1>1 DEF ROOT
<1>3. \A j \in D \ {ROOT} : B[j].frame \in D BY <1>1
<1> DEFINE Up(u) == u = [j \in DOMAIN B \cup {ROOT} |->
                            IF j = ROOT THEN {ROOT} ELSE {j} \cup u[B[j].frame]]
           up == CHOOSE u : Up(u)
<1>4. PICK u : u = [j \in D |-> Elders(B, j)] OBVIOUS
<1>5. Up(u)
  <2>1. ASSUME NEW j \in D PROVE u[j] = IF j = ROOT THEN {ROOT} ELSE {j} \cup u[B[j].frame]
    <3>1. j \in Nat /\ (j # ROOT => B[j].frame \in Nat) BY <1>2, <1>3
    <3>2. \A a : a \in Elders(B, j) <=> a = j \/ (j # ROOT /\ a \in Elders(B, B[j].frame))
      BY <3>1, EldersStep
    <3>3. u[j] = Elders(B, j) BY <1>4
    <3>4. j # ROOT => u[B[j].frame] = Elders(B, B[j].frame) BY <1>3, <1>4
    <3> QED BY <3>2, <3>3, <3>4
  <2>2. u = [j \in D |-> u[j]] BY <1>4
  <2> QED BY <1>1, <2>1, <2>2, Zenon
<1>6. Up(up) BY <1>5
<1>7. \A j : Line(B, j) = up[j] BY Zenon DEF Line
<1> HIDE DEF up
<1>8. \A j \in D : up[j] = IF j = ROOT THEN {ROOT} ELSE {j} \cup up[B[j].frame] BY <1>1, <1>6
<1> QED BY <1>2, <1>7, <1>8

-----------------------------------------------------------------------------
(* The invariant: what is tended, and where the verdict stands.             *)

\* where the verdict of actor a stands while its worker is st
Decision(a, G, st) ==
    /\ a.forced = None \/ a.forced \in Decided \ {"Succeeded"}
    /\ a.published = None \/ a.published \in Decided
    /\ a.forced # None => a.published # None /\ Informs(a, a.forced)
    /\ a.committed # None => G.outcome # None
    /\ st = "permit" => a.published = None
    /\ st = "idle" /\ a.published # None => Informs(a, G.outcome)
    /\ st \in {"running", "done"} /\ a.published # None => a.forced # None

Attended ==
    /\ plan \in Plans /\ now \in 0..plan.deadline
    /\ Tended(actor, g, watch, accepted, plan)
    /\ watch \in Partial(CallIds, Watchers)
    /\ IsWorker(worker)
    /\ worker.st = "done" => Sensible(worker.update, actor, g, accepted)
    /\ Decision(actor, g, worker.st)

LEMMA DecisionSame ==
    ASSUME NEW a, NEW G, NEW st, Decision(a, G, st), NEW b, SameVerdict(a, b),
           NEW H, G.outcome # None => H.outcome = G.outcome
    PROVE  Decision(b, H, st)
<1>1. \A o : Informs(a, o) <=> Informs(b, o) BY DEF SameVerdict, Informs, Said
<1>2. Informs(a, G.outcome) => G.outcome # None \/ a.published = None BY DEF Informs, Said, None
<1> QED BY <1>1, <1>2 DEF Decision, SameVerdict

LEMMA HandlesDecision ==
    ASSUME NEW s, NEW t, NEW W, NEW A, NEW p \in Plans, Handles(s, t, W, A, p),
           Decision(s.a, s.g, "idle")
    PROVE  Decision(t.a, t.g, "idle")
<1>1. t.g.outcome = None \/ t.g.outcome \in Decided
  <2>1. Sound(t.g, p) BY DEF Handles, Tended
  <2>2. Coherent(t.g, p.budget) /\ t.g \in Schedulers BY <2>1, SoundTypes
  <2>3. t.g.outcome \in Outcomes /\ t.g.outcome # "Internal" BY <2>2, FrameTypes DEF Coherent
  <2> QED BY <2>3 DEF Outcomes, Decided
<1>2. s.g.outcome # None => t.g.outcome # None BY DEF Handles, Loses
<1>3. "Unsafe" \in Decided \ {"Succeeded"} /\ None \notin Decided BY DEF Decided, None
<1>4. t.a.committed = s.a.committed BY DEF Handles
<1>5. CASE /\ t.a.published = s.a.published /\ t.a.unrecorded = s.a.unrecorded
           /\ t.a.forced = s.a.forced /\ t.g.outcome = s.g.outcome
  <2>1. \A o : Informs(s.a, o) <=> Informs(t.a, o) BY <1>5 DEF Informs, Said
  <2> QED BY <1>2, <1>4, <1>5, <2>1 DEF Decision
<1>6. CASE /\ s.a.published = None /\ t.a.published # None /\ Informs(t.a, t.g.outcome)
           /\ t.a.forced = s.a.forced \/ (t.a.forced = "Unsafe" /\ Informs(t.a, "Unsafe"))
  <2>1. s.a.forced = None BY <1>3, <1>6 DEF Decision
  <2>2. t.a.forced = None \/ (t.a.forced = "Unsafe" /\ Informs(t.a, "Unsafe")) BY <1>6, <2>1
  <2>3. t.a.published \in Decided BY <1>1, <1>3, <1>6 DEF Informs, Said
  <2>4. t.a.committed # None => t.g.outcome # None BY <1>2, <1>4 DEF Decision
  <2> QED BY <1>3, <1>6, <2>2, <2>3, <2>4 DEF Decision
<1> QED BY <1>5, <1>6 DEF Handles, Decides

LEMMA InstallIs ==
    ASSUME NEW s, Install(s)
    PROVE  actor' = s.a /\ g' = s.g
BY DEF Install

LEMMA HereIs == IsPair(Here) /\ Here.a = actor /\ Here.g = g
BY DEF Here, IsPair

LEMMA IdleIs == IsWorker(Idle) /\ Idle.st = "idle"
BY DEF IsWorker, Idle, None

\* The actor's fields and its watchers may change as long as calls are retained.
LEMMA SensibleStays ==
    ASSUME NEW u, NEW a, NEW G, NEW A, Sensible(u, a, G, A), NEW b, b.acks \subseteq a.acks \cup A
    PROVE  Sensible(u, b, G, A)
BY DEF Sensible

LEMMA controlIs ==
    ASSUME Attended, control
    PROVE  Attended' /\ (\E R : Loses(g, g', R)) /\ actor'.ended = actor.ended
           /\ actor.published = None
<1>1. PICK hist \in HistoryResults :
        Install(force(Here, IF hist = "full" THEN "Unsafe"
                            ELSE IF now >= plan.deadline THEN "TimedOut" ELSE "Aborted",
                      GraphHere, hist))
  BY DEF control
<1>2. PICK o : o = IF hist = "full" THEN "Unsafe"
                   ELSE IF now >= plan.deadline THEN "TimedOut" ELSE "Aborted" OBVIOUS
<1>3. o \in Decided \ {"Succeeded"} BY <1>2 DEF Decided
<1>4. plan \in Plans /\ IsPair(Here) /\ Here.a = actor /\ Here.g = g
      /\ Tended(actor, g, watch, accepted, plan) /\ actor.published = None
      /\ actor.committed = None
  BY HereIs DEF Attended, control, MustForce
<1>5. /\ plan' = plan /\ now' = now /\ watch' = watch /\ accepted' = accepted
      /\ worker' = IF GraphHere THEN Idle ELSE worker
  BY DEF control, env, history
<1>6. o # None BY <1>3 DEF Decided, None
<1>7. CASE GraphHere
  <2>1. PICK t : t = ForcedHere(Here, o, hist) OBVIOUS
  <2>2. Install(t) BY <1>1, <1>2, <1>4, <1>7, <2>1 DEF force, ForcedActor, ForcedHere
  <2>3. actor' = t.a /\ g' = t.g BY <2>2, InstallIs
  <2>5. Forces(Here, t, o, watch, accepted, plan) /\ t.g.outcome = o
    BY <1>3, <1>4, <2>1, ForceHere
  <2>6. Tended(actor', g', watch', accepted', plan') BY <1>5, <2>3, <2>5 DEF Forces
  <2>7. IsWorker(worker') /\ worker'.st = "idle" BY <1>5, <1>7, IdleIs
  <2>8. Decision(actor', g', "idle")
    <3>1. t.a.published \in Decided
      BY <1>3, <2>5 DEF Forces, Informs, Said, Decided
    <3> QED BY <1>3, <1>4, <1>6, <2>3, <2>5, <3>1 DEF Forces, Decision
  <2>9. Loses(g, g', {}) /\ actor'.ended = actor.ended BY <1>4, <2>3, <2>5 DEF Forces
  <2> QED BY <1>4, <1>5, <2>6, <2>7, <2>8, <2>9 DEF Attended
<1>8. CASE ~GraphHere
  <2>1. PICK t : t = ForcedAway(Here, o, hist) OBVIOUS
  <2>2. Install(t) BY <1>1, <1>2, <1>4, <1>8, <2>1 DEF force, ForcedActor, ForcedAway
  <2>3. actor' = t.a /\ g' = t.g BY <2>2, InstallIs
  <2>5. Forces(Here, t, o, watch, accepted, plan) /\ t.g = g
    BY <1>3, <1>4, <2>1, ForceAway
  <2>6. Tended(actor', g', watch', accepted', plan') BY <1>5, <2>3, <2>5 DEF Forces
  <2>7. worker' = worker /\ worker.st \in {"running", "done"}
    BY <1>5, <1>8 DEF Attended, IsWorker, GraphHere
  <2>8. Decision(actor', g', worker'.st)
    <3>1. t.a.published \in Decided
      BY <1>3, <2>5 DEF Forces, Informs, Said, Decided
    <3> QED BY <1>3, <1>4, <1>6, <2>3, <2>5, <2>7, <3>1 DEF Forces, Decision
  <2>9. worker'.st = "done" => Sensible(worker'.update, actor', g', accepted')
    <3>1. actor'.acks \subseteq actor.acks \cup accepted
      <4>1. t.a.acks = actor.acks BY <1>4, <2>5 DEF Forces
      <4> QED BY <2>3, <4>1
    <3>2. g' = g BY <2>3, <2>5
    <3>3. worker.st = "done" => Sensible(worker.update, actor, g, accepted) BY DEF Attended
    <3> QED BY <1>5, <2>7, <3>1, <3>2, <3>3, SensibleStays
  <2>10. Loses(g, g', {}) /\ actor'.ended = actor.ended BY <1>4, <2>3, <2>5 DEF Forces
  <2> QED BY <1>4, <1>5, <2>6, <2>7, <2>8, <2>9, <2>10 DEF Attended
<1> QED BY <1>7, <1>8

\* an update of g that the actor retains everything in
LEMMA RetainKeeps ==
    ASSUME NEW p, NEW a, NEW b, NEW G, NEW W, NEW A, Tended(a, G, W, A, p), Retains(a, b),
           NEW st, SameVerdict(a, b), Decision(a, G, st)
    PROVE  Tended(b, G, W, A, p) /\ Decision(b, G, st) /\ b.acks = a.acks
<1>1. Tended(b, G, W, A, p) BY RetainsTended
<1>2. Decision(b, G, st) BY DecisionSame
<1> QED BY <1>1, <1>2 DEF Retains

\* the actor moves, keeping what it attends
LEMMA ActorKeeps ==
    ASSUME Attended, Retains(actor, actor'), SameVerdict(actor, actor'),
           UNCHANGED <<plan, now, g, watch, accepted, worker>>
    PROVE  Attended'
<1>1. Tended(actor', g, watch, accepted, plan) /\ Decision(actor', g, worker.st)
      /\ actor'.acks = actor.acks
  BY RetainKeeps DEF Attended
<1>2. worker.st = "done" => Sensible(worker.update, actor', g, accepted)
  BY <1>1, SensibleStays DEF Attended
<1> QED BY <1>1, <1>2 DEF Attended

LEMMA StartAdvanceKeeps == ASSUME Attended, StartAdvance PROVE Attended'
<1>1. /\ UNCHANGED <<plan, now, g, watch, accepted, actor>>
      /\ worker' = [Idle EXCEPT !.st = "permit", !.op = "Advance"]
  BY DEF StartAdvance, env, history
<1>2. IsWorker(worker') /\ worker'.st = "permit" BY <1>1 DEF IsWorker, Idle
<1>3. Decision(actor, g, "permit") BY DEF StartAdvance, Settling, Attended, Decision
<1> QED BY <1>1, <1>2, <1>3 DEF Attended

LEMMA LendKeeps == ASSUME Attended, Lend PROVE Attended'
<1>1. /\ UNCHANGED <<plan, now, g, watch, accepted>>
      /\ worker' = [worker EXCEPT !.st = "running"] /\ worker.st = "permit"
  BY DEF Lend, env, history
<1>2. PICK k : k = Running OBVIOUS
<1>3. actor' = [actor EXCEPT !.park = k] BY <1>2 DEF Lend
<1>4. Retains(actor, actor') /\ SameVerdict(actor, actor')
  BY <1>3, ParkRetains DEF Attended, Tended
<1>5. IsWorker(worker') /\ worker'.st = "running" BY <1>1 DEF Attended, IsWorker
<1>6. Decision(actor, g, "running") BY <1>1 DEF Attended, Decision
<1>7. Tended(actor', g, watch, accepted, plan) /\ Decision(actor', g, "running")
  BY <1>4, <1>6, RetainKeeps DEF Attended
<1> QED BY <1>1, <1>5, <1>7 DEF Attended

LEMMA CommitIs ==
    ASSUME NEW p \in Plans, NEW s, IsPair(s), NEW W, NEW A, Tended(s.a, s.g, W, A, p),
           Decision(s.a, s.g, "idle")
    PROVE  LET t == Commit(s)
           IN Tended(t.a, t.g, W, A, p) /\ Decision(t.a, t.g, "idle") /\ t.g = s.g
              /\ t.a.published = s.a.published /\ t.a.ended = s.a.ended
<1>1. PICK t : t = Commit(s) OBVIOUS
<1>2. CASE s.a.forced = None /\ s.a.committed = None /\ s.g.outcome # None
  <2>1. PICK o : o = s.g.outcome OBVIOUS
  <2>2. PICK k : k = Running OBVIOUS
  <2>3. PICK b : b = [s.a EXCEPT !.committed = o, !.park = k] OBVIOUS
  <2>4. t = [s EXCEPT !.a.committed = o, !.a.park = k] BY <1>1, <1>2, <2>1, <2>2 DEF Commit
  <2>5. t = [a |-> b, g |-> s.g] BY <2>3, <2>4 DEF IsPair
  <2>6. t.a = b /\ t.g = s.g BY <2>5
  <2>7. o \in Outcomes
    <3>1. Sound(s.g, p) BY DEF Tended
    <3>2. s.g \in Schedulers BY <3>1, SoundTypes
    <3> QED BY <2>1, <3>2, FrameTypes
  <2>8. IsActor(s.a) BY DEF Tended
  <2>9. /\ IsActor(b) /\ b.calls = s.a.calls /\ b.acks = s.a.acks /\ b.pending = s.a.pending
        /\ b.forced = s.a.forced /\ b.published = s.a.published /\ b.committed = o
        /\ b.unrecorded = s.a.unrecorded /\ b.ended = s.a.ended
    BY <2>3, <2>7, <2>8 DEF IsActor
  <2>10. Retains(s.a, b) BY <2>9 DEF Retains
  <2>11. Tended(b, s.g, W, A, p) BY <2>10, RetainsTended
  <2>12. Decision(b, s.g, "idle")
    <3>1. \A v : Informs(s.a, v) <=> Informs(b, v) BY <2>9 DEF Informs, Said
    <3> QED BY <1>2, <2>1, <2>9, <3>1 DEF Decision
  <2> QED BY <1>1, <2>6, <2>9, <2>11, <2>12
<1>3. CASE ~(s.a.forced = None /\ s.a.committed = None /\ s.g.outcome # None)
  <2>1. t = s BY <1>1, <1>3 DEF Commit
  <2> QED BY <1>1, <2>1
<1> QED BY <1>2, <1>3

LEMMA EvaluatedIs ==
    ASSUME Attended, worker.st = "done", NEW hist
    PROVE  LET q == Evaluated(hist)
           IN /\ IsPair(q) /\ Tended(q.a, q.g, watch, accepted, plan)
              /\ Decision(q.a, q.g, "idle") /\ (\E R : Loses(g, q.g, R))
              /\ q.a.ended = actor.ended
              /\ actor.published # None => q.a.published = actor.published
<1>1. PICK q : q = Evaluated(hist) OBVIOUS
<1>2. /\ plan \in Plans /\ IsPair(Here) /\ Here.a = actor /\ Here.g = g
      /\ Tended(actor, g, watch, accepted, plan) /\ Decision(actor, g, "done")
      /\ Sensible(worker.update, actor, g, accepted)
  BY HereIs DEF Attended
<1>3. CASE actor.forced # None
  <2>1. PICK o : o = actor.forced OBVIOUS
  <2>2. o \in Decided \ {"Succeeded"} /\ Informs(actor, o) BY <1>2, <1>3, <2>1 DEF Decision
  <2>3. PICK H : H = supersede_uncommitted(g, o) OBVIOUS
  <2>4. Sound(g, plan) /\ Coherent(g, plan.budget) BY <1>2 DEF Tended, Sound
  <2>5. Coherent(H, plan.budget) /\ Steady(g, H) /\ H.outcome = o
    BY <2>2, <2>3, <2>4, SupersedeIs
  <2>6. H.outcome # None BY <2>2, <2>5 DEF Decided, None
  <2>7. Sound(H, plan) /\ Loses(g, H, {}) BY <1>2, <2>4, <2>5, <2>6, SteadySound, SteadyLoses
  <2>8. Tended(actor, H, watch, accepted, plan) BY <1>2, <2>7, SteadyTended
  <2>9. q = [Here EXCEPT !.g = H] BY <1>1, <1>3, <2>1, <2>3 DEF Evaluated, Here
  <2>10. q = [a |-> actor, g |-> H] BY <2>9 DEF Here
  <2>11. IsPair(q) /\ q.a = actor /\ q.g = H BY <2>10 DEF IsPair
  <2>12. Decision(actor, H, "idle") BY <1>2, <2>2, <2>5, <2>6 DEF Decision
  <2> QED BY <1>1, <2>7, <2>8, <2>11, <2>12
<1>4. CASE actor.forced = None
  <2>1. q = ApplyUpdate(Here, worker.update, hist) BY <1>1, <1>4 DEF Evaluated
  <2>2. Handles(Here, q, watch, accepted, plan) BY <1>2, <2>1, ApplyIs
  <2>3. Decision(Here.a, Here.g, "idle") BY <1>2, <1>4 DEF Decision
  <2>4. Decision(q.a, q.g, "idle") BY <1>2, <2>2, <2>3, HandlesDecision
  <2>5. actor.published # None => q.a.published = actor.published
    BY <1>2, <2>2 DEF Handles, Decides
  <2> QED BY <1>1, <1>2, <2>2, <2>4, <2>5 DEF Handles
<1> QED BY <1>3, <1>4

LEMMA evaluatedIs ==
    ASSUME Attended, evaluated
    PROVE  /\ Attended' /\ (\E R : Loses(g, g', R)) /\ actor'.ended = actor.ended
           /\ actor.published # None => actor'.published = actor.published
<1>1. PICK hist \in HistoryResults : Install(Commit(reconcile(Evaluated(hist)))) BY DEF evaluated
<1>2. /\ UNCHANGED <<plan, now, watch, accepted>> /\ worker' = Idle /\ worker.st = "done"
  BY DEF evaluated, env, history
<1>3. PICK q : q = Evaluated(hist) OBVIOUS
<1>4. /\ IsPair(q) /\ Tended(q.a, q.g, watch, accepted, plan)
      /\ Decision(q.a, q.g, "idle") /\ (\E R : Loses(g, q.g, R))
      /\ q.a.ended = actor.ended
      /\ actor.published # None => q.a.published = actor.published
  BY <1>2, <1>3, EvaluatedIs
<1>5. plan \in Plans BY DEF Attended
<1>6. PICK k : k = reconcile(q) OBVIOUS
<1>7. Handles(q, k, watch, accepted, plan) /\ SameVerdict(q.a, k.a) /\ k.g.outcome = q.g.outcome
  BY <1>4, <1>5, <1>6, AcknowledgesHandles
<1>8. Decision(k.a, k.g, "idle") BY <1>4, <1>7, DecisionSame
<1>9. IsPair(k) /\ Tended(k.a, k.g, watch, accepted, plan) BY <1>7 DEF Handles
<1>10. PICK t : t = Commit(k) OBVIOUS
<1>11. Tended(t.a, t.g, watch, accepted, plan) /\ Decision(t.a, t.g, "idle") /\ t.g = k.g
       /\ t.a.published = k.a.published /\ t.a.ended = k.a.ended
  BY <1>5, <1>8, <1>9, <1>10, CommitIs
<1>12. actor' = t.a /\ g' = t.g BY <1>1, <1>3, <1>6, <1>10, InstallIs
<1>13. \E R : Loses(g, g', R)
  <2>1. PICK R : Loses(g, q.g, R) BY <1>4
  <2>2. PICK S : Loses(q.g, k.g, S) BY <1>7 DEF Handles
  <2>3. Loses(g, k.g, R \cup S) BY <2>1, <2>2, LosesTrans
  <2> QED BY <1>11, <1>12, <2>3
<1>14. Attended'
  BY <1>2, <1>11, <1>12, IdleIs DEF Attended
<1>15. actor'.ended = actor.ended /\ (actor.published # None => actor'.published = actor.published)
  BY <1>4, <1>7, <1>11, <1>12 DEF SameVerdict
<1> QED BY <1>13, <1>14, <1>15

LEMMA SeenIs == ASSUME plan \in Plans, NEW t \in Nat PROVE Sees(Seen(t), plan)
BY DEF Sees, Seen

LEMMA DrainIs ==
    ASSUME Attended, Drain
    PROVE  /\ Attended' /\ actor'.ended = actor.ended
           /\ actor.published # None => actor'.published = actor.published
           /\ \E r : /\ Fine(g, r, plan) /\ Record(r.update) /\ r.g.outcome = g.outcome
                     /\ g.outcome # None /\ \E R : Loses(r.g, g', R)
<1>1. PICK r \in advance(g, Seen(now)), hist \in HistoryResults :
        /\ Install(ApplyUpdate([Here EXCEPT !.g = r.g], r.update, hist))
        /\ Record(r.update)
  BY DEF Drain
<1>2. /\ UNCHANGED <<plan, now, watch, worker>> /\ worker.st = "idle" /\ Settling
  BY DEF Drain, env
<1>3. accepted' = accepted BY <1>1 DEF Record
<1>4. /\ plan \in Plans /\ now \in Nat
      /\ Tended(actor, g, watch, accepted, plan) /\ Decision(actor, g, "idle")
  BY <1>2, PlanTypes DEF Attended
<1>5. Sound(g, plan) BY <1>4 DEF Tended
<1>6. Fine(g, r, plan) BY <1>1, <1>4, <1>5, SeenIs, AdvanceIs
<1>7. Tended(actor, r.g, watch, accepted, plan) /\ Sensible(r.update, actor, r.g, accepted)
  BY <1>4, <1>6, FineTended
<1>8. g.outcome # None
  <2>1. actor.published # None \/ actor.committed # None BY <1>2 DEF Settling
  <2>2. Informs(actor, None) => actor.published = None BY DEF Informs, Said, None
  <2> QED BY <1>4, <2>1, <2>2 DEF Decision
<1>9. r.g.outcome = g.outcome BY <1>6, <1>8 DEF Fine, Follows, Sticky
<1>10. PICK s : s = [Here EXCEPT !.g = r.g] OBVIOUS
<1>11. s = [a |-> actor, g |-> r.g] BY <1>10 DEF Here
<1>12. IsPair(s) /\ s.a = actor /\ s.g = r.g BY <1>11 DEF IsPair
<1>13. PICK t : t = ApplyUpdate(s, r.update, hist) OBVIOUS
<1>14. Handles(s, t, watch, accepted, plan) BY <1>4, <1>7, <1>12, <1>13, ApplyIs
<1>15. Decision(actor, r.g, "idle") BY <1>4, <1>9 DEF Decision
<1>16. Decision(t.a, t.g, "idle") BY <1>4, <1>12, <1>14, <1>15, HandlesDecision
<1>17. actor' = t.a /\ g' = t.g BY <1>1, <1>10, <1>13, InstallIs
<1>18. Attended' BY <1>2, <1>3, <1>14, <1>16, <1>17 DEF Attended, Handles
<1>19. actor'.ended = actor.ended /\ (actor.published # None => actor'.published = actor.published)
  BY <1>12, <1>14, <1>17 DEF Handles, Decides
<1>20. \E R : Loses(r.g, g', R) BY <1>12, <1>14, <1>17 DEF Handles
<1> QED BY <1>1, <1>6, <1>8, <1>9, <1>18, <1>19, <1>20

LEMMA WorkerRunsIs ==
    ASSUME Attended, WorkerRuns
    PROVE  /\ Attended' /\ actor' = actor
           /\ \E r : Fine(g, r, plan) /\ Record(r.update) /\ g' = r.g
<1>1. PICK r : /\ r \in IF worker.op = "Advance" THEN advance(g, Seen(now))
                        ELSE complete(g, worker.call, worker.ok, Seen(worker.at))
               /\ g' = r.g /\ worker' = [worker EXCEPT !.st = "done", !.update = r.update]
               /\ Record(r.update)
  BY DEF WorkerRuns
<1>2. /\ UNCHANGED <<plan, now, watch, actor>> /\ worker.st = "running"
  BY DEF WorkerRuns, env
<1>3. accepted' = accepted BY <1>1 DEF Record
<1>4. /\ plan \in Plans /\ now \in Nat /\ IsWorker(worker)
      /\ Tended(actor, g, watch, accepted, plan) /\ Decision(actor, g, "running")
  BY <1>2, PlanTypes DEF Attended
<1>5. Sound(g, plan) BY <1>4 DEF Tended
<1>6. Fine(g, r, plan)
  <2>1. CASE worker.op = "Advance" BY <1>1, <1>4, <1>5, <2>1, SeenIs, AdvanceIs
  <2>2. CASE worker.op # "Advance"
    <3>1. PICK c : c = worker.call OBVIOUS
    <3>2. PICK ok : ok = worker.ok OBVIOUS
    <3>3. PICK x : x = Seen(worker.at) OBVIOUS
    <3>4. c \in CallIds BY <1>2, <1>4, <2>2, <3>1 DEF IsWorker
    <3>5. worker.at \in Nat BY <1>4 DEF IsWorker
    <3>6. Sees(x, plan) BY <1>4, <3>3, <3>5, SeenIs
    <3>7. r \in complete(g, c, ok, x) BY <1>1, <2>2, <3>1, <3>2, <3>3
    <3> QED BY <1>4, <1>5, <3>4, <3>6, <3>7, CompleteIs
  <2> QED BY <2>1, <2>2
<1>7. Tended(actor, r.g, watch, accepted, plan) /\ Sensible(r.update, actor, r.g, accepted)
  BY <1>4, <1>6, FineTended
<1>8. Decision(actor, r.g, "done")
  <2>1. g.outcome # None => r.g.outcome = g.outcome BY <1>6 DEF Fine, Follows, Sticky
  <2> QED BY <1>4, <2>1 DEF Decision
<1>9. PICK u : u = r.update OBVIOUS
<1>10. worker' = [worker EXCEPT !.st = "done", !.update = u] BY <1>1, <1>9
<1>11. IsWorker(worker') /\ worker'.st = "done" /\ worker'.update = u
  BY <1>2, <1>4, <1>10 DEF IsWorker
<1>12. Attended' BY <1>1, <1>2, <1>3, <1>7, <1>8, <1>9, <1>11 DEF Attended
<1> QED BY <1>1, <1>2, <1>6, <1>12

\* what is noted of call c when its result arrives
LEMMA NoteResultIs ==
    ASSUME Attended, NEW c \in DOMAIN actor.calls
    PROVE  LET b == NoteResult(c)
           IN Tended(b, g, watch, accepted, plan) /\ SameVerdict(actor, b)
<1>1. PICK a : a = actor OBVIOUS
<1>2. PICK b : b = NoteResult(c) OBVIOUS
<1>3. Tended(a, g, watch, accepted, plan) /\ c \in DOMAIN a.calls BY <1>1 DEF Attended
<1>4. IsActor(a) /\ c \in accepted BY <1>3 DEF Tended
<1>5. a.calls[c] \in CallRecords
  <2>1. a.calls \in [DOMAIN a.calls -> CallRecords] BY <1>4 DEF IsActor, Partial
  <2> QED BY <1>3, <2>1
<1>6. PICK r : r = [a.calls[c] EXCEPT !.seen = TRUE] OBVIOUS
<1>7. r \in CallRecords /\ r.settled = a.calls[c].settled BY <1>5, <1>6 DEF CallRecords
<1>8. PICK S : S = IF a.calls[c].settled = "clean" THEN a.acks \cup {c} ELSE a.acks OBVIOUS
<1>9. PICK u : u = a.uncertain OBVIOUS
<1>10. b = WithRecord(a, c, r, S, u)
  BY <1>1, <1>2, <1>4, <1>6, <1>8, <1>9 DEF NoteResult, IsActor, WithRecord
<1>11. Notes(a, b, c) /\ SameVerdict(a, b) /\ b.acks = S /\ b.calls[c] = r /\ b.pending = a.pending
  <2>1. S = a.acks \/ S = a.acks \cup {c} BY <1>8
  <2> QED BY <1>3, <1>4, <1>7, <1>10, <2>1, RecordNoted
<1>12. c \notin DOMAIN b.pending BY <1>3, <1>4, <1>11 DEF Tended
<1>13. c \in DOMAIN watch => b.acks = a.acks /\ b.calls[c].settled = None
  <2>1. c \in DOMAIN watch => a.calls[c].settled = None BY <1>3 DEF Tended
  <2> QED BY <1>7, <1>8, <1>11, <2>1 DEF None
<1>14. Known(g, {c}, plan) BY <1>3, <1>4 DEF Tended, Known
<1>15. Tended(b, g, watch, accepted, plan) BY <1>3, <1>11, <1>12, <1>13, <1>14, NotesTended
<1> QED BY <1>1, <1>2, <1>11, <1>15

\* a pair with the scheduler of now
Beside(a) == [a |-> a, g |-> g]

LEMMA BesideIs == ASSUME NEW a PROVE IsPair(Beside(a)) /\ Beside(a).a = a /\ Beside(a).g = g
BY DEF Beside, IsPair

\* the actor gives up: the journal is full
LEMMA FailKeeps ==
    ASSUME Attended, worker.st = "idle", actor.published = None, NEW a,
           Tended(a, g, watch, accepted, plan), SameVerdict(actor, a),
           Install(fail(Beside(a))), UNCHANGED <<plan, now, watch, accepted, worker>>
    PROVE  Attended' /\ (\E R : Loses(g, g', R)) /\ actor'.ended = actor.ended
<1>1. PICK s : s = Beside(a) OBVIOUS
<1>2. IsPair(s) /\ s.a = a /\ s.g = g BY <1>1, BesideIs
<1>3. PICK t : t = fail(s) OBVIOUS
<1>4. plan \in Plans /\ Decision(actor, g, "idle") BY DEF Attended
<1>5. s.a.published = None BY <1>2 DEF SameVerdict
<1>6. Handles(s, t, watch, accepted, plan) BY <1>2, <1>3, <1>4, <1>5, FailHandles
<1>7. Decision(s.a, s.g, "idle") BY <1>2, <1>4, DecisionSame
<1>8. Decision(t.a, t.g, "idle") BY <1>4, <1>6, <1>7, HandlesDecision
<1>9. actor' = t.a /\ g' = t.g BY <1>1, <1>3, InstallIs
<1>10. Tended(actor', g', watch, accepted, plan) BY <1>6, <1>9 DEF Handles
<1>11. Attended' BY <1>8, <1>9, <1>10 DEF Attended
<1>12. \E R : Loses(g, g', R) BY <1>2, <1>6, <1>9 DEF Handles
<1>13. actor'.ended = actor.ended BY <1>2, <1>6, <1>9 DEF Handles, SameVerdict
<1> QED BY <1>11, <1>12, <1>13

\* the actor acknowledges what it can, the scheduler at hand
LEMMA ReconcileKeeps ==
    ASSUME Attended, GraphHere, NEW a, NEW W, W \in Partial(CallIds, Watchers),
           Tended(a, g, W, accepted, plan), SameVerdict(actor, a),
           Install(reconcile(Beside(a))), UNCHANGED <<plan, now, accepted, worker>>, watch' = W
    PROVE  Attended' /\ (\E R : Loses(g, g', R)) /\ SameVerdict(actor, actor')
<1>1. PICK s : s = Beside(a) OBVIOUS
<1>2. IsPair(s) /\ s.a = a /\ s.g = g BY <1>1, BesideIs
<1>3. PICK t : t = reconcile(s) OBVIOUS
<1>4. plan \in Plans /\ Decision(actor, g, worker.st) BY DEF Attended
<1>5. Handles(s, t, W, accepted, plan) /\ SameVerdict(s.a, t.a) /\ t.g.outcome = s.g.outcome
  BY <1>2, <1>3, <1>4, AcknowledgesHandles
<1>6. SameVerdict(actor, t.a) BY <1>2, <1>5 DEF SameVerdict
<1>7. Decision(t.a, t.g, worker.st) BY <1>2, <1>4, <1>5, <1>6, DecisionSame
<1>8. actor' = t.a /\ g' = t.g BY <1>1, <1>3, InstallIs
<1>9. Tended(actor', g', W, accepted, plan) BY <1>5, <1>8 DEF Handles
<1>10. worker.st # "done" BY DEF GraphHere
<1>11. Attended' BY <1>7, <1>8, <1>9, <1>10 DEF Attended
<1>12. \E R : Loses(g, g', R) BY <1>2, <1>5, <1>8 DEF Handles
<1> QED BY <1>6, <1>8, <1>11, <1>12

LEMMA CompleteOpIs ==
    ASSUME NEW c \in CallIds, NEW ok, now \in Nat
    PROVE  LET w == CompleteOp(c, ok) IN IsWorker(w) /\ w.st = "permit"
<1>1. PICK w : w = CompleteOp(c, ok) OBVIOUS
<1>2. w = [Idle EXCEPT !.st = "permit", !.op = "Complete", !.call = c, !.ok = ok, !.at = now]
  BY <1>1 DEF CompleteOp
<1>3. IsWorker(w) /\ w.st = "permit" BY <1>2 DEF IsWorker, Idle
<1> QED BY <1>1, <1>3

LEMMA LosesRefl == ASSUME Attended PROVE Loses(g, g, {})
<1>1. plan \in Plans /\ Sound(g, plan) BY DEF Attended, Tended
<1> QED BY <1>1, CalmRefl, SteadyLoses DEF Calm

LEMMA completedIs ==
    ASSUME Attended, completed
    PROVE  Attended' /\ (\E R : Loses(g, g', R)) /\ actor'.ended = actor.ended
           /\ (actor.published # None => actor'.published = actor.published)
<1>1. UNCHANGED <<plan, now, watch, accepted>> /\ worker.st = "idle"
  BY DEF completed, env, history
<1>2. Loses(g, g, {}) BY LosesRefl
<1>3. PICK m \in mailbox :
         LET c == m.call
             known == c \in DOMAIN actor.calls /\ ~actor.calls[c].seen
             current == actor.published = None /\ Current(c)
         IN \/ ~known /\ UNCHANGED <<actor, g, worker>>
            \/ /\ known /\ ~current
               /\ Install(reconcile([a |-> NoteResult(c), g |-> g]))
               /\ UNCHANGED worker
            \/ /\ known /\ current
               /\ \E hist \in HistoryResults :
                    IF hist = "full" /\ now < actor.calls[c].deadline
                    THEN /\ Install(fail([a |-> NoteResult(c), g |-> g]))
                         /\ UNCHANGED worker
                    ELSE /\ actor' = [NoteResult(c) EXCEPT !.park = Running]
                         /\ worker' = CompleteOp(c, m.ok)
                         /\ UNCHANGED g
  BY DEF completed
<1>4. PICK c : c = m.call OBVIOUS
<1>5. CASE UNCHANGED <<actor, g, worker>> BY <1>1, <1>2, <1>5 DEF Attended
<1>6. ASSUME c \in DOMAIN actor.calls, ~UNCHANGED <<actor, g, worker>>
      PROVE  Attended' /\ (\E R : Loses(g, g', R)) /\ actor'.ended = actor.ended
             /\ (actor.published # None => actor'.published = actor.published)
  <2>1. PICK a : a = NoteResult(c) OBVIOUS
  <2>2. Tended(a, g, watch, accepted, plan) /\ SameVerdict(actor, a) BY <1>6, <2>1, NoteResultIs
  <2>3. CASE Install(reconcile([a |-> NoteResult(c), g |-> g])) /\ UNCHANGED worker
    <3>1. Install(reconcile(Beside(a))) BY <2>1, <2>3 DEF Beside
    <3>2. GraphHere /\ watch \in Partial(CallIds, Watchers) BY <1>1 DEF GraphHere, Attended
    <3>3. Attended' /\ (\E R : Loses(g, g', R)) /\ SameVerdict(actor, actor')
      BY <1>1, <2>2, <2>3, <3>1, <3>2, ReconcileKeeps
    <3> QED BY <3>3 DEF SameVerdict
  <2>4. CASE Install(fail([a |-> NoteResult(c), g |-> g])) /\ UNCHANGED worker
             /\ actor.published = None
    <3>1. Install(fail(Beside(a))) BY <2>1, <2>4 DEF Beside
    <3>2. Attended' /\ (\E R : Loses(g, g', R)) /\ actor'.ended = actor.ended
      BY <1>1, <2>2, <2>4, <3>1, FailKeeps
    <3> QED BY <2>4, <3>2
  <2>5. CASE /\ actor' = [NoteResult(c) EXCEPT !.park = Running]
             /\ worker' = CompleteOp(c, m.ok) /\ UNCHANGED g /\ actor.published = None
    <3>1. PICK k : k = Running OBVIOUS
    <3>2. PICK ok : ok = m.ok OBVIOUS
    <3>3. actor' = [a EXCEPT !.park = k] /\ worker' = CompleteOp(c, ok) BY <2>1, <2>5, <3>1, <3>2
    <3>4. IsActor(a) BY <2>2 DEF Tended
    <3>5. Retains(a, actor') /\ SameVerdict(a, actor') BY <3>3, <3>4, ParkRetains
    <3>6. Tended(actor', g, watch, accepted, plan) BY <2>2, <3>5, RetainsTended
    <3>7. SameVerdict(actor, actor') BY <2>2, <3>5 DEF SameVerdict
    <3>8. Decision(actor, g, "permit") BY <1>1, <2>5 DEF Attended, Decision
    <3>9. Decision(actor', g, "permit") BY <3>7, <3>8, DecisionSame
    <3>10. c \in CallIds /\ now \in Nat
      <4>1. plan \in Plans BY DEF Attended
      <4>2. now \in Nat BY <4>1, PlanTypes DEF Attended
      <4>3. actor.calls \in Partial(CallIds, CallRecords) BY DEF Attended, Tended, IsActor
      <4> QED BY <1>6, <4>2, <4>3, PartialFn
    <3>11. IsWorker(worker') /\ worker'.st = "permit" BY <3>3, <3>10, CompleteOpIs
    <3>12. Attended' BY <1>1, <2>5, <3>6, <3>9, <3>11 DEF Attended
    <3> QED BY <1>2, <2>5, <3>7, <3>12 DEF SameVerdict
  <2> QED BY <1>3, <1>4, <1>6, <2>3, <2>4, <2>5
<1> QED BY <1>3, <1>4, <1>5, <1>6

\* the first queued call, and the actor without it
LEMMA SubmitIs ==
    ASSUME Attended, DOMAIN actor.pending # {}
    PROVE  LET c == NextPending
               b == Submit(actor, c)
           IN /\ c \in DOMAIN actor.pending /\ c \in CallIds /\ actor.pending[c] \in Nat
              /\ c \notin accepted /\ c \notin actor.acks /\ c \in Books(g)
              /\ Known(g, {c}, plan)
              /\ IsActor(b) /\ b.calls = actor.calls /\ b.acks = actor.acks
              /\ DOMAIN b.pending = DOMAIN actor.pending \ {c} /\ SameVerdict(actor, b)
<1>1. Tended(actor, g, watch, accepted, plan) /\ IsActor(actor) BY DEF Attended, Tended
<1>2. PICK e : e = actor.pending OBVIOUS
<1>3. PICK D : D = CallIds OBVIOUS
<1>4. e \in Partial(D, Nat) BY <1>1, <1>2, <1>3 DEF IsActor
<1>5. DOMAIN e \subseteq D /\ e \in [DOMAIN e -> Nat] BY <1>4, PartialFn
<1>6. PICK c : c = NextPending OBVIOUS
<1>7. c \in DOMAIN e /\ c \in D
  <2>1. DOMAIN e \subseteq CallIds /\ DOMAIN e # {} BY <1>2, <1>3, <1>5
  <2>2. FirstCall(DOMAIN e) \in DOMAIN e BY <2>1, FirstCallIs
  <2> QED BY <1>2, <1>5, <1>6, <2>2 DEF NextPending
<1>8. e[c] \in Nat BY <1>5, <1>7
<1>9. c \notin accepted /\ c \notin actor.acks /\ c \in Books(g) /\ Known(g, {c}, plan)
  BY <1>1, <1>2, <1>7 DEF Tended, Known
<1>10. PICK f : f = Drop(e, {c}) OBVIOUS
<1>11. f \in Partial(D, Nat) /\ DOMAIN f = DOMAIN e \ {c}
  <2>1. Drop(e, {c}) \in Partial(D, Nat) BY <1>4, DropCalls
  <2>2. DOMAIN Drop(e, {c}) = DOMAIN e \ {c} BY DEF Drop, Restrict
  <2> QED BY <1>10, <2>1, <2>2
<1>12. PICK b : b = Submit(actor, c) OBVIOUS
<1>13. b = [actor EXCEPT !.pending = f] BY <1>2, <1>10, <1>12 DEF Submit
<1>14. IsActor(b) /\ b.calls = actor.calls /\ b.acks = actor.acks /\ b.pending = f
       /\ SameVerdict(actor, b)
  BY <1>1, <1>3, <1>11, <1>13 DEF IsActor, SameVerdict
<1> QED BY <1>2, <1>3, <1>6, <1>7, <1>8, <1>9, <1>11, <1>12, <1>14

\* a call is accepted, and somebody watches it
LEMMA AcceptKeeps ==
    ASSUME NEW p, NEW a, NEW G, NEW W, NEW A, Tended(a, G, W, A, p), NEW c \in DOMAIN a.pending,
           NEW b, IsActor(b), b.acks = a.acks, DOMAIN b.pending = DOMAIN a.pending \ {c},
           \A d : d \in DOMAIN b.calls <=> d \in DOMAIN a.calls \/ d = c,
           \A d \in DOMAIN a.calls : d # c => b.calls[d] = a.calls[d],
           b.calls[c].settled = None,
           NEW V, \A d : d \in DOMAIN V <=> d \in DOMAIN W \/ d = c
    PROVE  Tended(b, G, V, A \cup {c}, p)
<1>1. PICK B : B = A \cup {c} OBVIOUS
<1>2. Known(G, B \cup b.acks \cup DOMAIN b.pending, p) BY <1>1 DEF Tended, Known
<1>3. DOMAIN V \subseteq DOMAIN b.calls /\ DOMAIN b.calls \subseteq B BY <1>1 DEF Tended
<1>4. \A d \in DOMAIN b.pending : d \notin B /\ d \notin b.acks BY <1>1 DEF Tended
<1>5. \A d \in DOMAIN V \cup DOMAIN b.pending : d \in Books(G) BY DEF Tended
<1>6. ASSUME NEW d \in DOMAIN V PROVE d \notin b.acks /\ b.calls[d].settled = None
  <2>1. CASE d = c BY <2>1 DEF Tended
  <2>2. CASE d # c BY <2>2 DEF Tended
  <2> QED BY <2>1, <2>2
<1>7. Sound(G, p) /\ IsFiniteSet(b.acks) BY DEF Tended
<1> QED BY <1>1, <1>2, <1>3, <1>4, <1>5, <1>6, <1>7 DEF Tended

LEMMA NewCallIs == ASSUME NEW t \in Nat PROVE NewCall(t) \in CallRecords /\ NewCall(t).settled = None
BY DEF NewCall, CallRecords

LEMMA dispatchIs ==
    ASSUME Attended, dispatch
    PROVE  /\ Attended' /\ (\E R : Loses(g, g', R)) /\ actor'.ended = actor.ended
           /\ actor.published # None => actor'.published = actor.published
           /\ \/ watch' = watch /\ accepted' = accepted
              \/ \E c : /\ c \notin accepted /\ accepted' = accepted \cup {c}
                        /\ watch' = Put(watch, c, "running")
                        /\ actor.published = None /\ actor'.published = None
<1>1. /\ UNCHANGED <<plan, now>> /\ worker.st = "idle" /\ actor.published = None
      /\ DOMAIN actor.pending # {}
  BY DEF dispatch, env, Settling
<1>2. PICK c : c = NextPending OBVIOUS
<1>3. PICK t : t = actor.pending[c] OBVIOUS
<1>4. PICK b : b = Submit(actor, c) OBVIOUS
<1>5. /\ c \in DOMAIN actor.pending /\ c \in CallIds /\ t \in Nat
      /\ c \notin accepted /\ c \notin actor.acks /\ c \in Books(g) /\ Known(g, {c}, plan)
      /\ IsActor(b) /\ b.calls = actor.calls /\ b.acks = actor.acks
      /\ DOMAIN b.pending = DOMAIN actor.pending \ {c} /\ SameVerdict(actor, b)
  BY <1>1, <1>2, <1>3, <1>4, SubmitIs
<1>6. /\ plan \in Plans /\ now \in Nat /\ Tended(actor, g, watch, accepted, plan)
      /\ Decision(actor, g, "idle") /\ IsActor(actor)
  BY <1>1, PlanTypes DEF Attended, Tended
<1>7. Loses(g, g, {}) BY LosesRefl
<1>8. \/ /\ actor' = [actor EXCEPT !.park = Running]
         /\ UNCHANGED <<g, worker, watch, accepted>>
      \/ /\ actor' = [b EXCEPT !.calls = Put(b.calls, c, NewCall(t))]
         /\ watch' = Put(watch, c, "running") /\ accepted' = accepted \cup {c}
         /\ UNCHANGED <<g, worker>>
      \/ /\ \E hist \in HistoryResults :
              IF hist = "full"
              THEN Install(fail([Here EXCEPT !.a = b])) /\ UNCHANGED worker
              ELSE /\ actor' = [b EXCEPT !.acks = b.acks \cup {c}]
                   /\ worker' = CompleteOp(c, FALSE)
                   /\ UNCHANGED g
         /\ UNCHANGED <<watch, accepted>>
  BY <1>2, <1>3, <1>4 DEF dispatch
<1>9. CASE /\ actor' = [actor EXCEPT !.park = Running]
           /\ UNCHANGED <<g, worker, watch, accepted>>
  <2>1. PICK k : k = Running OBVIOUS
  <2>2. Retains(actor, actor') /\ SameVerdict(actor, actor') BY <1>6, <1>9, <2>1, ParkRetains
  <2>3. Attended' BY <1>1, <1>9, <2>2, ActorKeeps
  <2> QED BY <1>7, <1>9, <2>2, <2>3 DEF SameVerdict
<1>10. CASE /\ actor' = [b EXCEPT !.calls = Put(b.calls, c, NewCall(t))]
            /\ watch' = Put(watch, c, "running") /\ accepted' = accepted \cup {c}
            /\ UNCHANGED <<g, worker>>
  <2>1. PICK D : D = CallIds OBVIOUS
  <2>2. PICK Q : Q = CallRecords OBVIOUS
  <2>3. PICK r : r = NewCall(t) OBVIOUS
  <2>4. r \in Q /\ r.settled = None BY <1>5, <2>2, <2>3, NewCallIs
  <2>5. PICK e : e = b.calls OBVIOUS
  <2>6. e \in Partial(D, Q) BY <1>5, <2>1, <2>2, <2>5 DEF IsActor
  <2>7. PICK f : f = Put(e, c, r) OBVIOUS
  <2>8. /\ f \in Partial(D, Q) /\ f[c] = r
        /\ \A d : d \in DOMAIN f <=> d \in DOMAIN e \/ d = c
        /\ \A d \in DOMAIN e : d # c => f[d] = e[d]
    <3>1. c \in D BY <1>5, <2>1
    <3>2. /\ Put(e, c, r) \in Partial(D, Q) /\ Put(e, c, r)[c] = r
          /\ \A d : d \in DOMAIN Put(e, c, r) <=> d \in DOMAIN e \/ d = c
          /\ \A d \in DOMAIN e : d # c => Put(e, c, r)[d] = e[d]
      BY <2>4, <2>6, <3>1, PutCalls
    <3> QED BY <2>7, <3>2
  <2>9. PICK x : x = [b EXCEPT !.calls = f] OBVIOUS
  <2>10. /\ IsActor(x) /\ x.calls = f /\ x.acks = b.acks /\ x.pending = b.pending
         /\ SameVerdict(b, x)
    BY <1>5, <2>1, <2>2, <2>8, <2>9 DEF IsActor, SameVerdict
  <2>11. actor' = x BY <1>10, <2>3, <2>5, <2>7, <2>9
  <2>12. PICK Z : Z = Watchers OBVIOUS
  <2>13. PICK V : V = Put(watch, c, "running") OBVIOUS
  <2>14. V \in Partial(D, Z) /\ \A d : d \in DOMAIN V <=> d \in DOMAIN watch \/ d = c
    <3>1. watch \in Partial(D, Z) BY <2>1, <2>12 DEF Attended
    <3>2. "running" \in Z BY <2>12 DEF Watchers
    <3>3. c \in D BY <1>5, <2>1
    <3>4. /\ Put(watch, c, "running") \in Partial(D, Z)
          /\ \A d : d \in DOMAIN Put(watch, c, "running") <=> d \in DOMAIN watch \/ d = c
      BY <3>1, <3>2, <3>3, PutCalls
    <3> QED BY <2>13, <3>4
  <2>15. /\ x.acks = actor.acks /\ DOMAIN x.pending = DOMAIN actor.pending \ {c}
         /\ \A d : d \in DOMAIN x.calls <=> d \in DOMAIN actor.calls \/ d = c
         /\ \A d \in DOMAIN actor.calls : d # c => x.calls[d] = actor.calls[d]
         /\ x.calls[c].settled = None
    BY <1>5, <2>4, <2>5, <2>8, <2>10
  <2>16. Tended(x, g, V, accepted \cup {c}, plan)
    BY <1>5, <1>6, <2>10, <2>14, <2>15, AcceptKeeps
  <2>17. SameVerdict(actor, x) BY <1>5, <2>10 DEF SameVerdict
  <2>18. Decision(x, g, "idle") BY <1>6, <2>17, DecisionSame
  <2>19. Attended'
    BY <1>1, <1>10, <2>1, <2>11, <2>12, <2>13, <2>14, <2>16, <2>18 DEF Attended
  <2> QED BY <1>1, <1>5, <1>7, <1>10, <2>11, <2>17, <2>19 DEF SameVerdict
<1>11. CASE Install(fail([Here EXCEPT !.a = b])) /\ UNCHANGED <<worker, watch, accepted>>
  <2>1. Install(fail(Beside(b))) BY <1>11 DEF Here, Beside
  <2>2. Retains(actor, b) BY <1>5 DEF Retains
  <2>3. Tended(b, g, watch, accepted, plan) BY <1>6, <2>2, RetainsTended
  <2>4. Attended' /\ (\E R : Loses(g, g', R)) /\ actor'.ended = actor.ended
    BY <1>1, <1>5, <1>11, <2>1, <2>3, FailKeeps
  <2> QED BY <1>1, <1>11, <2>4
<1>12. CASE /\ actor' = [b EXCEPT !.acks = b.acks \cup {c}]
            /\ worker' = CompleteOp(c, FALSE) /\ UNCHANGED <<g, watch, accepted>>
  <2>1. PICK S : S = b.acks \cup {c} OBVIOUS
  <2>2. S \in SUBSET CallIds BY <1>5, <2>1 DEF IsActor
  <2>3. actor' = [b EXCEPT !.acks = S] BY <1>12, <2>1
  <2>4. /\ IsActor(actor') /\ actor'.calls = b.calls /\ actor'.acks = S
        /\ actor'.pending = b.pending /\ SameVerdict(b, actor')
    BY <1>5, <2>2, <2>3 DEF IsActor, SameVerdict
  <2>5. Notes(actor, actor', c) BY <1>5, <2>1, <2>4 DEF Notes
  <2>6. c \notin DOMAIN actor'.pending /\ c \notin DOMAIN watch
    BY <1>5, <1>6, <2>4 DEF Tended
  <2>7. Tended(actor', g, watch, accepted, plan) BY <1>5, <1>6, <2>5, <2>6, NotesTended
  <2>8. SameVerdict(actor, actor') BY <1>5, <2>4 DEF SameVerdict
  <2>9. Decision(actor, g, "permit") BY <1>1, <1>6 DEF Decision
  <2>10. Decision(actor', g, "permit") BY <2>8, <2>9, DecisionSame
  <2>11. PICK ok : ok = FALSE OBVIOUS
  <2>12. worker' = CompleteOp(c, ok) BY <1>12, <2>11
  <2>13. IsWorker(worker') /\ worker'.st = "permit" BY <1>5, <1>6, <2>12, CompleteOpIs
  <2>14. Attended' BY <1>1, <1>12, <2>7, <2>10, <2>13 DEF Attended
  <2> QED BY <1>7, <1>12, <2>8, <2>14 DEF SameVerdict
<1> QED BY <1>8, <1>9, <1>10, <1>11, <1>12

LEMMA CancelSomeIs ==
    ASSUME NEW f, f \in Partial(CallIds, CallRecords), NEW S
    PROVE  LET e == [c \in DOMAIN f |-> IF c \in S THEN [f[c] EXCEPT !.cancelled = TRUE] ELSE f[c]]
           IN /\ e \in Partial(CallIds, CallRecords) /\ DOMAIN e = DOMAIN f
              /\ \A c \in DOMAIN f : e[c].settled = f[c].settled
<1>1. PICK Q : Q = CallRecords OBVIOUS
<1>2. PICK D : D = CallIds OBVIOUS
<1>3. DOMAIN f \subseteq D /\ f \in [DOMAIN f -> Q] BY <1>1, <1>2, PartialFn
<1>4. ASSUME NEW c \in DOMAIN f
      PROVE  LET r == IF c \in S THEN [f[c] EXCEPT !.cancelled = TRUE] ELSE f[c]
             IN r \in Q /\ r.settled = f[c].settled
  <2>1. f[c] \in CallRecords BY <1>1, <1>3
  <2> QED BY <1>1, <2>1 DEF CallRecords
<1>5. PICK e : e = [c \in DOMAIN f |-> IF c \in S THEN [f[c] EXCEPT !.cancelled = TRUE] ELSE f[c]]
  OBVIOUS
<1>6. DOMAIN e = DOMAIN f /\ \A c \in DOMAIN f : e[c] \in Q /\ e[c].settled = f[c].settled
  BY <1>4, <1>5
<1>7. e \in [DOMAIN e -> Q] BY <1>5, <1>6
<1>8. e \in Partial(D, Q) BY <1>3, <1>6, <1>7, PartialFn
<1> QED BY <1>1, <1>2, <1>5, <1>6, <1>8

LEMMA expiredIs ==
    ASSUME Attended, expired
    PROVE  Attended' /\ SameVerdict(actor, actor')
<1>1. UNCHANGED <<plan, now, g, watch, accepted, worker>> BY DEF expired, env, history
<1>2. PICK S : actor' = [actor EXCEPT
                !.calls = [c \in DOMAIN actor.calls |->
                             IF c \in S THEN [actor.calls[c] EXCEPT !.cancelled = TRUE]
                             ELSE actor.calls[c]],
                !.park = Running]
  BY DEF expired
<1>3. IsActor(actor) BY DEF Attended, Tended
<1>4. PICK f : f = actor.calls OBVIOUS
<1>5. PICK D : D = CallIds OBVIOUS
<1>6. PICK Q : Q = CallRecords OBVIOUS
<1>7. f \in Partial(D, Q) BY <1>3, <1>4, <1>5, <1>6 DEF IsActor
<1>8. PICK e : e = [c \in DOMAIN f |-> IF c \in S THEN [f[c] EXCEPT !.cancelled = TRUE] ELSE f[c]]
  OBVIOUS
<1>9. /\ e \in Partial(D, Q) /\ DOMAIN e = DOMAIN f
      /\ \A c \in DOMAIN f : e[c].settled = f[c].settled
  BY <1>5, <1>6, <1>7, <1>8, CancelSomeIs
<1>10. PICK k : k = Running OBVIOUS
<1>11. actor' = [actor EXCEPT !.calls = e, !.park = k] BY <1>2, <1>4, <1>8, <1>10
<1>12. /\ IsActor(actor') /\ actor'.calls = e /\ actor'.acks = actor.acks
       /\ actor'.pending = actor.pending /\ SameVerdict(actor, actor')
  BY <1>3, <1>5, <1>6, <1>9, <1>11 DEF IsActor, SameVerdict
<1>13. Retains(actor, actor') BY <1>4, <1>9, <1>12 DEF Retains
<1>14. Attended' BY <1>1, <1>12, <1>13, ActorKeeps
<1> QED BY <1>12, <1>14

LEMMA CapacityWakeIs ==
    ASSUME Attended, CapacityWake
    PROVE  Attended' /\ SameVerdict(actor, actor')
<1>1. UNCHANGED <<plan, now, g, watch, accepted, worker>> BY DEF CapacityWake, env, history
<1>2. PICK k : k = Running OBVIOUS
<1>3. actor' = [actor EXCEPT !.park = k] BY <1>2 DEF CapacityWake
<1>4. Retains(actor, actor') /\ SameVerdict(actor, actor')
  BY <1>3, ParkRetains DEF Attended, Tended
<1> QED BY <1>1, <1>4, ActorKeeps

LEMMA finishIs ==
    ASSUME Attended, finish
    PROVE  /\ Attended' /\ actor'.published = actor.published /\ actor.published # None
           /\ DOMAIN watch = {} /\ ~actor.ended /\ actor'.ended = TRUE
<1>1. UNCHANGED <<plan, now, g, watch, accepted, worker>> BY DEF finish, env, history
<1>2. actor' = [actor EXCEPT !.ended = TRUE] /\ ~actor.ended /\ Done BY DEF finish
<1>3. IsActor(actor) BY DEF Attended, Tended
<1>4. /\ IsActor(actor') /\ actor'.calls = actor.calls /\ actor'.acks = actor.acks
      /\ actor'.pending = actor.pending /\ actor'.published = actor.published
      /\ actor'.forced = actor.forced /\ actor'.committed = actor.committed
      /\ actor'.unrecorded = actor.unrecorded /\ actor'.ended = TRUE
  BY <1>2, <1>3 DEF IsActor
<1>5. Retains(actor, actor') BY <1>4 DEF Retains
<1>6. Tended(actor', g, watch, accepted, plan) BY <1>5, RetainsTended DEF Attended
<1>7. Decision(actor', g, worker.st)
  <2>1. \A o : Informs(actor, o) <=> Informs(actor', o) BY <1>4 DEF Informs, Said
  <2> QED BY <1>4, <2>1 DEF Attended, Decision
<1>8. worker.st = "done" => Sensible(worker.update, actor', g, accepted)
  BY <1>4, SensibleStays DEF Attended
<1>9. Attended' BY <1>1, <1>6, <1>7, <1>8 DEF Attended
<1> QED BY <1>2, <1>4, <1>9 DEF Done

\* what is noted when the watcher of c is joined
LEMMA NoteExitIs ==
    ASSUME Attended, NEW c \in DOMAIN watch, NEW e \in {"clean", "dirty"}
    PROVE  LET b == NoteExit(c, e)
               W == Drop(watch, {c})
           IN /\ Tended(b, g, W, accepted, plan) /\ SameVerdict(actor, b)
              /\ W \in Partial(CallIds, Watchers) /\ DOMAIN W = DOMAIN watch \ {c}
              /\ \A d \in DOMAIN W : W[d] = watch[d]
              /\ b.acks \subseteq actor.acks \cup accepted
<1>1. PICK a : a = actor OBVIOUS
<1>2. PICK b : b = NoteExit(c, e) OBVIOUS
<1>3. PICK D : D = CallIds OBVIOUS
<1>4. PICK Q : Q = Watchers OBVIOUS
<1>5. PICK X : X = {c} OBVIOUS
<1>6. PICK W : W = Drop(watch, X) OBVIOUS
<1>7. Tended(a, g, watch, accepted, plan) BY <1>1 DEF Attended
<1>8. watch \in Partial(D, Q) BY <1>3, <1>4 DEF Attended
<1>9. /\ W \in Partial(D, Q) /\ DOMAIN W = DOMAIN watch \ X
      /\ \A d \in DOMAIN watch \ X : W[d] = watch[d]
  <2>1. Drop(watch, X) \in Partial(D, Q) BY <1>8, DropCalls
  <2>2. DOMAIN Drop(watch, X) = DOMAIN watch \ X BY DEF Drop, Restrict
  <2>3. \A d \in DOMAIN watch \ X : Drop(watch, X)[d] = watch[d] BY DEF Drop, Restrict
  <2> QED BY <1>6, <2>1, <2>2, <2>3
<1>10. Tended(a, g, W, accepted, plan) BY <1>7, <1>9, WatchTended
<1>11. IsActor(a) /\ c \in DOMAIN a.calls /\ c \in accepted BY <1>7 DEF Tended
<1>12. a.calls[c] \in CallRecords
  <2>1. a.calls \in [DOMAIN a.calls -> CallRecords] BY <1>11 DEF IsActor, Partial
  <2> QED BY <1>11, <2>1
<1>13. PICK r : r = [a.calls[c] EXCEPT !.settled = e] OBVIOUS
<1>14. r \in CallRecords BY <1>12, <1>13 DEF CallRecords
<1>15. PICK S : S = IF /\ e = "clean"
                       /\ a.calls[c].seen \/ a.calls[c].cancelled \/ a.published # None
                    THEN a.acks \cup {c} ELSE a.acks OBVIOUS
<1>16. PICK u : u = (a.uncertain \/ e = "dirty") OBVIOUS
<1>17. b = WithRecord(a, c, r, S, u)
  BY <1>1, <1>2, <1>11, <1>13, <1>15, <1>16 DEF NoteExit, IsActor, WithRecord
<1>18. Notes(a, b, c) /\ SameVerdict(a, b) /\ b.acks = S /\ b.pending = a.pending
  <2>1. S = a.acks \/ S = a.acks \cup {c} BY <1>15
  <2> QED BY <1>11, <1>14, <1>17, <2>1, RecordNoted
<1>19. c \notin DOMAIN b.pending BY <1>7, <1>11, <1>18 DEF Tended
<1>20. c \notin DOMAIN W BY <1>5, <1>9
<1>21. Known(g, {c}, plan) BY <1>7, <1>11 DEF Tended, Known
<1>22. Tended(b, g, W, accepted, plan) BY <1>10, <1>18, <1>19, <1>20, <1>21, NotesTended
<1>23. b.acks \subseteq actor.acks \cup accepted BY <1>1, <1>11, <1>15, <1>18
<1> QED BY <1>1, <1>2, <1>3, <1>4, <1>5, <1>6, <1>9, <1>18, <1>22, <1>23

LEMMA joinedIs ==
    ASSUME Attended, joined
    PROVE  /\ Attended' /\ (\E R : Loses(g, g', R)) /\ SameVerdict(actor, actor')
           /\ \E c \in DOMAIN watch :
                 /\ watch[c] \in {"clean", "dirty"} /\ DOMAIN watch' = DOMAIN watch \ {c}
                 /\ \A d \in DOMAIN watch' : watch'[d] = watch[d]
<1>1. PICK c \in DOMAIN watch :
         /\ watch[c] \in {"clean", "dirty"}
         /\ watch' = Drop(watch, {c})
         /\ IF GraphHere THEN Install(reconcile([a |-> NoteExit(c, watch[c]), g |-> g]))
            ELSE actor' = NoteExit(c, watch[c]) /\ UNCHANGED g
  BY DEF joined
<1>2. UNCHANGED <<plan, now, accepted, worker>> BY DEF joined, env, history
<1>3. PICK e \in {"clean", "dirty"} : e = watch[c] BY <1>1
<1>4. PICK b : b = NoteExit(c, e) OBVIOUS
<1>5. PICK W : W = Drop(watch, {c}) OBVIOUS
<1>6. /\ Tended(b, g, W, accepted, plan) /\ SameVerdict(actor, b)
      /\ W \in Partial(CallIds, Watchers) /\ DOMAIN W = DOMAIN watch \ {c}
      /\ \A d \in DOMAIN W : W[d] = watch[d]
      /\ b.acks \subseteq actor.acks \cup accepted
  BY <1>4, <1>5, NoteExitIs
<1>7. watch' = W BY <1>1, <1>5
<1>8. CASE GraphHere
  <2>1. Install(reconcile(Beside(b))) BY <1>1, <1>3, <1>4, <1>8 DEF Beside
  <2>2. Attended' /\ (\E R : Loses(g, g', R)) /\ SameVerdict(actor, actor')
    BY <1>2, <1>6, <1>7, <1>8, <2>1, ReconcileKeeps
  <2> QED BY <1>1, <1>6, <1>7, <2>2
<1>9. CASE ~GraphHere
  <2>1. actor' = b /\ g' = g BY <1>1, <1>3, <1>4, <1>9
  <2>2. Loses(g, g', {}) BY <2>1, LosesRefl
  <2>3. Decision(b, g, worker.st)
    <3>1. Decision(actor, g, worker.st) BY DEF Attended
    <3> QED BY <1>6, <3>1, DecisionSame
  <2>4. worker.st = "done" => Sensible(worker.update, b, g, accepted)
    BY <1>6, SensibleStays DEF Attended
  <2>5. Attended' BY <1>2, <1>6, <1>7, <2>1, <2>3, <2>4 DEF Attended
  <2> QED BY <1>1, <1>6, <1>7, <2>1, <2>2, <2>5
<1> QED BY <1>8, <1>9

\* a watcher moves
LEMMA WatcherKeeps ==
    ASSUME Attended, NEW c \in DOMAIN watch, NEW v \in Watchers, watch' = [watch EXCEPT ![c] = v],
           UNCHANGED <<plan, now, g, actor, accepted, worker>>
    PROVE  Attended'
<1>1. DOMAIN watch' = DOMAIN watch OBVIOUS
<1>2. watch' \in Partial(CallIds, Watchers)
  <2>1. PICK D : D = CallIds OBVIOUS
  <2>2. PICK Q : Q = Watchers OBVIOUS
  <2>3. DOMAIN watch \subseteq D /\ watch \in [DOMAIN watch -> Q]
    BY <2>1, <2>2, PartialFn DEF Attended
  <2>4. watch' \in [DOMAIN watch -> Q] BY <2>2, <2>3
  <2>5. watch' \in Partial(D, Q) BY <1>1, <2>3, <2>4, PartialFn
  <2> QED BY <2>1, <2>2, <2>5
<1>3. Tended(actor, g, watch', accepted, plan)
  <2>1. PICK V : V = watch' OBVIOUS
  <2>2. DOMAIN V \subseteq DOMAIN watch BY <1>1, <2>1
  <2>3. Tended(actor, g, V, accepted, plan) BY <2>2, WatchTended DEF Attended
  <2> QED BY <2>1, <2>3
<1> QED BY <1>2, <1>3 DEF Attended

LEMMA TickKeeps == ASSUME Attended, Tick PROVE Attended'
<1>1. UNCHANGED <<plan, g, actor, watch, accepted, worker>> /\ now' = now + 1 /\ now < plan.deadline
  BY DEF Tick, history
<1>2. now' \in 0..plan'.deadline
  <2>1. plan.deadline \in Nat BY PlanTypes DEF Attended
  <2> QED BY <1>1, <2>1 DEF Attended
<1> QED BY <1>1, <1>2 DEF Attended

-----------------------------------------------------------------------------
(* Lines of ancestors in a history.                                         *)

LEMMA HistoryLine ==
    ASSUME NEW B, History(B), NEW i \in DOMAIN B \cup {ROOT}
    PROVE  Line(B, i) = IF i = ROOT THEN {ROOT} ELSE {i} \cup Line(B, B[i].frame)
<1>1. DOMAIN B \subseteq Nat /\ \A k \in DOMAIN B : B[k].frame \in DOMAIN B \cup {ROOT}
  BY DEF History
<1> QED BY <1>1, LineStep

\* A set closed under parents holds the lines of its members.
LEMMA LineInside ==
    ASSUME NEW B, History(B), NEW S, S \subseteq DOMAIN B \cup {ROOT}, Climbs(B, S), NEW i \in S
    PROVE  Line(B, i) \subseteq S
<1>1. S \subseteq Nat BY DEF History, ROOT
<1>2. PICK T : T = {k \in S : ~(Line(B, k) \subseteq S)} OBVIOUS
<1>3. SUFFICES ASSUME T # {} PROVE FALSE BY <1>2
<1>4. PICK m \in T : \A k \in T : m <= k
  <2>1. T \subseteq Nat /\ T # {} BY <1>1, <1>2, <1>3
  <2> QED BY <2>1, LeastNat
<1>5. m \in S /\ ~(Line(B, m) \subseteq S) /\ m \in DOMAIN B \cup {ROOT} BY <1>2, <1>4
<1>6. Line(B, m) = IF m = ROOT THEN {ROOT} ELSE {m} \cup Line(B, B[m].frame)
  BY <1>5, HistoryLine
<1>7. m # ROOT BY <1>5, <1>6
<1>8. PICK q : q = B[m].frame OBVIOUS
<1>9. q \in S BY <1>5, <1>7, <1>8 DEF Climbs
<1>10. q < m BY <1>5, <1>7, <1>8 DEF History
<1>11. q \notin T
  <2>1. q \in Nat /\ m \in Nat BY <1>1, <1>5, <1>9
  <2>2. ~(m <= q) BY <1>10, <2>1
  <2> QED BY <1>4, <2>2
<1>12. Line(B, q) \subseteq S BY <1>2, <1>9, <1>11
<1> QED BY <1>5, <1>6, <1>7, <1>8, <1>12

\* A new child leaves the lines of the others as they are.
LEMMA LineExtends ==
    ASSUME NEW B, History(B), NEW n \in Nat \ {ROOT}, n \notin DOMAIN B, NEW q,
           q.frame \in DOMAIN B \cup {ROOT}, q.frame < n, NEW i \in DOMAIN B \cup {ROOT}
    PROVE  Line(Put(B, n, q), i) = Line(B, i)
<1>1. PICK E : E = Put(B, n, q) OBVIOUS
<1>2. DOMAIN E = DOMAIN B \cup {n} /\ E[n] = q /\ \A k \in DOMAIN B : E[k] = B[k]
  BY <1>1 DEF Put
<1>3. History(E) BY <1>2 DEF History
<1>4. PICK S : S = DOMAIN B \cup {ROOT} OBVIOUS
<1>5. S \subseteq Nat BY <1>4 DEF History, ROOT
<1>6. PICK T : T = {k \in S : Line(E, k) # Line(B, k)} OBVIOUS
<1>7. SUFFICES ASSUME T # {} PROVE FALSE BY <1>1, <1>4, <1>6
<1>8. PICK m \in T : \A k \in T : m <= k
  <2>1. T \subseteq Nat /\ T # {} BY <1>5, <1>6, <1>7
  <2> QED BY <2>1, LeastNat
<1>9. m \in S /\ Line(E, m) # Line(B, m) BY <1>6, <1>8
<1>10. m \in DOMAIN E \cup {ROOT} BY <1>2, <1>4, <1>9
<1>11. Line(E, m) = IF m = ROOT THEN {ROOT} ELSE {m} \cup Line(E, E[m].frame)
  BY <1>3, <1>10, HistoryLine
<1>12. Line(B, m) = IF m = ROOT THEN {ROOT} ELSE {m} \cup Line(B, B[m].frame)
  BY <1>4, <1>9, HistoryLine
<1>13. m # ROOT BY <1>9, <1>11, <1>12
<1>14. m \in DOMAIN B BY <1>4, <1>9, <1>13
<1>15. PICK k : k = B[m].frame OBVIOUS
<1>16. k \in S /\ k < m BY <1>4, <1>14, <1>15 DEF History
<1>17. Line(E, k) = Line(B, k)
  <2>1. k \in Nat /\ m \in Nat BY <1>5, <1>9, <1>16
  <2>2. ~(m <= k) BY <1>16, <2>1
  <2> QED BY <1>6, <1>8, <1>16, <2>2
<1> QED BY <1>2, <1>9, <1>11, <1>12, <1>14, <1>15, <1>17

LEMMA RecordedHistory ==
    ASSUME NEW p \in Plans, NEW G, Sound(G, p), NEW B, Recorded(G, B)
    PROVE  /\ History(B) /\ Frames(G) \subseteq DOMAIN B \cup {ROOT}
           /\ \A i \in Frames(G) \ {ROOT} :
                 B[i] = G.frames[i].parent /\ B[i].frame \in Frames(G) /\ i \in DOMAIN B
<1>1. G.next \in Nat /\ Core(G, p.budget) /\ Frames(G) \subseteq Nat BY SoundTypes
<1>2. DOMAIN B = 1..(G.next - 1) BY DEF Recorded
<1>3. ASSUME NEW i \in DOMAIN B
      PROVE  i \in Nat /\ i # ROOT /\ B[i].frame \in DOMAIN B \cup {ROOT} /\ B[i].frame < i
  <2>1. i \in Nat /\ i # ROOT /\ i < G.next BY <1>1, <1>2 DEF ROOT
  <2>2. PICK k : k = B[i].frame OBVIOUS
  <2>3. k \in Nat /\ k < i BY <2>2 DEF Recorded
  <2>4. k = 0 \/ k \in 1..(G.next - 1) BY <1>1, <2>1, <2>3
  <2> QED BY <1>2, <2>1, <2>2, <2>3, <2>4 DEF ROOT
<1>4. \A i \in Frames(G) : i < G.next BY <1>1 DEF Core, Tree
<1>5. Frames(G) \subseteq DOMAIN B \cup {ROOT} BY <1>1, <1>2, <1>4 DEF ROOT
<1>6. \A i \in Frames(G) \ {ROOT} : G.frames[i].parent.frame \in Frames(G) BY <1>1 DEF Core, Tree
<1> QED BY <1>3, <1>5, <1>6 DEF History, Recorded

\* A registered frame's ancestors are registered.
LEMMA LineIn ==
    ASSUME NEW p \in Plans, NEW G, Sound(G, p), NEW B, Recorded(G, B), NEW i \in Frames(G)
    PROVE  Line(B, i) \subseteq Frames(G)
<1>1. /\ History(B) /\ Frames(G) \subseteq DOMAIN B \cup {ROOT}
      /\ \A k \in Frames(G) \ {ROOT} : B[k].frame \in Frames(G)
  BY RecordedHistory
<1>2. Climbs(B, Frames(G)) BY <1>1 DEF Climbs
<1> QED BY <1>1, <1>2, LineInside

\* A frame that has not told its parent has ancestors that have not told theirs.
LEMMA LineUntold ==
    ASSUME NEW p \in Plans, NEW G, Sound(G, p), NEW B, Recorded(G, B), NEW i \in Frames(G),
           G.frames[i].notification # "Emitted"
    PROVE  \A k \in Line(B, i) : k \in Frames(G) /\ G.frames[k].notification # "Emitted"
<1>1. /\ History(B) /\ Frames(G) \subseteq DOMAIN B \cup {ROOT}
      /\ \A k \in Frames(G) \ {ROOT} :
            B[k] = G.frames[k].parent /\ B[k].frame \in Frames(G)
  BY RecordedHistory
<1>2. PICK S : S = {k \in Frames(G) : G.frames[k].notification # "Emitted"} OBVIOUS
<1>3. ASSUME NEW k \in S \ {ROOT} PROVE B[k].frame \in S
  <2>1. k \in Frames(G) \ {ROOT} /\ G.frames[k].notification # "Emitted" BY <1>2
  <2>2. B[k].frame = G.frames[k].parent.frame /\ B[k].frame \in Frames(G) BY <1>1, <2>1
  <2>3. G.frames[G.frames[k].parent.frame].notification # "Emitted" BY <2>1 DEF Sound, Nested
  <2> QED BY <1>2, <2>2, <2>3
<1>4. Climbs(B, S) BY <1>3 DEF Climbs
<1>5. S \subseteq DOMAIN B \cup {ROOT} /\ i \in S BY <1>1, <1>2
<1>6. Line(B, i) \subseteq S BY <1>1, <1>4, <1>5, LineInside
<1> QED BY <1>2, <1>6

-----------------------------------------------------------------------------
(* The histories follow the scheduler.                                      *)

LEMMA HistoryLoses ==
    ASSUME NEW G, NEW H, NEW R, Loses(G, H, R), NEW B, NEW T, Recorded(G, B), Reports(G, B, T)
    PROVE  Recorded(H, B) /\ Reports(H, B, T)
<1>1. H.next = G.next /\ Frames(H) \subseteq Frames(G) BY DEF Loses
<1>2. \A i \in Frames(H) : Kept(G.frames[i], H.frames[i]) BY DEF Loses
<1>3. Recorded(H, B)
  <2>1. \A i \in Frames(H) \ {ROOT} : B[i] = H.frames[i].parent
    BY <1>1, <1>2 DEF Recorded, Kept
  <2> QED BY <1>1, <2>1 DEF Recorded
<1>4. ASSUME NEW i \in DOMAIN B
      PROVE  (i \notin Frames(H) \/ H.frames[i].notification = "Emitted") <=>
             (i \notin Frames(G) \/ G.frames[i].notification = "Emitted")
  <2>1. i # ROOT
    <3>1. i \in 1..(G.next - 1) BY DEF Recorded
    <3> QED BY <3>1 DEF ROOT
  <2>2. CASE i \in Frames(G) BY <1>1, <1>2, <2>1, <2>2 DEF Kept, Loses, Quiet
  <2>3. CASE i \notin Frames(G) BY <1>1, <2>3
  <2> QED BY <2>2, <2>3
<1>5. \A i : i \in Range(T) <=>
               i \in DOMAIN B /\ (i \notin Frames(H) \/ H.frames[i].notification = "Emitted")
  BY <1>4 DEF Reports
<1> QED BY <1>3, <1>5 DEF Reports

\* what is recorded of an update u, after which the scheduler is H
NowBorn(B, H, u) == IF u.k = "ChildStarted" THEN Put(B, u.child, H.frames[u.child].parent) ELSE B
NowTold(T, u) == IF u.k = "ChildFinished" THEN Append(T, u.child) ELSE T

LEMMA RecordedFine ==
    ASSUME NEW p \in Plans, NEW G, Sound(G, p), NEW r, Fine(G, r, p), NEW B, Recorded(G, B)
    PROVE  /\ Recorded(r.g, NowBorn(B, r.g, r.update))
           /\ \A i \in DOMAIN B \cup {ROOT} : Line(NowBorn(B, r.g, r.update), i) = Line(B, i)
<1>1. PICK H : H = r.g OBVIOUS
<1>2. PICK u : u = r.update OBVIOUS
<1>3. Sound(H, p) /\ Follows(G, H, u) BY <1>1, <1>2 DEF Fine
<1>4. G.next \in Nat /\ Frames(G) \subseteq Nat /\ \A i \in Frames(G) : i < G.next
  BY SoundTypes
<1>5. PICK E : E = NowBorn(B, H, u) OBVIOUS
<1>6. DOMAIN B = 1..(G.next - 1) BY DEF Recorded
<1>7. /\ History(B) /\ Frames(G) \subseteq DOMAIN B \cup {ROOT}
      /\ \A i \in Frames(G) \ {ROOT} : B[i] = G.frames[i].parent /\ i \in DOMAIN B
  BY RecordedHistory
<1>8. \A i \in Frames(G) \cap Frames(H) : H.frames[i].parent = G.frames[i].parent
  BY <1>3 DEF Follows, Grows
<1>9. CASE u.k = "ChildStarted"
  <2>1. PICK n : n = G.next OBVIOUS
  <2>2. PICK q : q = H.frames[n].parent OBVIOUS
  <2>3. u.child \in Opened(u) BY <1>9 DEF Opened
  <2>4. u.child = n /\ n \in Frames(H) /\ q.frame \in Frames(G) BY <1>3, <2>1, <2>2, <2>3 DEF Follows
  <2>5. E = Put(B, n, q) BY <1>5, <1>9, <2>2, <2>4 DEF NowBorn
  <2>6. DOMAIN E = DOMAIN B \cup {n} /\ E[n] = q /\ \A k \in DOMAIN B : k # n => E[k] = B[k]
    BY <2>5 DEF Put
  <2>7. n \in Nat /\ n # ROOT
    <3>1. H.frames[n].parent.frame < n
      <4>1. q.frame < n BY <1>4, <2>1, <2>4
      <4> QED BY <2>2, <4>1
    <3>2. q.frame \in Nat BY <1>4, <2>4
    <3> QED BY <1>4, <2>1, <2>2, <3>1, <3>2 DEF ROOT
  <2>8. n \notin DOMAIN B BY <1>4, <1>6, <2>1
  <2>9. H.next = n + 1 BY <1>3, <1>9, <2>1 DEF Follows
  <2>10. DOMAIN E = 1..(H.next - 1) BY <1>4, <1>6, <2>1, <2>6, <2>7, <2>9 DEF ROOT
  <2>11. q.frame \in Nat /\ q.frame < n BY <1>4, <2>1, <2>4
  <2>12. \A i \in DOMAIN E : E[i].frame \in Nat /\ E[i].frame < i
    BY <2>6, <2>8, <2>11 DEF Recorded
  <2>13. ASSUME NEW i \in Frames(H) \ {ROOT} PROVE E[i] = H.frames[i].parent
    <3>1. CASE i = n BY <2>2, <2>6, <3>1
    <3>2. CASE i # n
      <4>1. i \in Frames(G)
        <5>1. \A k \in Opened(u) : k = n BY <1>3, <2>1 DEF Follows
        <5>2. i \in Frames(G) \/ i \in Opened(u) BY <1>3 DEF Follows
        <5> QED BY <3>2, <5>1, <5>2
      <4>2. E[i] = B[i] /\ B[i] = G.frames[i].parent BY <1>7, <2>6, <3>2, <4>1
      <4> QED BY <1>8, <4>1, <4>2
    <3> QED BY <3>1, <3>2
  <2>14. Recorded(H, E) BY <2>10, <2>12, <2>13 DEF Recorded
  <2>15. q.frame \in DOMAIN B \cup {ROOT} BY <1>7, <2>4
  <2>16. \A i \in DOMAIN B \cup {ROOT} : Line(Put(B, n, q), i) = Line(B, i)
    BY <1>7, <2>7, <2>8, <2>11, <2>15, LineExtends
  <2> QED BY <1>1, <1>2, <1>5, <2>5, <2>14, <2>16
<1>10. CASE u.k # "ChildStarted"
  <2>1. E = B /\ H.next = G.next /\ Opened(u) = {} BY <1>3, <1>5, <1>10 DEF NowBorn, Follows, Opened
  <2>2. Frames(H) \subseteq Frames(G) BY <1>3, <2>1 DEF Follows
  <2>3. \A i \in Frames(H) \ {ROOT} : B[i] = H.frames[i].parent BY <1>7, <1>8, <2>2
  <2>4. Recorded(H, B) BY <2>1, <2>3 DEF Recorded
  <2> QED BY <1>1, <1>2, <1>5, <2>1, <2>4
<1> QED BY <1>9, <1>10

LEMMA AppendIs ==
    ASSUME NEW T \in Seq(Nat), NEW c \in Nat
    PROVE  LET V == Append(T, c)
           IN /\ V \in Seq(Nat) /\ DOMAIN T = 1..Len(T) /\ DOMAIN V = 1..(Len(T) + 1)
              /\ Len(T) \in Nat /\ V[Len(T) + 1] = c /\ \A i \in DOMAIN T : V[i] = T[i]
              /\ \A i : i \in Range(V) <=> i \in Range(T) \/ i = c
              /\ IsInjective(T) /\ c \notin Range(T) => IsInjective(V)
<1>1. PICK V : V = Append(T, c) OBVIOUS
<1>2. PICK n : n = Len(T) OBVIOUS
<1>3. /\ V \in Seq(Nat) /\ DOMAIN T = 1..n /\ DOMAIN V = 1..(n + 1)
      /\ n \in Nat /\ V[n + 1] = c /\ \A i \in DOMAIN T : V[i] = T[i]
  BY <1>1, <1>2
<1>4. ASSUME NEW i PROVE i \in Range(V) <=> i \in Range(T) \/ i = c
  <2>1. i \in Range(V) <=> \E k \in DOMAIN V : V[k] = i BY DEF Range
  <2>2. i \in Range(T) <=> \E k \in DOMAIN T : T[k] = i BY DEF Range
  <2>3. ASSUME NEW k \in DOMAIN V PROVE k \in DOMAIN T \/ k = n + 1 BY <1>3
  <2>4. \A k \in DOMAIN T : k \in DOMAIN V BY <1>3
  <2>5. n + 1 \in DOMAIN V BY <1>3
  <2> QED BY <1>3, <2>1, <2>2, <2>3, <2>4, <2>5
<1>5. ASSUME IsInjective(T), c \notin Range(T) PROVE IsInjective(V)
  <2>1. ASSUME NEW i \in DOMAIN V, NEW k \in DOMAIN V, V[i] = V[k] PROVE i = k
    <3>1. \A m \in DOMAIN T : T[m] # c BY <1>5 DEF Range
    <3>2. (i \in DOMAIN T \/ i = n + 1) /\ (k \in DOMAIN T \/ k = n + 1) BY <1>3
    <3>3. CASE i \in DOMAIN T /\ k \in DOMAIN T BY <1>3, <1>5, <2>1, <3>3 DEF IsInjective
    <3>4. CASE i \in DOMAIN T /\ k = n + 1 BY <1>3, <2>1, <3>1, <3>4
    <3>5. CASE k \in DOMAIN T /\ i = n + 1 BY <1>3, <2>1, <3>1, <3>5
    <3> QED BY <3>2, <3>3, <3>4, <3>5
  <2> QED BY <2>1 DEF IsInjective
<1> QED BY <1>1, <1>2, <1>3, <1>4, <1>5

LEMMA ReportsFine ==
    ASSUME NEW p \in Plans, NEW G, Sound(G, p), NEW r, Fine(G, r, p), NEW B, Recorded(G, B),
           NEW T, Reports(G, B, T)
    PROVE  Reports(r.g, NowBorn(B, r.g, r.update), NowTold(T, r.update))
<1>1. PICK H : H = r.g OBVIOUS
<1>2. PICK u : u = r.update OBVIOUS
<1>3. Sound(H, p) /\ Follows(G, H, u) BY <1>1, <1>2 DEF Fine
<1>4. PICK E : E = NowBorn(B, H, u) OBVIOUS
<1>5. PICK V : V = NowTold(T, u) OBVIOUS
<1>6. Recorded(H, E) /\ \A i \in DOMAIN B \cup {ROOT} : Line(E, i) = Line(B, i)
  BY <1>1, <1>2, <1>4, RecordedFine
<1>7. /\ History(B) /\ Frames(G) \subseteq DOMAIN B \cup {ROOT}
      /\ \A i \in Frames(G) \ {ROOT} : i \in DOMAIN B
  BY RecordedHistory
<1>8. /\ T \in Seq(Nat) /\ IsInjective(T)
      /\ \A i : i \in Range(T) <=>
                 i \in DOMAIN B /\ (i \notin Frames(G) \/ G.frames[i].notification = "Emitted")
      /\ \A i, k \in DOMAIN T : T[k] \in Line(B, T[i]) => i <= k
  BY DEF Reports
<1>9. \A i \in DOMAIN B : i \in Nat /\ i # ROOT BY <1>7 DEF History
<1>10. G.next \in Nat /\ DOMAIN B = 1..(G.next - 1) BY SoundTypes DEF Recorded
<1>11. \A i \in DOMAIN B : i # G.next BY <1>10
<1>12. \A i \in Opened(u) : i = G.next /\ i \in Frames(H) /\ H.frames[i].notification = "Waiting"
  BY <1>3 DEF Follows
<1>13. \A i : i \in DOMAIN E <=> i \in DOMAIN B \/ i \in Opened(u)
  <2>1. CASE u.k = "ChildStarted" BY <1>4, <2>1 DEF NowBorn, Put, Opened
  <2>2. CASE u.k # "ChildStarted" BY <1>4, <2>2 DEF NowBorn, Opened
  <2> QED BY <2>1, <2>2
<1>14. ASSUME NEW i \in DOMAIN B
       PROVE  (i \notin Frames(H) \/ H.frames[i].notification = "Emitted") <=>
              (i \notin Frames(G) \/ G.frames[i].notification = "Emitted" \/ i \in Reported(u))
  <2>1. i # ROOT /\ i \notin Opened(u) BY <1>9, <1>11, <1>12
  <2>2. i \in Frames(H) => i \in Frames(G) BY <1>3, <2>1 DEF Follows
  <2>3. CASE i \notin Frames(G)
    <3>1. i \notin Frames(H) BY <2>2, <2>3
    <3> QED BY <2>3, <3>1
  <2>4. CASE i \in Frames(G)
    <3>1. i \notin Frames(H) \/ H.frames[i].notification = "Emitted" =>
             G.frames[i].notification = "Emitted" \/ i \in Reported(u)
      BY <1>3, <2>1, <2>4 DEF Follows
    <3>2. ASSUME G.frames[i].notification = "Emitted", i \in Frames(H)
          PROVE  H.frames[i].notification = "Emitted"
      BY <1>3, <2>4, <3>2 DEF Follows, Grows
    <3>3. ASSUME i \in Reported(u), i \in Frames(H) PROVE H.frames[i].notification = "Emitted"
      BY <1>3, <3>3 DEF Follows
    <3> QED BY <2>4, <3>1, <3>2, <3>3
  <2> QED BY <2>3, <2>4
<1>15. \A i \in Reported(u) : i \in Frames(G) \ {ROOT} /\ G.frames[i].notification # "Emitted"
  BY <1>3 DEF Follows
<1>16. \A i : i \in Range(V) <=> i \in Range(T) \/ i \in Reported(u)
  <2>1. CASE u.k = "ChildFinished"
    <3>1. PICK c : c = u.child OBVIOUS
    <3>2. V = Append(T, c) /\ Reported(u) = {c} BY <1>5, <2>1, <3>1 DEF NowTold, Reported
    <3>3. c \in Nat BY <1>7, <1>9, <1>15, <3>2
    <3> QED BY <1>8, <3>2, <3>3, AppendIs
  <2>2. CASE u.k # "ChildFinished" BY <1>5, <2>2 DEF NowTold, Reported
  <2> QED BY <2>1, <2>2
<1>17. ASSUME NEW i
       PROVE  i \in Range(V) <=>
                 i \in DOMAIN E /\ (i \notin Frames(H) \/ H.frames[i].notification = "Emitted")
  <2>1. CASE i \in DOMAIN B
    <3>1. i \in DOMAIN E BY <1>13, <2>1
    <3>2. i \in Range(V) <=> \/ i \notin Frames(G) \/ G.frames[i].notification = "Emitted"
                             \/ i \in Reported(u)
      BY <1>8, <1>16, <2>1
    <3> QED BY <1>14, <2>1, <3>1, <3>2
  <2>2. CASE i \in Opened(u) /\ i \notin DOMAIN B
    <3>1. i \notin Range(T) BY <1>8, <2>2
    <3>2. i \notin Reported(u) BY <1>7, <1>15, <2>2
    <3>3. i \in Frames(H) /\ H.frames[i].notification # "Emitted" BY <1>12, <2>2
    <3> QED BY <1>16, <3>1, <3>2, <3>3
  <2>3. CASE i \notin DOMAIN B /\ i \notin Opened(u)
    <3>1. i \notin DOMAIN E /\ i \notin Range(T) BY <1>8, <1>13, <2>3
    <3>2. i \notin Reported(u) BY <1>7, <1>15, <2>3
    <3> QED BY <1>16, <3>1, <3>2
  <2> QED BY <2>1, <2>2, <2>3
<1>18. \A i \in Range(T) : Line(E, i) = Line(B, i) BY <1>6, <1>8
<1>19. V \in Seq(Nat) /\ IsInjective(V) /\ \A i, k \in DOMAIN V : V[k] \in Line(E, V[i]) => i <= k
  <2>1. CASE u.k # "ChildFinished"
    <3>1. V = T BY <1>5, <2>1 DEF NowTold
    <3>2. \A i \in DOMAIN T : T[i] \in Range(T) BY DEF Range
    <3> QED BY <1>8, <1>18, <3>1, <3>2
  <2>2. CASE u.k = "ChildFinished"
    <3>1. PICK c : c = u.child OBVIOUS
    <3>2. V = Append(T, c) /\ c \in Reported(u) BY <1>5, <2>2, <3>1 DEF NowTold, Reported
    <3>3. c \in Frames(G) /\ c \in DOMAIN B /\ G.frames[c].notification # "Emitted" /\ c \in Nat
      BY <1>7, <1>9, <1>15, <3>2
    <3>4. c \notin Range(T) BY <1>8, <3>3
    <3>5. PICK n : n = Len(T) OBVIOUS
    <3>6. /\ V \in Seq(Nat) /\ DOMAIN T = 1..n /\ DOMAIN V = 1..(n + 1)
          /\ n \in Nat /\ V[n + 1] = c /\ \A i \in DOMAIN T : V[i] = T[i]
          /\ IsInjective(V)
      BY <1>8, <3>2, <3>3, <3>4, <3>5, AppendIs
    <3>7. \A k \in Line(B, c) : k \in Frames(G) /\ G.frames[k].notification # "Emitted"
      BY <3>3, LineUntold
    <3>8. ASSUME NEW i \in DOMAIN V, NEW k \in DOMAIN V, V[k] \in Line(E, V[i]) PROVE i <= k
      <4>1. i \in 1..(n + 1) /\ k \in 1..(n + 1) BY <3>6
      <4>2. CASE k = n + 1 BY <3>6, <4>1, <4>2
      <4>3. CASE k \in DOMAIN T /\ i \in DOMAIN T
        <5>1. V[k] = T[k] /\ V[i] = T[i] /\ T[i] \in Range(T) BY <3>6, <4>3 DEF Range
        <5>2. T[k] \in Line(B, T[i]) BY <1>18, <3>8, <5>1
        <5> QED BY <1>8, <4>3, <5>2
      <4>4. CASE k \in DOMAIN T /\ i = n + 1
        <5>1. V[k] = T[k] /\ T[k] \in Range(T) /\ V[i] = c BY <3>6, <4>4 DEF Range
        <5>2. T[k] \in Line(B, c) BY <1>6, <3>3, <3>8, <5>1
        <5>3. T[k] \in Frames(G) /\ G.frames[T[k]].notification # "Emitted" BY <3>7, <5>2
        <5> QED BY <1>8, <5>1, <5>3
      <4> QED BY <3>6, <4>1, <4>2, <4>3, <4>4
    <3> QED BY <3>6, <3>8
  <2> QED BY <2>1, <2>2
<1> QED BY <1>1, <1>2, <1>4, <1>5, <1>17, <1>19 DEF Reports

-----------------------------------------------------------------------------
(* Steps.                                                                   *)

Traced == Recorded(g, born) /\ Reports(g, born, told)

\* how a step moves the scheduler, and what is written down of it
Shrinks == (\E R : Loses(g, g', R)) /\ UNCHANGED <<born, told>>
Advances ==
    \E r : /\ Fine(g, r, plan) /\ Record(r.update)
           /\ \/ g' = r.g
              \/ g.outcome # None /\ \E R : Loses(r.g, g', R)

LEMMA StillShrinks == ASSUME Attended, UNCHANGED <<g, born, told>> PROVE Shrinks
<1>1. Loses(g, g, {}) BY LosesRefl
<1>2. Loses(g, g', {}) BY <1>1
<1> QED BY <1>2 DEF Shrinks

LEMMA WatcherMoves ==
    ASSUME Attended, WatcherResult \/ WatcherCancelled \/ WatcherExits
    PROVE  \E c \in DOMAIN watch :
              /\ \/ watch[c] = "running" /\ watch' = [watch EXCEPT ![c] = "closing"]
                 \/ \E v \in {"clean", "dirty"} : watch[c] = "closing" /\ watch' = [watch EXCEPT ![c] = v]
              /\ UNCHANGED <<plan, now, g, actor, accepted, worker, born, told>>
<1>1. CASE WatcherResult BY <1>1 DEF WatcherResult, env, history
<1>2. CASE WatcherCancelled BY <1>2 DEF WatcherCancelled, env, history
<1>3. CASE WatcherExits
  <2>1. PICK c \in DOMAIN watch, clean \in {TRUE} \cup (IF May("dirty") THEN {FALSE} ELSE {}) :
          /\ watch[c] = "closing"
          /\ watch' = [watch EXCEPT ![c] = IF clean THEN "clean" ELSE "dirty"]
          /\ UNCHANGED <<g, worker, actor, mailbox, env, history>>
    BY <1>3 DEF WatcherExits
  <2>2. PICK v : v = IF clean THEN "clean" ELSE "dirty" OBVIOUS
  <2>3. v \in {"clean", "dirty"} /\ watch' = [watch EXCEPT ![c] = v] BY <2>1, <2>2
  <2> QED BY <2>1, <2>3 DEF env, history
<1> QED BY <1>1, <1>2, <1>3

LEMMA StepAttends ==
    ASSUME Attended, [Next]_vars
    PROVE  Attended' /\ (Shrinks \/ Advances)
<1>1. CASE control
  <2>1. UNCHANGED <<born, told>> BY <1>1 DEF control, history
  <2> QED BY <1>1, <2>1, controlIs DEF Shrinks
<1>2. CASE StartAdvance
  <2>1. UNCHANGED <<g, born, told>> BY <1>2 DEF StartAdvance, history
  <2> QED BY <1>2, <2>1, StartAdvanceKeeps, StillShrinks
<1>3. CASE Lend
  <2>1. UNCHANGED <<g, born, told>> BY <1>3 DEF Lend, history
  <2> QED BY <1>3, <2>1, LendKeeps, StillShrinks
<1>4. CASE evaluated
  <2>1. UNCHANGED <<born, told>> BY <1>4 DEF evaluated, history
  <2> QED BY <1>4, <2>1, evaluatedIs DEF Shrinks
<1>5. CASE Drain BY <1>5, DrainIs DEF Advances
<1>6. CASE dispatch
  <2>1. UNCHANGED <<born, told>> BY <1>6 DEF dispatch
  <2> QED BY <1>6, <2>1, dispatchIs DEF Shrinks
<1>7. CASE completed
  <2>1. UNCHANGED <<born, told>> BY <1>7 DEF completed, history
  <2> QED BY <1>7, <2>1, completedIs DEF Shrinks
<1>8. CASE expired
  <2>1. UNCHANGED <<g, born, told>> BY <1>8 DEF expired, history
  <2> QED BY <1>8, <2>1, expiredIs, StillShrinks
<1>9. CASE CapacityWake
  <2>1. UNCHANGED <<g, born, told>> BY <1>9 DEF CapacityWake, history
  <2> QED BY <1>9, <2>1, CapacityWakeIs, StillShrinks
<1>10. CASE joined
  <2>1. UNCHANGED <<born, told>> BY <1>10 DEF joined, history
  <2> QED BY <1>10, <2>1, joinedIs DEF Shrinks
<1>11. CASE finish
  <2>1. UNCHANGED <<g, born, told>> BY <1>11 DEF finish, history
  <2> QED BY <1>11, <2>1, finishIs, StillShrinks
<1>12. CASE WorkerRuns BY <1>12, WorkerRunsIs DEF Advances
<1>13. CASE WatcherResult \/ WatcherCancelled \/ WatcherExits
  <2>1. PICK c \in DOMAIN watch :
          /\ \/ watch[c] = "running" /\ watch' = [watch EXCEPT ![c] = "closing"]
             \/ \E v \in {"clean", "dirty"} : watch[c] = "closing" /\ watch' = [watch EXCEPT ![c] = v]
          /\ UNCHANGED <<plan, now, g, actor, accepted, worker, born, told>>
    BY <1>13, WatcherMoves
  <2>2. PICK v \in Watchers : watch' = [watch EXCEPT ![c] = v] BY <2>1 DEF Watchers
  <2> QED BY <2>1, <2>2, WatcherKeeps, StillShrinks
<1>14. CASE Tick
  <2>1. UNCHANGED <<g, born, told>> BY <1>14 DEF Tick, history
  <2> QED BY <1>14, <2>1, TickKeeps, StillShrinks
<1>15. CASE StopExecution
  <2>1. UNCHANGED <<plan, now, g, actor, watch, accepted, worker, born, told>>
    BY <1>15 DEF StopExecution, history
  <2>2. Attended' BY <2>1 DEF Attended
  <2> QED BY <2>1, <2>2, StillShrinks
<1>16. CASE OthersMove
  <2>1. UNCHANGED <<plan, now, g, actor, watch, accepted, worker, born, told>>
    BY <1>16 DEF OthersMove, history
  <2>2. Attended' BY <2>1 DEF Attended
  <2> QED BY <2>1, <2>2, StillShrinks
<1>17. CASE UNCHANGED vars
  <2>1. UNCHANGED <<plan, now, g, actor, watch, accepted, worker, born, told>>
    BY <1>17 DEF vars
  <2>2. Attended' BY <2>1 DEF Attended
  <2> QED BY <2>1, <2>2, StillShrinks
<1> QED BY <1>1, <1>2, <1>3, <1>4, <1>5, <1>6, <1>7, <1>8, <1>9, <1>10, <1>11, <1>12, <1>13,
           <1>14, <1>15, <1>16, <1>17 DEF Next, ActorStep

\* Once the scheduler has an outcome, no child is started.
LEMMA NoneOpened ==
    ASSUME NEW p \in Plans, NEW G, Sound(G, p), NEW r, Fine(G, r, p), G.outcome # None
    PROVE  r.update.k # "ChildStarted"
<1>1. PICK H : H = r.g OBVIOUS
<1>2. PICK u : u = r.update OBVIOUS
<1>3. Sound(H, p) /\ Follows(G, H, u) BY <1>1, <1>2 DEF Fine
<1>4. SUFFICES ASSUME u.k = "ChildStarted" PROVE FALSE BY <1>2
<1>5. PICK c : c = u.child OBVIOUS
<1>6. c \in Opened(u) BY <1>4, <1>5 DEF Opened
<1>7. c = G.next /\ c \in Frames(H) /\ H.frames[c].notification = "Waiting"
      /\ H.frames[c].parent.frame \in Frames(G)
  BY <1>3, <1>6 DEF Follows
<1>8. c # ROOT
  <2>1. \A i \in Frames(G) : i \in Nat /\ i < G.next /\ G.next \in Nat BY SoundTypes
  <2>2. PICK q : q = H.frames[c].parent.frame OBVIOUS
  <2>3. q \in Nat /\ q < G.next /\ G.next \in Nat BY <1>7, <2>1, <2>2
  <2> QED BY <1>7, <2>3 DEF ROOT
<1>9. H.outcome # None BY <1>3 DEF Follows, Sticky
<1>10. Halted(H) /\ Notified(H) BY <1>3, SoundTypes DEF Core
<1>11. H.frames[c].cancelling BY <1>7, <1>9, <1>10 DEF Halted
<1> QED BY <1>7, <1>8, <1>10, <1>11 DEF Notified

LEMMA StepTraces ==
    ASSUME Attended, Traced, [Next]_vars
    PROVE  Traced'
<1>1. plan \in Plans /\ Sound(g, plan) BY DEF Attended, Tended
<1>2. CASE Shrinks
  <2>1. PICK R : Loses(g, g', R) BY <1>2 DEF Shrinks
  <2>2. Recorded(g', born) /\ Reports(g', born, told) BY <2>1, HistoryLoses DEF Traced
  <2> QED BY <1>2, <2>2 DEF Shrinks, Traced
<1>3. CASE Advances
  <2>1. PICK r : /\ Fine(g, r, plan) /\ Record(r.update)
                 /\ \/ g' = r.g
                    \/ g.outcome # None /\ \E R : Loses(r.g, g', R)
    BY <1>3 DEF Advances
  <2>2. PICK B : B = NowBorn(born, r.g, r.update) OBVIOUS
  <2>3. PICK T : T = NowTold(told, r.update) OBVIOUS
  <2>4. Recorded(r.g, B) /\ Reports(r.g, B, T)
    BY <1>1, <2>1, <2>2, <2>3, RecordedFine, ReportsFine DEF Traced
  <2>5. told' = T BY <2>1, <2>3 DEF Record, NowTold
  <2>6. CASE g' = r.g
    <3>1. born' = B BY <2>1, <2>2, <2>6 DEF Record, NowBorn
    <3> QED BY <2>4, <2>5, <2>6, <3>1 DEF Traced
  <2>7. CASE g.outcome # None /\ \E R : Loses(r.g, g', R)
    <3>1. r.update.k # "ChildStarted" BY <1>1, <2>1, <2>7, NoneOpened
    <3>2. born' = B BY <2>1, <2>2, <3>1 DEF Record, NowBorn
    <3>3. PICK R : Loses(r.g, g', R) BY <2>7
    <3>4. Recorded(g', B) /\ Reports(g', B, T) BY <2>4, <3>3, HistoryLoses
    <3> QED BY <2>5, <3>2, <3>4 DEF Traced
  <2> QED BY <2>1, <2>6, <2>7
<1>4. Shrinks \/ Advances BY StepAttends
<1> QED BY <1>2, <1>3, <1>4

LEMMA EmptyIs == ASSUME NEW D, NEW R PROVE Empty \in Partial(D, R) /\ DOMAIN Empty = {}
<1>1. DOMAIN Empty = {} BY DEF Empty
<1>2. Empty \in [DOMAIN Empty -> R] BY DEF Empty
<1> QED BY <1>1, <1>2, PartialFn

LEMMA InitAttends == ASSUME Init PROVE Attended /\ Traced
<1>1. /\ plan \in Plans /\ now = 0 /\ g = NewScheduler(plan) /\ actor = NewActor /\ worker = Idle
      /\ watch = Empty /\ accepted = {} /\ born = Empty /\ told = <<>>
  BY DEF Init
<1>2. Sound(g, plan) /\ Books(g) = {} /\ g.next = 1 /\ Frames(g) = {ROOT}
  BY <1>1, NewSchedulerIs
<1>3. now \in 0..plan.deadline BY <1>1, PlanTypes
<1>4. DOMAIN Empty = {} BY DEF Empty
<1>5. IsActor(actor)
  <2>1. PICK D : D = CallIds OBVIOUS
  <2>2. PICK Q : Q = CallRecords OBVIOUS
  <2>3. PICK e : e = Empty OBVIOUS
  <2>4. e \in Partial(D, Q) /\ e \in Partial(D, Nat) BY <2>3, EmptyIs
  <2>5. PICK k : k = Running OBVIOUS
  <2>6. actor = [calls |-> e, pending |-> e, acks |-> {}, forced |-> None,
                 committed |-> None, published |-> None, park |-> k,
                 uncertain |-> FALSE, unrecorded |-> FALSE, ended |-> FALSE]
    BY <1>1, <2>3, <2>5 DEF NewActor
  <2> QED BY <2>1, <2>2, <2>4, <2>6 DEF IsActor, Outcomes
<1>6. /\ actor.acks = {} /\ DOMAIN actor.pending = {} /\ DOMAIN actor.calls = {}
      /\ actor.forced = None /\ actor.committed = None /\ actor.published = None
  BY <1>1, <1>4 DEF NewActor
<1>7. IsFiniteSet(actor.acks) BY <1>6, FS_EmptySet
<1>8. Known(g, accepted \cup actor.acks \cup DOMAIN actor.pending, plan)
  BY <1>1, <1>6 DEF Known
<1>9. Tended(actor, g, watch, accepted, plan)
  BY <1>1, <1>2, <1>4, <1>5, <1>6, <1>7, <1>8 DEF Tended
<1>10. watch \in Partial(CallIds, Watchers) BY <1>1, EmptyIs
<1>11. Decision(actor, g, "idle") BY <1>6 DEF Decision
<1>12. Attended BY <1>1, <1>3, <1>9, <1>10, <1>11, IdleIs DEF Attended
<1>13. Recorded(g, born)
  <2>1. DOMAIN born = {} /\ 1..(g.next - 1) = {} BY <1>1, <1>2, <1>4
  <2>2. Frames(g) \ {ROOT} = {} BY <1>2
  <2> QED BY <2>1, <2>2 DEF Recorded
<1>14. Reports(g, born, told)
  <2>1. told \in Seq(Nat) /\ DOMAIN told = {} BY <1>1
  <2>2. Range(told) = {} /\ IsInjective(told) BY <2>1 DEF Range, IsInjective
  <2>3. DOMAIN born = {} BY <1>1, <1>4
  <2> QED BY <2>1, <2>2, <2>3 DEF Reports
<1> QED BY <1>12, <1>13, <1>14 DEF Traced

-----------------------------------------------------------------------------
(* The theorems.                                                            *)

\* The inductive invariant: the calls the actor tends are on the scheduler's
\* books, the verdict is where the worker allows it, the histories are true.
THEOREM StepInvariant == Spec => [](Attended /\ Traced)
<1>1. Init => Attended /\ Traced BY InitAttends
<1>2. Attended /\ Traced /\ [Next]_vars => (Attended /\ Traced)' BY StepAttends, StepTraces
<1> QED BY <1>1, <1>2, PTL DEF Spec

\* Whoever has a call in the scheduler, queued or watched, is registered; the
\* transitions and retries spent stay within the budget.
THEOREM StepTypeOK == Spec => []TypeOK
<1>1. ASSUME Attended PROVE TypeOK
  <2>1. /\ plan \in Plans /\ now \in 0..plan.deadline /\ IsWorker(worker)
        /\ Tended(actor, g, watch, accepted, plan)
    BY <1>1 DEF Attended
  <2>2. Sound(g, plan) BY <2>1 DEF Tended
  <2>3. /\ Core(g, plan.budget) /\ g.next \in Nat /\ g.remaining \in Nat
        /\ \A i \in Frames(g) : i \in Nat /\ i < g.next /\ g.frames[i] \in FrameRecords
    BY <2>1, <2>2, SoundTypes
  <2>4. ASSUME NEW i \in Frames(g)
        PROVE  /\ i \in 0..(g.next - 1)
               /\ g.frames[i].phase.k \in {"Ready", "Calling", "Joining", "Waiting", "Retrying", "Terminal"}
               /\ g.frames[i].children \subseteq Frames(g)
               /\ g.frames[i].notification \in {"Waiting", "Queued", "Emitted"}
    <3>1. i \in 0..(g.next - 1) BY <2>3
    <3>2. g.frames[i].phase \in Phases /\ g.frames[i].notification \in {"Waiting", "Queued", "Emitted"}
      BY <2>3, RecordTypes
    <3>3. g.frames[i].children \subseteq Frames(g) BY <2>3 DEF Core, Tree
    <3> QED BY <3>1, <3>2, <3>3 DEF Phases
  <2>5. g.queued \subseteq Frames(g) /\ DOMAIN g.blocked \subseteq Frames(g)
    BY <2>3 DEF Core, Queues
  <2>6. g.remaining \in 0..plan.budget
    <3>1. g.remaining <= plan.budget BY <2>2 DEF Sound, Accounted
    <3> QED BY <2>1, <2>3, <3>1, PlanTypes
  <2>7. worker.st \in {"idle", "permit", "running", "done"} BY <2>1 DEF IsWorker
  <2>8. ASSUME NEW c \in DOMAIN watch \cup DOMAIN actor.pending \cup DOMAIN actor.calls
        PROVE  c.frame \in 0..(g.next - 1) /\ c.attempt \in 1..plan.budget
    <3>1. c \in accepted \cup actor.acks \cup DOMAIN actor.pending BY <2>1 DEF Tended
    <3>2. c \in CallIds /\ c.frame < g.next /\ c.attempt \in 1..plan.budget
      BY <2>1, <3>1 DEF Tended, Known
    <3>3. c.frame \in Nat BY <3>2 DEF CallIds
    <3> QED BY <2>3, <3>2, <3>3
  <2>9. \A c \in DOMAIN watch : watch[c] \in {"running", "closing", "clean", "dirty"}
    <3>1. PICK D : D = CallIds OBVIOUS
    <3>2. watch \in Partial(D, Watchers) BY <1>1, <3>1 DEF Attended
    <3>3. watch \in [DOMAIN watch -> Watchers] BY <3>2, PartialFn
    <3> QED BY <3>3 DEF Watchers
  <2> QED BY <2>1, <2>4, <2>5, <2>6, <2>7, <2>8, <2>9 DEF TypeOK
<1> QED BY <1>1, StepInvariant, PTL

\* The scheduler's own check of its frames never fails, its counter of unretired
\* calls is the number of calls on its books, and it keeps to its frame slots,
\* whatever order results, cancellations, expiries and exits come in.
THEOREM StepSchedulerSound == Spec => []SchedulerSound
<1>1. ASSUME Attended PROVE SchedulerSound
  <2>1. Sound(g, plan) BY <1>1 DEF Attended, Tended
  <2>2. Unretired(g) = Books(g) BY DEF Unretired, Books
  <2>3. g.outcome # "Internal" BY <2>1 DEF Sound, Coherent
  <2>4. g.calls = Cardinality(Books(g)) /\ Cardinality(Frames(g)) <= plan.frames
    BY <2>1 DEF Sound, Accounted
  <2> QED BY <2>2, <2>3, <2>4 DEF SchedulerSound
<1> QED BY <1>1, StepInvariant, PTL

\* Whenever the actor has the scheduler, its caller has been told of the
\* scheduler's outcome, also when a stop overtook the worker; or the journal
\* refused an outcome with data of the workflow, and the caller was told that.
THEOREM StepVerdictAgrees == Spec => []VerdictAgrees
<1>1. Attended => VerdictAgrees BY DEF Attended, Decision, Informs, VerdictAgrees
<1> QED BY <1>1, StepInvariant, PTL

\* The frame of a call that is queued or watched is registered, and so are all
\* the frames above it.
THEOREM StepLineageRetained == Spec => []LineageRetained
<1>1. ASSUME Attended, Traced PROVE LineageRetained
  <2>1. plan \in Plans /\ Tended(actor, g, watch, accepted, plan) /\ Sound(g, plan)
        /\ Recorded(g, born)
    BY <1>1 DEF Attended, Tended, Traced
  <2>2. ASSUME NEW c \in DOMAIN watch \cup DOMAIN actor.pending
        PROVE  Lineage(c.frame) \subseteq Frames(g)
    <3>1. c \in Books(g) BY <2>1 DEF Tended
    <3>2. c.frame \in Frames(g) BY <3>1, BooksIs
    <3> QED BY <2>1, <3>2, LineIn DEF Lineage
  <2> QED BY <2>2 DEF LineageRetained
<1> QED BY <1>1, StepInvariant, PTL

\* Children are reported finished once each and after their own descendants,
\* and all of them have been by the time the scheduler is clean.
THEOREM StepNestedNotices == Spec => []NestedNotices
<1>1. ASSUME Attended, Traced PROVE NestedNotices
  <2>1. plan \in Plans /\ Sound(g, plan) /\ Recorded(g, born) /\ Reports(g, born, told)
    BY <1>1 DEF Attended, Tended, Traced
  <2>2. History(born) /\ Frames(g) \subseteq DOMAIN born \cup {ROOT}
    BY <2>1, RecordedHistory
  <2>3. ASSUME NEW i \in DOMAIN told, NEW k \in DOMAIN told
        PROVE  /\ i # k => told[i] # told[k]
               /\ told[k] \in Lineage(told[i]) => i <= k
    BY <2>1 DEF Reports, IsInjective, Lineage
  <2>4. ASSUME NEW c \in Range(told), NEW d \in DOMAIN born, c \in Lineage(d), d \notin Range(told)
        PROVE  FALSE
    <3>1. d \in Frames(g) /\ g.frames[d].notification # "Emitted" BY <2>1, <2>4 DEF Reports
    <3>2. c \in Frames(g) /\ g.frames[c].notification # "Emitted"
      BY <2>1, <2>4, <3>1, LineUntold DEF Lineage
    <3>3. c \notin Frames(g) \/ g.frames[c].notification = "Emitted" BY <2>1 DEF Reports
    <3> QED BY <3>2, <3>3
  <2>5. ASSUME cleanup_ready(g) PROVE DOMAIN born = Range(told)
    <3>1. Frames(g) = {} BY <2>5 DEF cleanup_ready
    <3>2. \A i : i \in Range(told) <=> i \in DOMAIN born BY <2>1, <3>1 DEF Reports
    <3> QED BY <3>2
  <2> QED BY <2>3, <2>4, <2>5 DEF NestedNotices
<1> QED BY <1>1, StepInvariant, PTL

\* Frames that stay registered through an update of the scheduler are closed
\* under parents.
Stays(G, H, B) ==
    LET S == Frames(G) \cap Frames(H)
    IN Climbs(B, S) /\ \A i \in S \ {ROOT} : B[i] = H.frames[i].parent

LEMMA StayingClimbs ==
    ASSUME NEW p \in Plans, NEW G, Sound(G, p), NEW H, Sound(H, p), NEW u, Follows(G, H, u),
           NEW B, Recorded(G, B)
    PROVE  Stays(G, H, B)
<1>1. PICK S : S = Frames(G) \cap Frames(H) OBVIOUS
<1>2. \A i \in Frames(G) \ {ROOT} : B[i] = G.frames[i].parent /\ B[i].frame \in Frames(G)
  BY RecordedHistory
<1>3. \A i \in S : H.frames[i].parent = G.frames[i].parent BY <1>1 DEF Follows, Grows
<1>4. \A i \in Frames(H) \ {ROOT} : H.frames[i].parent.frame \in Frames(H)
  <2>1. Core(H, p.budget) BY SoundTypes
  <2> QED BY <2>1 DEF Core, Tree
<1>5. \A i \in S \ {ROOT} : B[i] = H.frames[i].parent BY <1>1, <1>2, <1>3
<1>6. ASSUME NEW i \in S \ {ROOT} PROVE B[i].frame \in S
  <2>1. B[i].frame \in Frames(G) BY <1>1, <1>2
  <2>2. B[i].frame \in Frames(H) BY <1>1, <1>4, <1>5
  <2> QED BY <1>1, <2>1, <2>2
<1>7. Climbs(B, S) BY <1>6 DEF Climbs
<1> QED BY <1>1, <1>5, <1>7 DEF Stays

LEMMA StepJoins ==
    ASSUME Attended, Traced, [Next]_vars, NEW id \in Frames(g) \cap Frames(g'),
           g.frames[id].round.failed, g'.frames[id].round = NoRound, ~g'.frames[id].cancelling
    PROVE  RoundCalls(id, g.frames[id].round.attempt) = {}
<1>1. plan \in Plans /\ Sound(g, plan) /\ Tended(actor, g, watch, accepted, plan)
      /\ Recorded(g, born)
  BY DEF Attended, Tended, Traced
<1>2. ~NoRound.failed BY DEF NoRound
<1>3. CASE Shrinks
  <2>1. PICK R : Loses(g, g', R) BY <1>3 DEF Shrinks
  <2>2. Kept(g.frames[id], g'.frames[id]) BY <2>1 DEF Loses
  <2>3. g'.frames[id].round.failed BY <2>2 DEF Kept
  <2> QED BY <1>2, <2>3
<1>4. CASE Advances
  <2>1. PICK r : /\ Fine(g, r, plan)
                 /\ \/ g' = r.g
                    \/ g.outcome # None /\ \E R : Loses(r.g, g', R)
    BY <1>4 DEF Advances
  <2>2. PICK H : H = r.g OBVIOUS
  <2>3. PICK u : u = r.update OBVIOUS
  <2>4. Sound(H, plan) /\ Follows(g, H, u) BY <2>1, <2>2, <2>3 DEF Fine
  <2>5. CASE g.outcome # None /\ \E R : Loses(H, g', R)
    <3>1. PICK R : Loses(H, g', R) BY <2>5
    <3>2. id \in Frames(H) /\ Kept(H.frames[id], g'.frames[id]) BY <3>1 DEF Loses
    <3>3. Halted(g) BY <1>1, SoundTypes DEF Core
    <3>4. g.frames[id].cancelling BY <2>5, <3>3 DEF Halted
    <3>5. H.frames[id].cancelling BY <2>4, <3>2, <3>4 DEF Follows, Grows
    <3> QED BY <3>2, <3>5 DEF Kept
  <2>6. CASE g' = H
    <3>1. PICK n : n = g.frames[id].round.attempt OBVIOUS
    <3>2. \A c \in Frames(H) \ {ROOT} :
             H.frames[c].parent.frame = id => H.frames[c].parent.round # n
      <4>1. Closes(g, H) BY <2>4 DEF Follows
      <4>2. ~H.frames[id].round.failed /\ ~H.frames[id].cancelling /\ id \in Frames(g) \cap Frames(H)
        BY <1>2, <2>6
      <4> QED BY <3>1, <4>1, <4>2 DEF Closes
    <3>3. PICK S : S = Frames(g) \cap Frames(H) OBVIOUS
    <3>4. Climbs(born, S) /\ \A i \in S \ {ROOT} : born[i] = H.frames[i].parent
      <4>1. Stays(g, H, born) BY <1>1, <2>4, StayingClimbs
      <4> QED BY <3>3, <4>1 DEF Stays
    <3>5. History(born) /\ S \subseteq DOMAIN born \cup {ROOT}
      BY <1>1, <3>3, RecordedHistory
    <3>6. ASSUME NEW c \in DOMAIN watch, NEW k \in Lineage(c.frame) \ {ROOT},
                 born[k].frame = id, born[k].round = n
          PROVE  FALSE
      <4>1. c \in Books(g) BY <1>1 DEF Tended
      <4>2. c \in Books(H) BY <2>4, <4>1 DEF Follows
      <4>3. c.frame \in S BY <3>3, <4>1, <4>2, BooksIs
      <4>4. Line(born, c.frame) \subseteq S BY <3>4, <3>5, <4>3, LineInside
      <4>5. k \in S \ {ROOT} BY <3>6, <4>4 DEF Lineage
      <4>6. born[k] = H.frames[k].parent /\ k \in Frames(H) \ {ROOT} BY <3>3, <3>4, <4>5
      <4> QED BY <3>2, <3>6, <4>6
    <3> QED BY <3>1, <3>6 DEF RoundCalls
  <2> QED BY <2>1, <2>2, <2>5, <2>6
<1>5. Shrinks \/ Advances BY StepAttends
<1> QED BY <1>3, <1>4, <1>5

\* A Map or Parallel state one of whose branches failed, could not be prepared
\* or left a result that cannot be stored is retried, caught or failed only when
\* no call of the round's branches is running any more.
THEOREM StepJoinBarrier == Spec => JoinBarrier
<1> DEFINE A == \A id \in Frames(g) \cap Frames(g') :
                   /\ g.frames[id].round.failed
                   /\ g'.frames[id].round = NoRound
                   /\ ~g'.frames[id].cancelling
                   => RoundCalls(id, g.frames[id].round.attempt) = {}
<1>1. Attended /\ Traced /\ [Next]_vars => A BY StepJoins
<1>2. [](Attended /\ Traced) /\ [][Next]_vars => [][A]_vars
  <2>1. Attended /\ Traced /\ [Next]_vars => [A]_vars BY <1>1
  <2> QED BY <2>1, PTL
<1> QED BY <1>2, StepInvariant, PTL DEF Spec, JoinBarrier

-----------------------------------------------------------------------------
(* The execution contract.                                                  *)

OpenCalls(W) == {c \in DOMAIN W : W[c] \in {"running", "closing"}}

\* a step of the actor that neither takes nor gives up a call
LEMMA VerdictMoves ==
    ASSUME Attended', actor.published # None => actor'.published = actor.published,
           actor'.ended = actor.ended, accepted' = accepted, OpenCalls(watch') = OpenCalls(watch)
    PROVE  [Contract!CNext]_(Contract!cvars)
<1>1. CASE actor'.published = actor.published
  BY <1>1 DEF OpenCalls, Contract!cvars
<1>2. CASE actor.published = None /\ actor'.published # None
  <2>1. actor'.published \in Decided BY <1>2 DEF Attended, Decision
  <2>2. Contract!Publish(actor'.published) BY <1>2 DEF OpenCalls, Contract!Publish
  <2> QED BY <2>1, <2>2 DEF Contract!CNext, Decided
<1> QED BY <1>1, <1>2

LEMMA StillContract ==
    ASSUME UNCHANGED <<actor, watch, accepted>>
    PROVE  [Contract!CNext]_(Contract!cvars)
BY DEF Contract!cvars

LEMMA SameContract ==
    ASSUME SameVerdict(actor, actor'), accepted' = accepted, OpenCalls(watch') = OpenCalls(watch)
    PROVE  [Contract!CNext]_(Contract!cvars)
BY DEF SameVerdict, OpenCalls, Contract!cvars

LEMMA AcceptContract ==
    ASSUME Attended, NEW c, c \notin accepted, accepted' = accepted \cup {c},
           watch' = Put(watch, c, "running"), actor.published = None, actor'.published = None,
           actor'.ended = actor.ended
    PROVE  [Contract!CNext]_(Contract!cvars)
<1>1. /\ \A d : d \in DOMAIN watch' <=> d \in DOMAIN watch \/ d = c
      /\ watch'[c] = "running"
      /\ \A d \in DOMAIN watch : d # c => watch'[d] = watch[d]
  BY DEF Put
<1>2. c \notin DOMAIN watch BY DEF Attended, Tended
<1>3. OpenCalls(watch') = OpenCalls(watch) \cup {c} BY <1>1, <1>2 DEF OpenCalls
<1>4. Contract!Accept(c) BY <1>3 DEF OpenCalls, Contract!Accept
<1>5. c \in accepted' OBVIOUS
<1> QED BY <1>4, <1>5 DEF Contract!CNext

LEMMA WatcherContract ==
    ASSUME Attended, WatcherResult \/ WatcherCancelled \/ WatcherExits
    PROVE  [Contract!CNext]_(Contract!cvars)
<1>1. PICK c \in DOMAIN watch :
         /\ \/ watch[c] = "running" /\ watch' = [watch EXCEPT ![c] = "closing"]
            \/ \E v \in {"clean", "dirty"} : watch[c] = "closing" /\ watch' = [watch EXCEPT ![c] = v]
         /\ UNCHANGED <<plan, now, g, actor, accepted, worker, born, told>>
  BY WatcherMoves
<1>2. UNCHANGED <<actor, accepted>> BY <1>1
<1>3. CASE watch[c] = "running" /\ watch' = [watch EXCEPT ![c] = "closing"]
  <2>1. OpenCalls(watch') = OpenCalls(watch) BY <1>3 DEF OpenCalls
  <2> QED BY <1>2, <2>1 DEF OpenCalls, Contract!cvars
<1>4. ASSUME NEW v \in {"clean", "dirty"}, watch[c] = "closing", watch' = [watch EXCEPT ![c] = v]
      PROVE  [Contract!CNext]_(Contract!cvars)
  <2>1. v \notin {"running", "closing"} BY <1>4
  <2>2. OpenCalls(watch') = OpenCalls(watch) \ {c} BY <1>4, <2>1 DEF OpenCalls
  <2>3. c \in OpenCalls(watch) BY <1>4 DEF OpenCalls
  <2>4. Contract!Release(c) BY <1>2, <2>2, <2>3 DEF OpenCalls, Contract!Release
  <2> QED BY <2>3, <2>4 DEF OpenCalls, Contract!CNext
<1> QED BY <1>1, <1>3, <1>4

LEMMA StepContract ==
    ASSUME Attended, Attended', [Next]_vars
    PROVE  [Contract!CNext]_(Contract!cvars)
<1>1. CASE control
  <2>1. UNCHANGED <<watch, accepted>> BY <1>1 DEF control, history
  <2> QED BY <1>1, <2>1, controlIs, VerdictMoves
<1>2. CASE StartAdvance \/ WorkerRuns \/ Tick \/ StopExecution \/ OthersMove \/ UNCHANGED vars
  <2>1. UNCHANGED <<actor, watch>>
    BY <1>2 DEF StartAdvance, WorkerRuns, Tick, StopExecution, OthersMove, vars
  <2>2. accepted' = accepted
    BY <1>2 DEF StartAdvance, WorkerRuns, Record, Tick, StopExecution, OthersMove, vars, history
  <2> QED BY <2>1, <2>2, StillContract
<1>3. CASE Lend
  <2>1. UNCHANGED <<watch, accepted>> BY <1>3 DEF Lend, history
  <2>2. PICK k : k = Running OBVIOUS
  <2>3. actor' = [actor EXCEPT !.park = k] BY <1>3, <2>2 DEF Lend
  <2>4. SameVerdict(actor, actor') BY <2>3, ParkRetains DEF Attended, Tended
  <2> QED BY <2>1, <2>4, SameContract
<1>4. CASE evaluated
  <2>1. UNCHANGED <<watch, accepted>> BY <1>4 DEF evaluated, history
  <2> QED BY <1>4, <2>1, evaluatedIs, VerdictMoves
<1>5. CASE Drain
  <2>1. UNCHANGED <<watch, accepted>> BY <1>5 DEF Drain, Record
  <2> QED BY <1>5, <2>1, DrainIs, VerdictMoves
<1>6. CASE dispatch
  <2>1. CASE watch' = watch /\ accepted' = accepted BY <1>6, <2>1, dispatchIs, VerdictMoves
  <2>2. ASSUME NEW c, c \notin accepted, accepted' = accepted \cup {c},
               watch' = Put(watch, c, "running"), actor.published = None, actor'.published = None
        PROVE  [Contract!CNext]_(Contract!cvars)
    <3>1. actor'.ended = actor.ended BY <1>6, dispatchIs
    <3> QED BY <2>2, <3>1, AcceptContract
  <2> QED BY <1>6, <2>1, <2>2, dispatchIs
<1>7. CASE completed
  <2>1. UNCHANGED <<watch, accepted>> BY <1>7 DEF completed, history
  <2> QED BY <1>7, <2>1, completedIs, VerdictMoves
<1>8. CASE expired
  <2>1. UNCHANGED <<watch, accepted>> BY <1>8 DEF expired, history
  <2> QED BY <1>8, <2>1, expiredIs, SameContract
<1>9. CASE CapacityWake
  <2>1. UNCHANGED <<watch, accepted>> BY <1>9 DEF CapacityWake, history
  <2> QED BY <1>9, <2>1, CapacityWakeIs, SameContract
<1>10. CASE joined
  <2>1. accepted' = accepted BY <1>10 DEF joined, history
  <2>2. PICK c \in DOMAIN watch :
           /\ watch[c] \in {"clean", "dirty"} /\ DOMAIN watch' = DOMAIN watch \ {c}
           /\ \A d \in DOMAIN watch' : watch'[d] = watch[d]
    BY <1>10, joinedIs
  <2>3. watch[c] \notin {"running", "closing"} BY <2>2
  <2>4. OpenCalls(watch') = OpenCalls(watch) BY <2>2, <2>3 DEF OpenCalls
  <2> QED BY <1>10, <2>1, <2>4, joinedIs, SameContract
<1>11. CASE finish
  <2>1. UNCHANGED <<watch, accepted>> BY <1>11 DEF finish, history
  <2>2. /\ actor'.published = actor.published /\ actor.published # None
        /\ DOMAIN watch = {} /\ ~actor.ended /\ actor'.ended = TRUE
    BY <1>11, finishIs
  <2>3. Contract!End BY <2>1, <2>2 DEF Contract!End
  <2> QED BY <2>3 DEF Contract!CNext
<1>12. CASE WatcherResult \/ WatcherCancelled \/ WatcherExits BY <1>12, WatcherContract
<1> QED BY <1>1, <1>2, <1>3, <1>4, <1>5, <1>6, <1>7, <1>8, <1>9, <1>10, <1>11, <1>12
        DEF Next, ActorStep

\* The actor, its worker and its watchers keep the execution contract: a call is
\* handed out once and not after the verdict, the verdict stays, and the
\* execution ends after it and after every accepted call.
THEOREM StepKeepsContract == Spec => KeepsContract
<1>1. Init => Contract!CInit BY DEF Init, NewActor, Empty, Contract!CInit
<1>2. Attended /\ Attended' /\ [Next]_vars => [Contract!CNext]_(Contract!cvars) BY StepContract
<1>3. [](Attended /\ Traced) => []Attended BY PTL
<1> QED BY <1>1, <1>2, <1>3, StepInvariant, PTL DEF Spec, KeepsContract, Contract!CSpec
=============================================================================
