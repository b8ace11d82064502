------------------------------- MODULE SqsProofs -------------------------------
(***************************************************************************)
(* What the operations of a FIFO storage preserve, and theorems about the  *)
(* queue actors, for every set of queues and groups, every choice of       *)
(* request parameters and every bound.                                     *)
(***************************************************************************)
EXTENDS SqsQueues, FiniteSetTheorems, SequenceTheorems, TLAPS

(***************************************************************************)
(* The invariant of a FIFO storage s together with the transfers P that    *)
(* its actor has pending.                                                  *)
(***************************************************************************)
\* At most one entry, in flight or pending, per group; exactly then the group
\* is blocked.
OneEach(es) == \A e, f \in es : e.msg.group = f.msg.group => e = f

Blocking(s, P) ==
    /\ OneEach(s.inFlight) /\ OneEach(P)
    /\ \A e \in s.inFlight, p \in P : e.msg.group # p.msg.group
    /\ \A g \in Groups : g \in s.blocked <=> \E e \in s.inFlight \cup P : e.msg.group = g
    /\ \A e \in s.inFlight \cup P : e.msg.group \in Groups

\* Each group is sorted, below the next sequence number and above its
\* outstanding message.
Sorted(s, P) ==
    /\ \A g \in Groups : \A i \in 1..Len(s.groups[g]) :
          /\ s.groups[g][i].group = g
          /\ s.groups[g][i].seq < s.next
          /\ \A j \in 1..Len(s.groups[g]) : i < j => s.groups[g][i].seq < s.groups[g][j].seq
          /\ \A e \in s.inFlight \cup P : e.msg.group = g => e.msg.seq < s.groups[g][i].seq
    /\ \A e \in s.inFlight \cup P : e.msg.seq < s.next

GroupInv(s, P) == Blocking(s, P) /\ Sorted(s, P)

PendingEntry == [msg : QueueMessage, reply : {"empty", "ok", "err"}]

\* A FIFO storage and pending transfers of the right type.
FifoTyped(s, P) ==
    /\ s \in FifoStorage /\ P \subseteq PendingEntry
    /\ IsFiniteSet(s.inFlight) /\ IsFiniteSet(P)

\* Messages that have just been taken from their groups, as transfers without
\* a reply.
Taken(ms) == {[msg |-> m, reply |-> "empty"] : m \in ms}

-----------------------------------------------------------------------------
\* The helper of the model that turns a finite set into sequences.
LEMMA OrderingsType ==
    ASSUME NEW S, IsFiniteSet(S), NEW f \in SetToSeqs(S)
    PROVE  f \in Seq(S) /\ f \in [1..Cardinality(S) -> S] /\ Cardinality(S) \in Nat
<1>1. Cardinality(S) \in Nat
  BY FS_CardinalityType
<1>2. f \in [1..Cardinality(S) -> S]
  BY DEF SetToSeqs
<1> QED
  BY <1>1, <1>2

\* Each element of the set has its place in the sequence.
LEMMA OrderingsOnto ==
    ASSUME NEW S, IsFiniteSet(S), NEW f \in SetToSeqs(S)
    PROVE  \A x \in S : \E i \in DOMAIN f : f[i] = x
<1>1. f \in [1..Cardinality(S) -> S] /\ Cardinality(S) \in Nat
  BY OrderingsType
<1>2. \A i, j \in 1..Cardinality(S) : f[i] = f[j] => i = j
  BY DEF SetToSeqs, IsInjective
<1> DEFINE D == 1..Cardinality(S)
<1>3. f \in Injection(D, S)
  BY <1>1, <1>2 DEF Injection, IsInjective
<1>4. IsFiniteSet(D) /\ Cardinality(D) = Cardinality(S)
  BY <1>1, FS_Interval
<1>5. f \in Surjection(D, S)
  BY <1>3, <1>4, FS_Injection
<1> QED
  BY <1>1, <1>5 DEF Surjection

\* The image of a finite set under a function.
LEMMA FiniteImage ==
    ASSUME NEW S, IsFiniteSet(S), NEW f, DOMAIN f = S, f = [x \in S |-> f[x]]
    PROVE  IsFiniteSet({f[x] : x \in S})
<1> DEFINE T == {f[x] : x \in S}
<1>1. f \in Surjection(S, T)
  BY DEF Surjection
<1> QED
  BY <1>1, FS_Surjection

\* The messages of the transfers.
LEMMA TakenMessages ==
    ASSUME NEW ms
    PROVE  /\ \A m \in ms : \E d \in Taken(ms) : d.msg = m
           /\ \A d \in Taken(ms) : d.msg \in ms
           /\ {d.msg : d \in Taken(ms)} = ms
           /\ {d.msg.group : d \in Taken(ms)} = {m.group : m \in ms}
<1>1. \A m \in ms : [msg |-> m, reply |-> "empty"] \in Taken(ms) /\ [msg |-> m, reply |-> "empty"].msg = m
  BY DEF Taken
<1>2. \A m \in ms : \E d \in Taken(ms) : d.msg = m
  BY <1>1
<1>3. \A d \in Taken(ms) : d.msg \in ms
  BY DEF Taken
<1> QED
  BY <1>2, <1>3

\* Finitely many messages are taken.
LEMMA TakenFinite ==
    ASSUME NEW ms, IsFiniteSet(ms)
    PROVE  IsFiniteSet(Taken(ms))
<1> DEFINE f == [m \in ms |-> [msg |-> m, reply |-> "empty"]]
<1>1. DOMAIN f = ms /\ f = [x \in ms |-> f[x]] /\ {f[x] : x \in ms} = Taken(ms)
  BY DEF Taken
<1> HIDE DEF f
<1> QED
  BY <1>1, FiniteImage

\* enqueue() appends behind every message of the group.
LEMMA EnqueueInv ==
    ASSUME NEW s, NEW P, FifoTyped(s, P), GroupInv(s, P),
           NEW m \in QueueMessage, m.group \in Groups, NEW key \in DedupKey
    PROVE  FifoTyped(Enqueue(s, m, key), P) /\ GroupInv(Enqueue(s, m, key), P)
<1> DEFINE t == Enqueue(s, m, key)
           n == [m EXCEPT !.seq = s.next]
           w == s.groups[m.group]
<1>0. s \in FifoStorage
  BY DEF FifoTyped
<1>1. n \in QueueMessage /\ n.group = m.group /\ n.seq = s.next
  BY <1>0 DEF QueueMessage, FifoStorage
<1>2. t.groups = [s.groups EXCEPT ![m.group] = Append(w, n)]
      /\ t.blocked = s.blocked /\ t.inFlight = s.inFlight /\ t.next = s.next + 1
  BY <1>0 DEF Enqueue, FifoStorage
<1>3. w \in Seq(QueueMessage)
  BY <1>0 DEF FifoStorage
<1>4. t \in FifoStorage
  <2>1. Append(w, n) \in Seq(QueueMessage)
    BY <1>1, <1>3
  <2>2. {e \in s.dedup : e.key # key} \cup {[key |-> key, left |-> DedupWindow]} \in SUBSET DedupEntry
    BY <1>0, BoundsAssumption DEF FifoStorage, DedupEntry
  <2> DEFINE G == [s.groups EXCEPT ![m.group] = Append(w, n)]
             X == {e \in s.dedup : e.key # key} \cup {[key |-> key, left |-> DedupWindow]}
             N == s.next + 1
  <2>3. t = [s EXCEPT !.next = N, !.dedup = X, !.groups = G]
    BY DEF Enqueue
  <2>4. G \in [Groups -> Seq(QueueMessage)] /\ X \in SUBSET DedupEntry /\ N \in Nat
    BY <1>0, <2>1, <2>2 DEF FifoStorage
  <2> HIDE DEF t, G, X, N
  <2> QED
    BY <1>0, <2>3, <2>4 DEF FifoStorage
<1>5. Blocking(t, P)
  BY <1>2 DEF GroupInv, Blocking
<1>6. Sorted(t, P)
  <2>1. SUFFICES ASSUME NEW g \in Groups, NEW i \in 1..Len(t.groups[g])
                 PROVE  /\ t.groups[g][i].group = g
                        /\ t.groups[g][i].seq < t.next
                        /\ \A j \in 1..Len(t.groups[g]) : i < j => t.groups[g][i].seq < t.groups[g][j].seq
                        /\ \A e \in t.inFlight \cup P : e.msg.group = g => e.msg.seq < t.groups[g][i].seq
    <3>1. \A e \in t.inFlight \cup P : e.msg.seq < t.next
      BY <1>0, <1>2 DEF GroupInv, Sorted, FifoTyped, FifoStorage, InFlightMessage, PendingEntry, QueueMessage
    <3> QED
      BY <3>1 DEF Sorted
  <2>2. CASE g # m.group
    <3>1. t.groups[g] = s.groups[g] /\ t.groups[g] \in Seq(QueueMessage)
      BY <2>2, <1>2, <1>0 DEF FifoStorage
    <3>2. /\ s.groups[g][i].group = g
          /\ s.groups[g][i].seq < s.next
          /\ \A j \in 1..Len(s.groups[g]) : i < j => s.groups[g][i].seq < s.groups[g][j].seq
          /\ \A e \in s.inFlight \cup P : e.msg.group = g => e.msg.seq < s.groups[g][i].seq
      BY <3>1 DEF GroupInv, Sorted
    <3>a. s.groups[g][i] \in QueueMessage
      <4> HIDE DEF t
      <4> QED
        BY <3>1
    <3>3. s.next \in Nat /\ s.groups[g][i].seq \in Nat
      BY <3>a, <1>0 DEF FifoStorage, QueueMessage
    <3> HIDE DEF t
    <3> QED
      BY <3>1, <3>2, <3>3, <1>2
  <2>3. CASE g = m.group
    <3>1. t.groups[g] = Append(w, n)
      BY <2>3, <1>2, <1>0 DEF FifoStorage
    <3>2. /\ Len(t.groups[g]) = Len(w) + 1
          /\ \A k \in 1..Len(w) : t.groups[g][k] = w[k]
          /\ t.groups[g][Len(w) + 1] = n
      BY <3>1, <1>3, <1>1
    <3>3. \A k \in 1..Len(w) : w[k] \in QueueMessage /\ w[k].seq < s.next /\ w[k].group = g
      BY <1>3, <2>3 DEF GroupInv, Sorted
    <3>4. \A e \in t.inFlight \cup P : e.msg.seq < s.next
      BY <1>2 DEF GroupInv, Sorted
    <3>5. \A k, l \in 1..Len(w) : k < l => w[k].seq < w[l].seq
      BY <2>3 DEF GroupInv, Sorted
    <3>6. \A e \in t.inFlight \cup P : e.msg.group = g => \A k \in 1..Len(w) : e.msg.seq < w[k].seq
      BY <2>3, <1>2 DEF GroupInv, Sorted
    <3>7. s.next \in Nat /\ Len(w) \in Nat /\ \A k \in 1..Len(w) : w[k].seq \in Nat
      <4>1. s.next \in Nat
        BY <1>0 DEF FifoStorage
      <4>2. Len(w) \in Nat
        <5> HIDE DEF w
        <5> QED
          BY <1>3
      <4>3. \A k \in 1..Len(w) : w[k].seq \in Nat
        <5> HIDE DEF w, t
        <5> QED
          BY <3>3 DEF QueueMessage
      <4> QED
        BY <4>1, <4>2, <4>3
    <3>8. t.next = s.next + 1 /\ n.group = g /\ n.seq = s.next
      BY <1>1, <1>2, <2>3
    <3> DEFINE v == t.groups[g]
               L == Len(w)
    <3>a. Len(v) = L + 1 /\ i \in 1..(L + 1) /\ L \in Nat /\ s.next \in Nat
      BY <3>2, <3>7
    <3>b. v[L + 1].group = g /\ v[L + 1].seq = s.next
      <4>1. v[L + 1] = n
        BY <3>2
      <4> HIDE DEF v, L, n
      <4> QED
        BY <4>1, <3>8
    <3> HIDE DEF t, w, n
    <3>c. \A k \in 1..L : v[k].group = g /\ v[k].seq < s.next /\ v[k].seq \in Nat
      BY <3>2, <3>3, <3>7
    <3>d. \A k, l \in 1..L : k < l => v[k].seq < v[l].seq
      BY <3>2, <3>5
    <3>e. \A e \in t.inFlight \cup P : e.msg.group = g => \A k \in 1..L : e.msg.seq < v[k].seq
      BY <3>2, <3>6
    <3>9. i \in 1..L \/ i = L + 1
      BY <3>a
    <3> HIDE DEF v, L
    <3>10. v[i].group = g /\ v[i].seq < t.next
      BY <3>8, <3>9, <3>a, <3>b, <3>c
    <3>11. \A j \in 1..Len(v) : i < j => v[i].seq < v[j].seq
      <4> SUFFICES ASSUME NEW j \in 1..Len(v), i < j
                   PROVE  v[i].seq < v[j].seq
        OBVIOUS
      <4>1. i \in 1..L /\ (j \in 1..L \/ j = L + 1)
        BY <3>9, <3>a
      <4> QED
        BY <4>1, <3>b, <3>c, <3>d
    <3>12. \A e \in t.inFlight \cup P : e.msg.group = g => e.msg.seq < v[i].seq
      BY <3>4, <3>9, <3>b, <3>e
    <3> QED
      BY <3>10, <3>11, <3>12 DEF v
  <2> QED
    BY <2>2, <2>3
<1> QED
  <2>1. FifoTyped(t, P)
    BY <1>2, <1>4 DEF FifoTyped
  <2> QED
    BY <2>1, <1>5, <1>6 DEF GroupInv

\* Messages return to the heads of their groups, or leave the queue.
LEMMA RestoreInv ==
    ASSUME NEW s, NEW P, FifoTyped(s, P), GroupInv(s, P),
           NEW D, D \subseteq s.inFlight \cup P,
           NEW R, R \subseteq {d.msg : d \in D},
           NEW t, t.groups = PushFront(s.groups, R), t.next = s.next,
           t.inFlight = s.inFlight \ D, t.blocked = s.blocked \ {d.msg.group : d \in D}
    PROVE  t.groups \in [Groups -> Seq(QueueMessage)] /\ GroupInv(t, P \ D)
<1> DEFINE O == s.inFlight \cup P
<1>0. s \in FifoStorage /\ P \subseteq PendingEntry
  BY DEF FifoTyped
<1>1. \A e \in O : e.msg \in QueueMessage /\ e.msg.seq \in Nat /\ e.msg.group \in Groups
  BY <1>0 DEF FifoStorage, InFlightMessage, PendingEntry, QueueMessage, GroupInv, Blocking
<1>2. \A e, f \in O : e.msg.group = f.msg.group => e = f
  BY DEF GroupInv, Blocking, OneEach
<1>3. (s.inFlight \ D) \cup (P \ D) = O \ D
  OBVIOUS
<1>4. Blocking(t, P \ D)
  BY <1>2, <1>3 DEF GroupInv, Blocking, OneEach
<1>5. \A g \in Groups : s.groups[g] \in Seq(QueueMessage)
  BY <1>0 DEF FifoStorage
<1>6. \A g \in Groups : (\E m \in R : m.group = g) =>
        \E e \in D : e.msg.group = g /\ t.groups[g] = <<e.msg>> \o s.groups[g]
  <2>1. SUFFICES ASSUME NEW g \in Groups, \E m \in R : m.group = g
                 PROVE  \E e \in D : e.msg.group = g /\ t.groups[g] = <<e.msg>> \o s.groups[g]
    OBVIOUS
  <2> DEFINE c == CHOOSE m \in R : m.group = g
  <2>2. c \in R /\ c.group = g
    BY <2>1
  <2>3. t.groups[g] = <<c>> \o s.groups[g]
    BY <2>1 DEF PushFront
  <2> HIDE DEF c
  <2> QED
    BY <2>2, <2>3
<1>7. \A g \in Groups : ~(\E m \in R : m.group = g) => t.groups[g] = s.groups[g]
  BY DEF PushFront
<1>8. ASSUME NEW g \in Groups, NEW e \in D, e.msg.group = g, t.groups[g] = <<e.msg>> \o s.groups[g]
      PROVE  /\ t.groups[g] \in Seq(QueueMessage)
             /\ Len(t.groups[g]) = Len(s.groups[g]) + 1
             /\ t.groups[g][1] = e.msg
             /\ \A i \in 1..Len(s.groups[g]) : t.groups[g][i + 1] = s.groups[g][i]
  <2>1. e.msg \in QueueMessage
    BY <1>1
  <2> QED
    BY <2>1, <1>5, <1>8
<1>9. t.groups \in [Groups -> Seq(QueueMessage)]
  <2>1. \A g \in Groups : t.groups[g] \in Seq(QueueMessage)
    BY <1>5, <1>6, <1>7, <1>8
  <2> QED
    BY <2>1 DEF PushFront
<1>10. Sorted(t, P \ D)
  <2>1. \A e \in t.inFlight \cup (P \ D) : e.msg.seq < t.next
    BY DEF GroupInv, Sorted
  <2>2. SUFFICES ASSUME NEW g \in Groups, NEW i \in 1..Len(t.groups[g])
                 PROVE  /\ t.groups[g][i].group = g
                        /\ t.groups[g][i].seq < t.next
                        /\ \A j \in 1..Len(t.groups[g]) : i < j => t.groups[g][i].seq < t.groups[g][j].seq
                        /\ \A e \in t.inFlight \cup (P \ D) : e.msg.group = g => e.msg.seq < t.groups[g][i].seq
    BY <2>1 DEF Sorted
  <2> DEFINE w == s.groups[g]
  <2>3. /\ \A k \in 1..Len(w) : w[k].group = g /\ w[k].seq < s.next
        /\ \A k, l \in 1..Len(w) : k < l => w[k].seq < w[l].seq
        /\ \A e \in O : e.msg.group = g => \A k \in 1..Len(w) : e.msg.seq < w[k].seq
        /\ \A e \in O : e.msg.seq < s.next
    BY DEF GroupInv, Sorted
  <2>4. CASE ~(\E m \in R : m.group = g)
    BY <2>3, <2>4, <1>3, <1>7
  <2>5. CASE \E m \in R : m.group = g
    <3>1. PICK e \in D : e.msg.group = g /\ t.groups[g] = <<e.msg>> \o w
      BY <2>5, <1>6
    <3>2. /\ Len(t.groups[g]) = Len(w) + 1 /\ t.groups[g][1] = e.msg
          /\ \A k \in 1..Len(w) : t.groups[g][k + 1] = w[k]
      BY <3>1, <1>8
    <3>3. \A f \in t.inFlight \cup (P \ D) : f.msg.group # g
      BY <3>1, <1>2, <1>3
    <3>4. Len(w) \in Nat /\ \A k \in 1..Len(w) : w[k].seq \in Nat
      <4>1. w \in Seq(QueueMessage)
        BY <1>5
      <4> HIDE DEF w
      <4>2. \A k \in 1..Len(w) : w[k] \in QueueMessage
        BY <4>1
      <4> QED
        BY <4>1, <4>2 DEF QueueMessage
    <3> HIDE DEF w
    <3>5. \A k \in 2..Len(t.groups[g]) : k - 1 \in 1..Len(w) /\ t.groups[g][k] = w[k - 1]
      BY <3>2, <3>4
    <3>6. CASE i = 1
      BY <3>1, <3>2, <3>3, <3>4, <3>5, <3>6, <2>3
    <3>7. CASE i # 1
      <4>1. i - 1 \in 1..Len(w) /\ t.groups[g][i] = w[i - 1]
        BY <3>7, <3>5, <3>2, <3>4
      <4>2. ASSUME NEW j \in 1..Len(t.groups[g]), i < j
            PROVE  t.groups[g][i].seq < t.groups[g][j].seq
        <5>1. j - 1 \in 1..Len(w) /\ t.groups[g][j] = w[j - 1] /\ i - 1 < j - 1
          BY <4>2, <3>2, <3>4, <3>5
        <5> QED
          BY <5>1, <4>1, <2>3
      <4> QED
        BY <4>1, <4>2, <3>3, <2>3
    <3> QED
      BY <3>6, <3>7
  <2> QED
    BY <2>4, <2>5
<1> QED
  BY <1>4, <1>9, <1>10 DEF GroupInv

\* settle_transfers and the rejected hand-offs of try_receive_fifo.
LEMMA FinishRedriveInv ==
    ASSUME NEW s, NEW P, FifoTyped(s, P), GroupInv(s, P), NEW D, D \subseteq P,
           NEW R, R \subseteq {d.msg : d \in D}
    PROVE  LET t == FinishRedrive(s, {d.msg.group : d \in D}, R)
           IN  FifoTyped(t, P \ D) /\ GroupInv(t, P \ D)
<1> DEFINE G == {d.msg.group : d \in D}
           t == FinishRedrive(s, G, R)
<1>0. s \in FifoStorage /\ P \subseteq PendingEntry /\ IsFiniteSet(s.inFlight) /\ IsFiniteSet(P)
  BY DEF FifoTyped
<1>1. /\ t.groups = PushFront(s.groups, R) /\ t.blocked = s.blocked \ G
      /\ t.inFlight = s.inFlight /\ t.next = s.next
  BY <1>0 DEF FinishRedrive, FifoStorage
<1>2. s.inFlight \ D = s.inFlight
  BY DEF GroupInv, Blocking
<1>3. t.groups \in [Groups -> Seq(QueueMessage)] /\ GroupInv(t, P \ D)
  <2> HIDE DEF t
  <2> QED
    BY <1>1, <1>2, RestoreInv
<1>4. FifoTyped(t, P \ D)
  <2> DEFINE W == PushFront(s.groups, R)
             B == s.blocked \ G
  <2>1. t = [s EXCEPT !.blocked = B, !.groups = W]
    BY DEF FinishRedrive
  <2>2. W \in [Groups -> Seq(QueueMessage)] /\ B \in SUBSET Groups
    BY <1>0, <1>1, <1>3 DEF FifoStorage
  <2>3. t \in FifoStorage
    <3> HIDE DEF t, W, B
    <3> QED
      BY <1>0, <2>1, <2>2 DEF FifoStorage
  <2>4. IsFiniteSet(P \ D)
    BY <1>0, FS_Subset
  <2> QED
    BY <1>0, <1>1, <2>3, <2>4 DEF FifoTyped
<1> QED
  BY <1>3, <1>4

\* Deliveries whose visibility timeout has run out, and one made visible.
LEMMA FifoReturnInv ==
    ASSUME NEW s, NEW P, FifoTyped(s, P), GroupInv(s, P), NEW es, es \subseteq s.inFlight
    PROVE  FifoTyped(FifoReturn(s, es), P) /\ GroupInv(FifoReturn(s, es), P)
<1> DEFINE G == {e.msg.group : e \in es}
           R == {e.msg : e \in es}
           t == FifoReturn(s, es)
<1>0. s \in FifoStorage /\ P \subseteq PendingEntry /\ IsFiniteSet(s.inFlight) /\ IsFiniteSet(P)
  BY DEF FifoTyped
<1>1. Idle(s.inFlight \ es, G) = G
  BY DEF Idle, GroupInv, Blocking, OneEach
<1>2. /\ t.groups = PushFront(s.groups, R) /\ t.blocked = s.blocked \ G
      /\ t.inFlight = s.inFlight \ es /\ t.next = s.next
  BY <1>0, <1>1 DEF FifoReturn, FifoStorage
<1>3. P \ es = P
  BY DEF GroupInv, Blocking
<1>4. t.groups \in [Groups -> Seq(QueueMessage)] /\ GroupInv(t, P)
  <2>1. es \subseteq s.inFlight \cup P /\ R \subseteq {d.msg : d \in es}
    OBVIOUS
  <2> HIDE DEF t, R
  <2>2. t.groups \in [Groups -> Seq(QueueMessage)] /\ GroupInv(t, P \ es)
    BY <1>2, <2>1, RestoreInv
  <2> QED
    BY <1>3, <2>2
<1>5. t \in FifoStorage
  <2> DEFINE W == PushFront(s.groups, R)
             B == s.blocked \ Idle(s.inFlight \ es, G)
             I == s.inFlight \ es
  <2>1. t = [s EXCEPT !.inFlight = I, !.groups = W, !.blocked = B]
    BY DEF FifoReturn
  <2>2. W \in [Groups -> Seq(QueueMessage)] /\ B \in SUBSET Groups /\ I \in SUBSET InFlightMessage
    BY <1>0, <1>2, <1>4 DEF FifoStorage
  <2> HIDE DEF t, W, B, I
  <2> QED
    BY <1>0, <2>1, <2>2 DEF FifoStorage
<1>6. IsFiniteSet(t.inFlight)
  BY <1>0, <1>2, FS_Subset
<1> QED
  BY <1>0, <1>4, <1>5, <1>6 DEF FifoTyped

\* delete_message
LEMMA FifoDeleteInv ==
    ASSUME NEW s, NEW P, FifoTyped(s, P), GroupInv(s, P), NEW e \in s.inFlight
    PROVE  FifoTyped(FifoDelete(s, e), P) /\ GroupInv(FifoDelete(s, e), P)
<1> DEFINE t == FifoDelete(s, e)
           I == s.inFlight \ {e}
           B == s.blocked \ Idle(I, {e.msg.group})
<1>0. s \in FifoStorage /\ P \subseteq PendingEntry /\ IsFiniteSet(s.inFlight) /\ IsFiniteSet(P)
  BY DEF FifoTyped
<1>1. Idle(I, {e.msg.group}) = {d.msg.group : d \in {e}}
  BY DEF Idle, GroupInv, Blocking, OneEach
<1>2. t = [s EXCEPT !.inFlight = I, !.blocked = B]
  BY DEF FifoDelete
<1>3. t \in FifoStorage
  <2>1. B \in SUBSET Groups /\ I \in SUBSET InFlightMessage
    BY <1>0 DEF FifoStorage
  <2> HIDE DEF t, B, I
  <2> QED
    BY <1>0, <1>2, <2>1 DEF FifoStorage
<1>4. t.groups = s.groups /\ t.next = s.next /\ t.inFlight = I /\ t.blocked = B
  <2> HIDE DEF t, I, B
  <2> QED
    BY <1>0, <1>2 DEF FifoStorage
<1>5. PushFront(s.groups, {}) = s.groups
  BY <1>0 DEF PushFront, FifoStorage
<1>6. P \ {e} = P
  BY DEF GroupInv, Blocking
<1>7. GroupInv(t, P)
  <2>1. {e} \subseteq s.inFlight \cup P /\ {} \subseteq {d.msg : d \in {e}}
    OBVIOUS
  <2>2. t.blocked = s.blocked \ {d.msg.group : d \in {e}} /\ t.inFlight = s.inFlight \ {e}
        /\ t.groups = PushFront(s.groups, {})
    BY <1>1, <1>4, <1>5
  <2> HIDE DEF t
  <2>3. GroupInv(t, P \ {e})
    BY <1>4, <2>1, <2>2, RestoreInv
  <2> QED
    BY <1>6, <2>3
<1>8. IsFiniteSet(t.inFlight)
  BY <1>0, <1>4, FS_Subset
<1> QED
  BY <1>0, <1>3, <1>7, <1>8 DEF FifoTyped

\* The invariant sees only the messages of the entries: timers and replies may
\* change.
LEMMA SameMessagesInv ==
    ASSUME NEW s, NEW P, GroupInv(s, P), NEW t, NEW Q,
           t.groups = s.groups, t.blocked = s.blocked, t.next = s.next,
           OneEach(t.inFlight), OneEach(Q),
           {e.msg : e \in t.inFlight} = {e.msg : e \in s.inFlight},
           {p.msg : p \in Q} = {p.msg : p \in P}
    PROVE  GroupInv(t, Q)
<1>1. \A e \in t.inFlight : \E f \in s.inFlight : f.msg = e.msg
  <2>1. \A e \in t.inFlight : e.msg \in {f.msg : f \in s.inFlight}
    OBVIOUS
  <2> QED
    BY <2>1
<1>2. \A p \in Q : \E r \in P : r.msg = p.msg
  <2>1. \A p \in Q : p.msg \in {r.msg : r \in P}
    OBVIOUS
  <2> QED
    BY <2>1
<1>3. \A e \in s.inFlight : \E f \in t.inFlight : f.msg = e.msg
  <2>1. \A e \in s.inFlight : e.msg \in {f.msg : f \in t.inFlight}
    OBVIOUS
  <2> QED
    BY <2>1
<1>4. \A p \in P : \E r \in Q : r.msg = p.msg
  <2>1. \A p \in P : p.msg \in {r.msg : r \in Q}
    OBVIOUS
  <2> QED
    BY <2>1
<1>5. \A e \in t.inFlight \cup Q : \E f \in s.inFlight \cup P : f.msg = e.msg
  BY <1>1, <1>2
<1>6. \A e \in s.inFlight \cup P : \E f \in t.inFlight \cup Q : f.msg = e.msg
  BY <1>3, <1>4
<1>7. Blocking(t, Q)
  <2>1. \A e \in t.inFlight, p \in Q : e.msg.group # p.msg.group
    BY <1>1, <1>2 DEF GroupInv, Blocking
  <2>2. \A g \in Groups : g \in t.blocked <=> \E e \in t.inFlight \cup Q : e.msg.group = g
    <3>1. \A g \in Groups : g \in s.blocked <=> \E e \in s.inFlight \cup P : e.msg.group = g
      BY DEF GroupInv, Blocking
    <3> QED
      BY <3>1, <1>5, <1>6
  <2>3. \A e \in t.inFlight \cup Q : e.msg.group \in Groups
    <3>1. \A e \in s.inFlight \cup P : e.msg.group \in Groups
      BY DEF GroupInv, Blocking
    <3> QED
      BY <3>1, <1>5
  <2> QED
    BY <2>1, <2>2, <2>3 DEF Blocking
<1>8. Sorted(t, Q)
  <2>1. \A e \in t.inFlight \cup Q : e.msg.seq < t.next
    <3>1. \A e \in s.inFlight \cup P : e.msg.seq < s.next
      BY DEF GroupInv, Sorted
    <3> QED
      BY <3>1, <1>5
  <2>2. \A g \in Groups : \A i \in 1..Len(t.groups[g]) :
           \A e \in t.inFlight \cup Q : e.msg.group = g => e.msg.seq < t.groups[g][i].seq
    <3>1. \A g \in Groups : \A i \in 1..Len(s.groups[g]) :
             \A e \in s.inFlight \cup P : e.msg.group = g => e.msg.seq < s.groups[g][i].seq
      BY DEF GroupInv, Sorted
    <3> QED
      BY <3>1, <1>5
  <2> QED
    BY <2>1, <2>2 DEF GroupInv, Sorted
<1> QED
  BY <1>7, <1>8 DEF GroupInv

\* receive() takes the head of some groups that are not blocked.
LEMMA FifoReceiveInv ==
    ASSUME NEW s, NEW P, FifoTyped(s, P), GroupInv(s, P), NEW max
    PROVE  LET r == FifoReceive(s, max)
           IN  /\ FifoTyped(r.store, P \cup Taken(r.msgs))
               /\ GroupInv(r.store, P \cup Taken(r.msgs))
               /\ r.msgs \subseteq QueueMessage /\ IsFiniteSet(r.msgs)
               /\ \A m \in r.msgs : \A e \in s.inFlight \cup P : e.msg.group # m.group
<1> DEFINE open  == {g \in Groups \ s.blocked : s.groups[g] # <<>>}
           taken == {g \in open : Cardinality({h \in open : h < g}) < max}
           W == [g \in Groups |-> IF g \in taken THEN Tail(s.groups[g]) ELSE s.groups[g]]
           B == s.blocked \cup taken
           t == FifoReceive(s, max).store
           ms == FifoReceive(s, max).msgs
           Q == P \cup Taken(ms)
<1>0. s \in FifoStorage /\ P \subseteq PendingEntry /\ IsFiniteSet(s.inFlight) /\ IsFiniteSet(P)
  BY DEF FifoTyped
<1>1. t = [s EXCEPT !.groups = W, !.blocked = B] /\ ms = {Head(s.groups[g]) : g \in taken}
  BY DEF FifoReceive
<1>2. taken \subseteq Groups \ s.blocked /\ \A g \in taken : s.groups[g] # <<>>
  OBVIOUS
<1> HIDE DEF open, taken
<1>3. \A g \in Groups : s.groups[g] \in Seq(QueueMessage)
  BY <1>0 DEF FifoStorage
<1>4. \A g \in taken : /\ Head(s.groups[g]) = s.groups[g][1] /\ 1 \in 1..Len(s.groups[g])
                       /\ s.groups[g][1] \in QueueMessage
                       /\ Tail(s.groups[g]) \in Seq(QueueMessage)
                       /\ Len(Tail(s.groups[g])) = Len(s.groups[g]) - 1
                       /\ \A i \in 1..Len(Tail(s.groups[g])) :
                             i + 1 \in 1..Len(s.groups[g]) /\ Tail(s.groups[g])[i] = s.groups[g][i + 1]
  BY <1>2, <1>3
<1>5. \A g \in taken : s.groups[g][1].group = g
  BY <1>2, <1>4 DEF GroupInv, Sorted
<1>6. ms \subseteq QueueMessage /\ IsFiniteSet(ms)
  <2>1. ms \subseteq QueueMessage
    BY <1>1, <1>4
  <2>2. IsFiniteSet(taken)
    BY <1>2, FS_Subset, GroupsAssumption
  <2> DEFINE f == [g \in taken |-> Head(s.groups[g])]
  <2>3. IsFiniteSet({f[g] : g \in taken})
    <3>1. DOMAIN f = taken /\ f = [x \in taken |-> f[x]]
      OBVIOUS
    <3> HIDE DEF f
    <3> QED
      BY <2>2, <3>1, FiniteImage
  <2>4. {f[g] : g \in taken} = {Head(s.groups[g]) : g \in taken}
    OBVIOUS
  <2> QED
    BY <1>1, <2>1, <2>3, <2>4
<1>7. t \in FifoStorage
  <2>1. W \in [Groups -> Seq(QueueMessage)] /\ B \in SUBSET Groups
    BY <1>0, <1>2, <1>3, <1>4 DEF FifoStorage
  <2> HIDE DEF t, W, B
  <2> QED
    BY <1>0, <1>1, <2>1 DEF FifoStorage
<1>8. t.groups = W /\ t.blocked = B /\ t.inFlight = s.inFlight /\ t.next = s.next
  <2> HIDE DEF t, W, B
  <2> QED
    BY <1>0, <1>1 DEF FifoStorage
<1>9. Q \subseteq PendingEntry /\ IsFiniteSet(Q)
  <2>1. IsFiniteSet(Taken(ms))
    BY <1>6, TakenFinite
  <2>2. IsFiniteSet(Q)
    BY <2>1, <1>0, FS_Union
  <2> QED
    BY <2>2, <1>0, <1>6 DEF Taken, PendingEntry
<1>10. \A q \in Taken(ms) : \E g \in taken : q.msg = s.groups[g][1] /\ q.msg.group = g
                                             /\ q = [msg |-> s.groups[g][1], reply |-> "empty"]
  BY <1>1, <1>4, <1>5 DEF Taken
<1>11. \A g \in taken : [msg |-> s.groups[g][1], reply |-> "empty"] \in Taken(ms)
  BY <1>1, <1>4 DEF Taken
<1>12. \A e \in s.inFlight \cup P : e.msg.group \in s.blocked
  BY DEF GroupInv, Blocking
<1>13. \A q \in Taken(ms) : \A e \in s.inFlight \cup P : e.msg.group # q.msg.group
  BY <1>10, <1>12, <1>2
<1> HIDE DEF t, ms, W, B
<1>14. Blocking(t, Q)
  <2>1. OneEach(t.inFlight) /\ OneEach(Q)
    BY <1>8, <1>10, <1>13 DEF GroupInv, Blocking, OneEach
  <2>2. \A e \in t.inFlight, p \in Q : e.msg.group # p.msg.group
    BY <1>8, <1>13 DEF GroupInv, Blocking
  <2>3. \A g \in Groups : g \in s.blocked <=> \E e \in s.inFlight \cup P : e.msg.group = g
    BY DEF GroupInv, Blocking
  <2>4. \A g \in taken : \E e \in Taken(ms) : e.msg.group = g
    BY <1>5, <1>11
  <2>5. \A e \in Taken(ms) : e.msg.group \in taken
    BY <1>10
  <2>6. \A g \in Groups : g \in t.blocked <=> \E e \in t.inFlight \cup Q : e.msg.group = g
    BY <2>3, <2>4, <2>5, <1>8 DEF B
  <2>7. \A e \in t.inFlight \cup Q : e.msg.group \in Groups
    BY <1>8, <2>5, <1>2 DEF GroupInv, Blocking
  <2> QED
    BY <2>1, <2>2, <2>6, <2>7 DEF Blocking
<1>15. Sorted(t, Q)
  <2>1. /\ \A g \in Groups : \A i \in 1..Len(s.groups[g]) :
              s.groups[g][i].group = g /\ s.groups[g][i].seq < s.next
        /\ \A g \in Groups : \A i, j \in 1..Len(s.groups[g]) : i < j => s.groups[g][i].seq < s.groups[g][j].seq
        /\ \A g \in Groups : \A i \in 1..Len(s.groups[g]) :
              \A e \in s.inFlight \cup P : e.msg.group = g => e.msg.seq < s.groups[g][i].seq
        /\ \A e \in s.inFlight \cup P : e.msg.seq < s.next
    BY DEF GroupInv, Sorted
  <2>2. \A e \in t.inFlight \cup Q : e.msg.seq < t.next
    BY <2>1, <1>2, <1>4, <1>8, <1>10
  <2>3. SUFFICES ASSUME NEW g \in Groups, NEW i \in 1..Len(t.groups[g])
                 PROVE  /\ t.groups[g][i].group = g
                        /\ t.groups[g][i].seq < t.next
                        /\ \A j \in 1..Len(t.groups[g]) : i < j => t.groups[g][i].seq < t.groups[g][j].seq
                        /\ \A e \in t.inFlight \cup Q : e.msg.group = g => e.msg.seq < t.groups[g][i].seq
    BY <2>2 DEF Sorted
  <2>4. CASE g \notin taken
    <3>1. t.groups[g] = s.groups[g]
      BY <2>4, <1>8 DEF W
    <3>2. \A e \in Taken(ms) : e.msg.group # g
      BY <2>4, <1>10
    <3> QED
      BY <3>1, <3>2, <2>1, <1>8
  <2>5. CASE g \in taken
    <3> DEFINE w == s.groups[g]
    <3>1. t.groups[g] = Tail(w)
      BY <2>5, <1>8 DEF W
    <3>2. i + 1 \in 1..Len(w) /\ t.groups[g][i] = w[i + 1] /\ 1 \in 1..Len(w)
      BY <3>1, <2>5, <1>4
    <3>3. \A j \in 1..Len(t.groups[g]) : j + 1 \in 1..Len(w) /\ t.groups[g][j] = w[j + 1]
      BY <3>1, <2>5, <1>4
    <3>4. \A e \in t.inFlight \cup Q : e.msg.group = g => e.msg = w[1]
      BY <2>5, <1>2, <1>8, <1>10, <1>12
    <3>5. Len(t.groups[g]) \in Nat /\ i \in Nat
      <4>1. t.groups[g] \in Seq(QueueMessage)
        BY <1>7 DEF FifoStorage
      <4> QED
        BY <4>1
    <3>6. \A j \in 1..Len(t.groups[g]) : i < j => t.groups[g][i].seq < t.groups[g][j].seq
      <4>1. \A j \in 1..Len(t.groups[g]) : i < j => i + 1 < j + 1
        BY <3>5
      <4> QED
        BY <4>1, <3>2, <3>3, <2>1
    <3>7. w[1].seq < w[i + 1].seq
      <4>1. 1 < i + 1
        BY <3>5
      <4> QED
        BY <4>1, <3>2, <2>1
    <3> QED
      BY <3>2, <3>4, <3>6, <3>7, <2>1, <1>8
  <2> QED
    BY <2>4, <2>5
<1>16. \A m \in ms : \A e \in s.inFlight \cup P : e.msg.group # m.group
  <2>1. \A m \in ms : [msg |-> m, reply |-> "empty"] \in Taken(ms)
    BY DEF Taken
  <2> QED
    BY <2>1, <1>13
<1>17. FifoTyped(t, Q)
  BY <1>0, <1>7, <1>8, <1>9 DEF FifoTyped
<1>18. GroupInv(t, Q)
  BY <1>14, <1>15 DEF GroupInv
<1> QED
  BY <1>6, <1>16, <1>17, <1>18 DEF t, ms

\* A delivery counts, and keeps everything else of the message.
LEMMA DeliveredType ==
    ASSUME NEW m \in QueueMessage
    PROVE  /\ Delivered(m) \in QueueMessage
           /\ Delivered(m).group = m.group /\ Delivered(m).seq = m.seq
<1>1. (IF m.count < CountCap THEN m.count + 1 ELSE CountCap) \in 0..CountCap
  BY BoundsAssumption DEF QueueMessage
<1> QED
  BY <1>1 DEF Delivered, QueueMessage

\* mark_in_flight: messages that were taken become deliveries.
LEMMA MarkInFlightInv ==
    ASSUME NEW s, NEW P, NEW ms, NEW vis \in Nat, ms \subseteq QueueMessage, IsFiniteSet(ms),
           FifoTyped(s, P \cup Taken(ms)), GroupInv(s, P \cup Taken(ms)),
           \A m \in ms : \A p \in P : p.msg.group # m.group
    PROVE  FifoTyped(MarkInFlight(s, ms, vis), P) /\ GroupInv(MarkInFlight(s, ms, vis), P)
<1> DEFINE A == {[msg |-> Delivered(m), left |-> vis] : m \in ms}
           I == s.inFlight \cup A
           t == MarkInFlight(s, ms, vis)
           Q == P \cup Taken(ms)
<1>0. s \in FifoStorage /\ Q \subseteq PendingEntry /\ IsFiniteSet(s.inFlight) /\ IsFiniteSet(Q)
  BY DEF FifoTyped
<1>1. t = [s EXCEPT !.inFlight = I]
  BY DEF MarkInFlight
<1>2. A \subseteq InFlightMessage
  BY DeliveredType DEF InFlightMessage
<1>3. t \in FifoStorage
  <2>1. I \in SUBSET InFlightMessage
    BY <1>0, <1>2 DEF FifoStorage
  <2> HIDE DEF t, I
  <2> QED
    BY <1>0, <1>1, <2>1 DEF FifoStorage
<1>4. t.groups = s.groups /\ t.blocked = s.blocked /\ t.next = s.next /\ t.inFlight = I
  <2> HIDE DEF t, I
  <2> QED
    BY <1>0, <1>1 DEF FifoStorage
<1>5. IsFiniteSet(A)
  <2> DEFINE f == [m \in ms |-> [msg |-> Delivered(m), left |-> vis]]
  <2>1. DOMAIN f = ms /\ f = [x \in ms |-> f[x]] /\ {f[x] : x \in ms} = A
    OBVIOUS
  <2> HIDE DEF f
  <2> QED
    BY <2>1, FiniteImage
<1>6. FifoTyped(t, P)
  <2>1. IsFiniteSet(I)
    BY <1>0, <1>5, FS_Union
  <2>2. IsFiniteSet(P)
    <3>1. P \in SUBSET Q
      OBVIOUS
    <3> HIDE DEF Q
    <3> QED
      BY <3>1, <1>0, FS_Subset
  <2> QED
    BY <1>0, <1>3, <1>4, <2>1, <2>2 DEF FifoTyped
<1>7. \A e \in A : \E m \in ms : e.msg.group = m.group /\ e.msg.seq = m.seq
                                 /\ e = [msg |-> Delivered(m), left |-> vis]
  BY DeliveredType
<1>8. \A m \in ms : \E e \in A : e.msg.group = m.group /\ e.msg.seq = m.seq
  <2>1. \A m \in ms : [msg |-> Delivered(m), left |-> vis] \in A
                     /\ [msg |-> Delivered(m), left |-> vis].msg = Delivered(m)
    OBVIOUS
  <2> HIDE DEF A
  <2> QED
    BY <2>1, DeliveredType
<1>9. \A m \in ms : \E q \in Taken(ms) : q.msg = m
  BY TakenMessages
<1>10. \A q \in Taken(ms) : q.msg \in ms
  BY TakenMessages
<1> HIDE DEF t, A
<1>11. \A e \in I \cup P : \E f \in s.inFlight \cup Q : f.msg.group = e.msg.group /\ f.msg.seq = e.msg.seq
  BY <1>7, <1>9
<1>12. \A f \in s.inFlight \cup Q : \E e \in I \cup P : e.msg.group = f.msg.group
  BY <1>8, <1>10
<1>13. Blocking(t, P)
  <2>1. \A e \in A : \A f \in s.inFlight \cup P : e.msg.group # f.msg.group
    BY <1>7, <1>9 DEF GroupInv, Blocking
  <2>2. OneEach(A)
    BY <1>7, <1>9 DEF GroupInv, Blocking, OneEach
  <2>3. OneEach(I) /\ OneEach(P)
    BY <2>1, <2>2 DEF GroupInv, Blocking, OneEach
  <2>4. \A e \in I, p \in P : e.msg.group # p.msg.group
    BY <2>1 DEF GroupInv, Blocking
  <2>5. \A g \in Groups : g \in s.blocked <=> \E e \in s.inFlight \cup Q : e.msg.group = g
    BY DEF GroupInv, Blocking
  <2>6. \A e \in s.inFlight \cup Q : e.msg.group \in Groups
    BY DEF GroupInv, Blocking
  <2>7. \A g \in Groups : g \in t.blocked <=> \E e \in I \cup P : e.msg.group = g
    BY <2>5, <1>4, <1>11, <1>12
  <2>8. \A e \in I \cup P : e.msg.group \in Groups
    BY <2>6, <1>11
  <2> QED
    BY <2>3, <2>4, <2>7, <2>8, <1>4 DEF Blocking
<1>14. Sorted(t, P)
  <2>1. /\ \A g \in Groups : \A i \in 1..Len(s.groups[g]) :
              \A e \in s.inFlight \cup Q : e.msg.group = g => e.msg.seq < s.groups[g][i].seq
        /\ \A e \in s.inFlight \cup Q : e.msg.seq < s.next
    BY DEF GroupInv, Sorted
  <2>2. /\ \A g \in Groups : \A i \in 1..Len(s.groups[g]) :
              \A e \in I \cup P : e.msg.group = g => e.msg.seq < s.groups[g][i].seq
        /\ \A e \in I \cup P : e.msg.seq < s.next
    BY <2>1, <1>11
  <2> QED
    BY <2>2, <1>4 DEF GroupInv, Sorted
<1> QED
  BY <1>6, <1>13, <1>14 DEF GroupInv, t

\* try_receive_fifo: of the messages it takes, the good ones become deliveries,
\* some poison ones become pending transfers, the others go back.
LEMMA TryReceiveFifoInv ==
    ASSUME NEW s, NEW P, FifoTyped(s, P), GroupInv(s, P), NEW max, NEW vis \in Nat, NEW limit,
           NEW r \in TryReceiveFifo(s, max, vis, limit)
    PROVE  /\ FifoTyped(r.store, P \cup Taken(r.handed))
           /\ GroupInv(r.store, P \cup Taken(r.handed))
           /\ r.handed \subseteq QueueMessage /\ IsFiniteSet(r.handed)
<1> DEFINE c == FifoReceive(s, max)
           poison == {m \in c.msgs : m.count >= limit}
<1>1. PICK h \in SUBSET poison :
         r = [store  |-> MarkInFlight(FinishRedrive(c.store, {m.group : m \in poison \ h}, poison \ h),
                                      c.msgs \ poison, vis),
              out    |-> c.msgs \ poison,
              handed |-> h]
  BY DEF TryReceiveFifo
<1> DEFINE back == poison \ h
           good == c.msgs \ poison
           u == FinishRedrive(c.store, {m.group : m \in back}, back)
           All == P \cup Taken(c.msgs)
           Left == P \cup Taken(h) \cup Taken(good)
<1>2. /\ FifoTyped(c.store, All) /\ GroupInv(c.store, All)
      /\ c.msgs \subseteq QueueMessage /\ IsFiniteSet(c.msgs)
      /\ \A m \in c.msgs : \A e \in s.inFlight \cup P : e.msg.group # m.group
  BY FifoReceiveInv
<1> HIDE DEF c
<1>3. r.store = MarkInFlight(u, good, vis) /\ r.handed = h
  BY <1>1
<1>4. /\ h \subseteq QueueMessage /\ IsFiniteSet(h)
      /\ good \subseteq QueueMessage /\ IsFiniteSet(good)
  BY <1>2, FS_Subset
<1>5. All \ Taken(back) = Left
  <2>1. \A m \in back : [msg |-> m, reply |-> "empty"] \notin P
    BY <1>2
  <2>2. \A m \in h \cup good : m \notin back
    OBVIOUS
  <2>3. c.msgs = h \cup good \cup back
    OBVIOUS
  <2> HIDE DEF back, good, poison
  <2> QED
    BY <2>1, <2>2, <2>3 DEF Taken
<1>6. FifoTyped(u, Left) /\ GroupInv(u, Left)
  <2>1. Taken(back) \subseteq All
    BY DEF Taken
  <2>a. back \subseteq {d.msg : d \in Taken(back)}
    BY TakenMessages
  <2>2. {d.msg.group : d \in Taken(back)} = {m.group : m \in back}
    <3> HIDE DEF back
    <3> QED
      BY TakenMessages
  <2> HIDE DEF back, All, Left
  <2>3. LET t == FinishRedrive(c.store, {d.msg.group : d \in Taken(back)}, back)
        IN  FifoTyped(t, All \ Taken(back)) /\ GroupInv(t, All \ Taken(back))
    BY <1>2, <2>1, <2>a, FinishRedriveInv
  <2> QED
    BY <2>2, <2>3, <1>5
<1>7. \A m \in good : \A p \in P \cup Taken(h) : p.msg.group # m.group
  <2>1. \A m \in good : \A p \in P : p.msg.group # m.group
    BY <1>2
  <2>2. ASSUME NEW m \in good, NEW p \in Taken(h), p.msg.group = m.group
        PROVE  FALSE
    <3>1. [msg |-> m, reply |-> "empty"] \in All /\ p \in All
      BY DEF Taken
    <3>2. p = [msg |-> m, reply |-> "empty"]
      BY <3>1, <2>2, <1>2 DEF GroupInv, Blocking, OneEach
    <3>3. m \in h
      BY <3>2 DEF Taken
    <3> QED
      BY <3>3
  <2> QED
    BY <2>1, <2>2
<1> HIDE DEF u, good, poison
<1>8. Left = (P \cup Taken(h)) \cup Taken(good)
  OBVIOUS
<1>9. FifoTyped(MarkInFlight(u, good, vis), P \cup Taken(h))
      /\ GroupInv(MarkInFlight(u, good, vis), P \cup Taken(h))
  <2> HIDE DEF Left
  <2> QED
    BY <1>4, <1>6, <1>7, <1>8, MarkInFlightInv
<1> QED
  BY <1>3, <1>4, <1>9

\* Finitely many timers, and their types.
LEMMA AgedFacts ==
    ASSUME NEW S, IsFiniteSet(S)
    PROVE  /\ IsFiniteSet(Aged(S))
           /\ S \subseteq InFlightMessage =>
                 /\ Aged(S) \subseteq InFlightMessage
                 /\ \A e \in Aged(S) : \E f \in S : e = [msg |-> f.msg, left |-> Elapsed(f.left)] /\ e.msg = f.msg
                 /\ \A f \in S : \E e \in Aged(S) : e.msg = f.msg
                 /\ {e.msg : e \in Aged(S)} = {e.msg : e \in S}
<1> DEFINE f == [x \in S |-> [x EXCEPT !.left = Elapsed(x.left)]]
<1>1. IsFiniteSet(Aged(S))
  <2>1. DOMAIN f = S /\ f = [x \in S |-> f[x]] /\ {f[x] : x \in S} = Aged(S)
    BY DEF Aged
  <2> HIDE DEF f
  <2> QED
    BY <2>1, FiniteImage
<1>2. ASSUME S \subseteq InFlightMessage
      PROVE  /\ Aged(S) \subseteq InFlightMessage
             /\ \A e \in Aged(S) : \E x \in S : e = [msg |-> x.msg, left |-> Elapsed(x.left)] /\ e.msg = x.msg
             /\ \A x \in S : \E e \in Aged(S) : e.msg = x.msg
             /\ {e.msg : e \in Aged(S)} = {e.msg : e \in S}
  <2>1. \A x \in S : f[x] = [msg |-> x.msg, left |-> Elapsed(x.left)] /\ f[x].msg = x.msg
                     /\ f[x] \in InFlightMessage
    BY <1>2 DEF InFlightMessage, Elapsed
  <2>2. Aged(S) = {f[x] : x \in S}
    BY DEF Aged
  <2> HIDE DEF f
  <2>3. \A e \in Aged(S) : \E x \in S : e = [msg |-> x.msg, left |-> Elapsed(x.left)] /\ e.msg = x.msg
    BY <2>1, <2>2
  <2>4. \A x \in S : \E e \in Aged(S) : e.msg = x.msg
    BY <2>1, <2>2
  <2>5. {e.msg : e \in Aged(S)} = {e.msg : e \in S}
    BY <2>3, <2>4
  <2>6. Aged(S) \subseteq InFlightMessage
    BY <2>1, <2>2
  <2> QED
    BY <2>3, <2>4, <2>5, <2>6
<1> QED
  BY <1>1, <1>2

\* Time goes by.
LEMMA FifoAgedInv ==
    ASSUME NEW s, NEW P, FifoTyped(s, P), GroupInv(s, P)
    PROVE  LET t == [s EXCEPT !.inFlight = Aged(s.inFlight), !.dedup = Aged(s.dedup)]
           IN  FifoTyped(t, P) /\ GroupInv(t, P)
<1> DEFINE I == Aged(s.inFlight)
           X == Aged(s.dedup)
           t == [s EXCEPT !.inFlight = I, !.dedup = X]
<1>0. s \in FifoStorage /\ P \subseteq PendingEntry /\ IsFiniteSet(s.inFlight) /\ IsFiniteSet(P)
  BY DEF FifoTyped
<1>1. s.inFlight \subseteq InFlightMessage /\ s.dedup \subseteq DedupEntry
  BY <1>0 DEF FifoStorage
<1>2. /\ IsFiniteSet(I) /\ I \subseteq InFlightMessage
      /\ \A e \in I : \E f \in s.inFlight : e = [msg |-> f.msg, left |-> Elapsed(f.left)] /\ e.msg = f.msg
      /\ {e.msg : e \in I} = {e.msg : e \in s.inFlight}
  BY <1>0, <1>1, AgedFacts
<1>3. X \subseteq DedupEntry
  BY <1>1 DEF Aged, DedupEntry, Elapsed
<1>4. t \in FifoStorage
  <2> HIDE DEF I, X
  <2> QED
    BY <1>0, <1>2, <1>3 DEF FifoStorage
<1>5. t.groups = s.groups /\ t.blocked = s.blocked /\ t.next = s.next /\ t.inFlight = I
  <2> HIDE DEF I, X
  <2> QED
    BY <1>0 DEF FifoStorage
<1>6. OneEach(I) /\ OneEach(P)
  <2> HIDE DEF I
  <2> QED
    BY <1>2 DEF GroupInv, Blocking, OneEach
<1> HIDE DEF t, I
<1>7. GroupInv(t, P)
  BY <1>2, <1>5, <1>6, SameMessagesInv
<1>8. FifoTyped(t, P)
  BY <1>0, <1>2, <1>4, <1>5 DEF FifoTyped
<1> QED
  BY <1>7, <1>8 DEF t, I

\* change_visibility
LEMMA FifoChangeVisibilityInv ==
    ASSUME NEW s, NEW P, FifoTyped(s, P), GroupInv(s, P), NEW e \in s.inFlight, NEW vis \in Nat
    PROVE  LET t == FifoChangeVisibility(s, e, vis)
           IN  FifoTyped(t, P) /\ GroupInv(t, P)
<1>1. CASE vis = 0
  <2>1. {e} \subseteq s.inFlight
    OBVIOUS
  <2> QED
    BY <2>1, <1>1, FifoReturnInv DEF FifoChangeVisibility
<1>2. CASE vis # 0
  <2> DEFINE x == [e EXCEPT !.left = vis]
             I == (s.inFlight \ {e}) \cup {x}
             t == FifoChangeVisibility(s, e, vis)
  <2>0. s \in FifoStorage /\ P \subseteq PendingEntry /\ IsFiniteSet(s.inFlight) /\ IsFiniteSet(P)
    BY DEF FifoTyped
  <2>1. t = [s EXCEPT !.inFlight = I]
    BY <1>2 DEF FifoChangeVisibility
  <2>2. x \in InFlightMessage /\ x.msg = e.msg
    BY <2>0 DEF FifoStorage, InFlightMessage
  <2> HIDE DEF x
  <2>3. I \in SUBSET InFlightMessage /\ IsFiniteSet(I)
    <3>1. IsFiniteSet(s.inFlight \ {e})
      BY <2>0, FS_Subset
    <3>2. IsFiniteSet((s.inFlight \ {e}) \cup {x})
      BY <3>1, FS_AddElement
    <3> QED
      BY <3>2, <2>0, <2>2 DEF FifoStorage
  <2>4. OneEach(I) /\ OneEach(P) /\ {f.msg : f \in I} = {f.msg : f \in s.inFlight}
    BY <2>2 DEF GroupInv, Blocking, OneEach
  <2> HIDE DEF t, I
  <2>5. t \in FifoStorage
    BY <2>0, <2>1, <2>3 DEF FifoStorage
  <2>6. t.groups = s.groups /\ t.blocked = s.blocked /\ t.next = s.next /\ t.inFlight = I
    BY <2>0, <2>1 DEF FifoStorage
  <2>7. GroupInv(t, P)
    BY <2>4, <2>6, SameMessagesInv
  <2>8. FifoTyped(t, P)
    BY <2>0, <2>3, <2>5, <2>6 DEF FifoTyped
  <2> QED
    BY <2>7, <2>8 DEF t
<1> QED
  BY <1>1, <1>2

\* clean_dedup_cache
LEMMA CleanDedupInv ==
    ASSUME NEW s, NEW P, FifoTyped(s, P), GroupInv(s, P)
    PROVE  FifoTyped(CleanDedupCache(s), P) /\ GroupInv(CleanDedupCache(s), P)
<1> DEFINE X == s.dedup \ Due(s.dedup)
           t == CleanDedupCache(s)
<1>0. s \in FifoStorage /\ P \subseteq PendingEntry /\ IsFiniteSet(s.inFlight) /\ IsFiniteSet(P)
  BY DEF FifoTyped
<1>1. t = [s EXCEPT !.dedup = X]
  BY DEF CleanDedupCache
<1>2. X \in SUBSET DedupEntry
  BY <1>0 DEF FifoStorage
<1> HIDE DEF X, t
<1>3. t \in FifoStorage
  BY <1>0, <1>1, <1>2 DEF FifoStorage
<1>4. t.groups = s.groups /\ t.blocked = s.blocked /\ t.next = s.next /\ t.inFlight = s.inFlight
  BY <1>0, <1>1 DEF FifoStorage
<1>5. GroupInv(t, P)
  <2>1. OneEach(s.inFlight) /\ OneEach(P)
    BY DEF GroupInv, Blocking
  <2> QED
    BY <2>1, <1>4, SameMessagesInv
<1> QED
  BY <1>0, <1>3, <1>4, <1>5 DEF FifoTyped, t

\* A queue that is new, or whose actor has ended.
LEMMA FifoInitInv ==
    FifoTyped(FifoInit, {}) /\ GroupInv(FifoInit, {})
<1>1. FifoInit \in FifoStorage
  <2>1. [g \in Groups |-> <<>>] \in [Groups -> Seq(QueueMessage)]
    OBVIOUS
  <2> QED
    BY <2>1 DEF FifoInit, FifoStorage
<1>2. /\ FifoInit.inFlight = {} /\ FifoInit.blocked = {}
      /\ \A g \in Groups : FifoInit.groups[g] = <<>>
  BY DEF FifoInit
<1>3. \A g \in Groups : Len(FifoInit.groups[g]) = 0
  BY <1>2
<1>4. FifoTyped(FifoInit, {})
  BY <1>1, <1>2, FS_EmptySet DEF FifoTyped
<1>5. Blocking(FifoInit, {})
  BY <1>2 DEF Blocking, OneEach
<1>6. Sorted(FifoInit, {})
  BY <1>2, <1>3 DEF Sorted
<1> QED
  BY <1>4, <1>5, <1>6 DEF GroupInv

\* purge forgets the messages and keeps deduplication and sequence numbers.
LEMMA FifoPurgeInv ==
    ASSUME NEW s, s \in FifoStorage
    PROVE  FifoTyped(FifoPurge(s), {}) /\ GroupInv(FifoPurge(s), {})
<1> DEFINE t == FifoPurge(s)
           W == [g \in Groups |-> <<>>]
<1>1. t = [s EXCEPT !.groups = W, !.blocked = {}, !.inFlight = {}]
  BY DEF FifoPurge
<1>2. W \in [Groups -> Seq(QueueMessage)] /\ \A g \in Groups : W[g] = <<>>
  OBVIOUS
<1> HIDE DEF t, W
<1>3. t \in FifoStorage
  BY <1>1, <1>2 DEF FifoStorage
<1>4. t.groups = W /\ t.blocked = {} /\ t.inFlight = {}
  BY <1>1 DEF FifoStorage
<1>5. \A g \in Groups : Len(t.groups[g]) = 0
  BY <1>2, <1>4
<1>6. FifoTyped(t, {})
  BY <1>3, <1>4, FS_EmptySet DEF FifoTyped
<1>7. Blocking(t, {})
  BY <1>4 DEF Blocking, OneEach
<1>8. Sorted(t, {})
  BY <1>4, <1>5 DEF Sorted
<1> QED
  BY <1>6, <1>7, <1>8 DEF GroupInv, t

-----------------------------------------------------------------------------
(***************************************************************************)
(* Standard storages: their operations keep the type.                      *)
(***************************************************************************)
StandardTyped(s) == s \in StandardStorage /\ IsFiniteSet(s.delayed) /\ IsFiniteSet(s.inFlight)

\* Any order of the messages of a finite set of entries is a sequence.
LEMMA SomeOrderType ==
    ASSUME NEW S, IsFiniteSet(S), \A e \in S : e.msg \in QueueMessage,
           NEW ms \in MessagesInSomeOrder(S)
    PROVE  ms \in Seq(QueueMessage)
<1>1. PICK f \in SetToSeqs(S) : ms = [i \in DOMAIN f |-> f[i].msg]
  BY DEF MessagesInSomeOrder
<1>2. f \in Seq(S)
  BY OrderingsType
<1>3. DOMAIN f = 1..Len(f) /\ Len(f) \in Nat /\ \A i \in 1..Len(f) : f[i] \in S
  BY <1>2
<1>4. ms \in [1..Len(f) -> QueueMessage]
  BY <1>1, <1>3
<1> QED
  BY <1>3, <1>4

\* What is kept of a sequence is a sequence.
LEMMA KeptPositionsType ==
    ASSUME NEW X, NEW s \in Seq(X), NEW I, I \subseteq DOMAIN s, NEW r \in KeptPositions(s, I)
    PROVE  r \in Seq(X)
<1>1. PICK f \in SetToSeqs(I) : r = [i \in DOMAIN f |-> s[f[i]]]
  BY DEF KeptPositions
<1>2. IsFiniteSet(I)
  <2>1. IsFiniteSet(1..Len(s)) /\ DOMAIN s = 1..Len(s)
    BY FS_Interval
  <2> QED
    BY <2>1, FS_Subset
<1>3. f \in Seq(I)
  BY <1>2, OrderingsType
<1>4. DOMAIN f = 1..Len(f) /\ Len(f) \in Nat /\ \A i \in 1..Len(f) : f[i] \in DOMAIN s
  BY <1>3
<1>5. r \in [1..Len(f) -> X]
  BY <1>1, <1>4
<1> QED
  BY <1>4, <1>5

\* return_expired followed by promote_delayed.
LEMMA StandardRefreshType ==
    ASSUME NEW s, StandardTyped(s), NEW t \in StandardRefresh(s)
    PROVE  StandardTyped(t)
<1>1. PICK r \in StandardReturnExpired(s) : t \in PromoteDelayed(r)
  BY DEF StandardRefresh
<1>2. PICK ms \in MessagesInSomeOrder(Due(s.inFlight)) :
         r = [s EXCEPT !.available = s.available \o ms, !.inFlight = s.inFlight \ Due(s.inFlight)]
  BY <1>1 DEF StandardReturnExpired
<1>3. PICK ns \in MessagesInSomeOrder(Due(r.delayed)) :
         t = [r EXCEPT !.available = r.available \o ns, !.delayed = r.delayed \ Due(r.delayed)]
  BY <1>1 DEF PromoteDelayed
<1>4. s \in StandardStorage /\ IsFiniteSet(s.delayed) /\ IsFiniteSet(s.inFlight)
  BY DEF StandardTyped
<1>5. \A S \in SUBSET InFlightMessage : IsFiniteSet(S) =>
        IsFiniteSet(Due(S)) /\ IsFiniteSet(S \ Due(S)) /\ \A e \in Due(S) : e.msg \in QueueMessage
  <2>1. \A S : Due(S) \subseteq S
    BY DEF Due
  <2> QED
    BY <2>1, FS_Subset DEF InFlightMessage
<1>6. ms \in Seq(QueueMessage)
  BY <1>4, <1>5, SomeOrderType DEF StandardStorage
<1>7. r \in StandardStorage /\ IsFiniteSet(r.delayed) /\ IsFiniteSet(r.inFlight)
  <2> DEFINE A == s.available \o ms
             I == s.inFlight \ Due(s.inFlight)
  <2>1. A \in Seq(QueueMessage) /\ I \in SUBSET InFlightMessage /\ IsFiniteSet(I)
    BY <1>4, <1>5, <1>6 DEF StandardStorage
  <2> HIDE DEF A, I
  <2>2. r = [s EXCEPT !.available = A, !.inFlight = I]
    BY <1>2 DEF A, I
  <2>3. r.delayed = s.delayed /\ r.inFlight = I /\ r \in StandardStorage
    BY <1>4, <2>1, <2>2 DEF StandardStorage
  <2> QED
    BY <1>4, <2>1, <2>3
<1>8. ns \in Seq(QueueMessage)
  BY <1>5, <1>7, SomeOrderType DEF StandardStorage
<1>9. t \in StandardStorage /\ IsFiniteSet(t.delayed) /\ IsFiniteSet(t.inFlight)
  <2> DEFINE A == r.available \o ns
             I == r.delayed \ Due(r.delayed)
  <2>1. A \in Seq(QueueMessage) /\ I \in SUBSET InFlightMessage /\ IsFiniteSet(I)
    BY <1>5, <1>7, <1>8 DEF StandardStorage
  <2> HIDE DEF A, I
  <2>2. t = [r EXCEPT !.available = A, !.delayed = I]
    BY <1>3 DEF A, I
  <2>3. t.inFlight = r.inFlight /\ t.delayed = I /\ t \in StandardStorage
    BY <1>7, <2>1, <2>2 DEF StandardStorage
  <2> QED
    BY <1>7, <2>1, <2>3
<1> QED
  BY <1>9 DEF StandardTyped

\* try_receive_standard.
LEMMA TryReceiveStandardType ==
    ASSUME NEW s, StandardTyped(s), NEW max, NEW vis \in Nat, NEW limit,
           NEW r \in TryReceiveStandard(s, max, vis, limit)
    PROVE  StandardTyped(r.store) /\ r.handed \subseteq QueueMessage /\ IsFiniteSet(r.handed)
<1> DEFINE a       == s.available
           budget  == IF Len(a) < ScanBudget THEN Len(a) ELSE ScanBudget
           poison  == {i \in 1..budget : a[i].count >= limit}
           scanned == {i \in 1..budget : Cardinality((1..(i - 1)) \ poison) < max}
           good    == scanned \ poison
           rest    == SubSeq(a, Cardinality(scanned) + 1, Len(a))
           new     == {[msg |-> Delivered(a[i]), left |-> vis] : i \in good}
<1>0. s \in StandardStorage /\ IsFiniteSet(s.delayed) /\ IsFiniteSet(s.inFlight)
  BY DEF StandardTyped
<1> DEFINE Result(h, back) ==
             [store  |-> [s EXCEPT !.available = rest \o back, !.inFlight = s.inFlight \cup new],
              out    |-> {a[i] : i \in good},
              handed |-> {a[i] : i \in h}]
<1>1. TryReceiveStandard(s, max, vis, limit) =
        UNION {{Result(h, back) : back \in KeptPositions(a, (scanned \cap poison) \ h)} :
                h \in SUBSET (scanned \cap poison)}
  BY DEF TryReceiveStandard
<1>2. PICK h \in SUBSET (scanned \cap poison) :
        \E back \in KeptPositions(a, (scanned \cap poison) \ h) : r = Result(h, back)
  <2> HIDE DEF a, scanned, poison, Result
  <2> QED
    BY <1>1
<1>b. PICK back \in KeptPositions(a, (scanned \cap poison) \ h) : r = Result(h, back)
  BY <1>2
<1>3. a \in Seq(QueueMessage)
  BY <1>0 DEF StandardStorage
<1>4. budget \in Nat /\ budget <= Len(a) /\ 1..budget \subseteq 1..Len(a) /\ DOMAIN a = 1..Len(a)
  <2> HIDE DEF a
  <2>1. Len(a) \in Nat
    BY <1>3
  <2> QED
    BY <2>1, <1>3, BoundsAssumption
<1>5. scanned \subseteq 1..budget /\ h \subseteq scanned /\ good \subseteq scanned
      /\ (scanned \cap poison) \ h \subseteq scanned
  OBVIOUS
<1> HIDE DEF a, budget, poison, scanned, good
<1>6. IsFiniteSet(1..budget) /\ IsFiniteSet(scanned) /\ IsFiniteSet(h) /\ IsFiniteSet(good)
  <2>1. IsFiniteSet(1..budget)
    BY <1>4, FS_Interval
  <2>2. IsFiniteSet(scanned)
    BY <2>1, <1>5, FS_Subset
  <2> QED
    BY <2>1, <2>2, <1>5, FS_Subset
<1>7. rest \in Seq(QueueMessage)
  <2>1. Cardinality(scanned) \in Nat
    BY <1>6, FS_CardinalityType
  <2> QED
    BY <2>1, <1>3
<1>8. back \in Seq(QueueMessage)
  <2>1. (scanned \cap poison) \ h \subseteq DOMAIN a
    BY <1>4, <1>5
  <2> QED
    BY <2>1, <1>3, KeptPositionsType
<1>9. \A i \in scanned : a[i] \in QueueMessage
  BY <1>3, <1>4, <1>5
<1>10. new \subseteq InFlightMessage /\ IsFiniteSet(new)
  <2>1. new \subseteq InFlightMessage
    BY <1>5, <1>9, DeliveredType DEF InFlightMessage
  <2> DEFINE f == [i \in good |-> [msg |-> Delivered(a[i]), left |-> vis]]
  <2>2. DOMAIN f = good /\ f = [x \in good |-> f[x]] /\ {f[x] : x \in good} = new
    OBVIOUS
  <2> HIDE DEF f, new
  <2> QED
    BY <2>1, <2>2, <1>6, FiniteImage
<1>11. r.handed \subseteq QueueMessage /\ IsFiniteSet(r.handed)
  <2>1. r.handed = {a[i] : i \in h}
    BY <1>b
  <2> DEFINE f == [i \in h |-> a[i]]
  <2>2. DOMAIN f = h /\ f = [x \in h |-> f[x]] /\ {f[x] : x \in h} = {a[i] : i \in h}
    OBVIOUS
  <2> HIDE DEF f
  <2> QED
    <3>1. IsFiniteSet(r.handed)
      BY <2>1, <2>2, <1>6, FiniteImage
    <3>2. r.handed \subseteq QueueMessage
      BY <2>1, <1>5, <1>9
    <3> QED
      BY <3>1, <3>2
<1>12. StandardTyped(r.store)
  <2> DEFINE A == rest \o back
             I == s.inFlight \cup new
             t == [s EXCEPT !.available = A, !.inFlight = I]
  <2>1. A \in Seq(QueueMessage) /\ I \in SUBSET InFlightMessage /\ IsFiniteSet(I)
    <3>1. A \in Seq(QueueMessage)
      <4> HIDE DEF rest
      <4> QED
        BY <1>7, <1>8
    <3>2. I \in SUBSET InFlightMessage
      BY <1>0, <1>10 DEF StandardStorage
    <3>3. IsFiniteSet(I)
      <4> HIDE DEF new
      <4> QED
        BY <1>0, <1>10, FS_Union
    <3> QED
      BY <3>1, <3>2, <3>3
  <2>2. r.store = t
    BY <1>b
  <2> HIDE DEF A, I
  <2>3. t.delayed = s.delayed /\ t.inFlight = I /\ t \in StandardStorage
    BY <1>0, <2>1 DEF StandardStorage
  <2> HIDE DEF t
  <2> QED
    BY <1>0, <2>1, <2>2, <2>3 DEF StandardTyped
<1> QED
  BY <1>11, <1>12

-----------------------------------------------------------------------------
(***************************************************************************)
(* The inductive invariant.  A FIFO queue satisfies GroupInv with the      *)
(* transfers it has pending; the sets whose elements the model enumerates  *)
(* are finite.                                                             *)
(***************************************************************************)
QueueInv(q, s, P) ==
    IF IsFifo(q) THEN FifoTyped(s, P) /\ GroupInv(s, P)
                 ELSE StandardTyped(s) /\ P \subseteq PendingEntry /\ IsFiniteSet(P)

QueuesInv == \A q \in Queues : QueueInv(q, store[q], pending[q])

Inv == TypeOK /\ QueuesInv

-----------------------------------------------------------------------------
\* One queue changes its storage and its pending transfers.
LEMMA OneQueueChanges ==
    ASSUME MessageTypeOK, QueuesInv, NEW q \in Queues, NEW s, NEW P, QueueInv(q, s, P),
           store' = [store EXCEPT ![q] = s], pending' = [pending EXCEPT ![q] = P],
           chan' \in [Queues -> Seq(Command)]
    PROVE  MessageTypeOK' /\ QueuesInv'
<1>1. s \in IF IsFifo(q) THEN FifoStorage ELSE StandardStorage
  BY DEF QueueInv, FifoTyped, StandardTyped
<1>2. P \subseteq PendingTransfer
  BY DEF QueueInv, FifoTyped, PendingEntry, PendingTransfer
<1>3. /\ store \in [Queues -> FifoStorage \cup StandardStorage]
      /\ pending \in [Queues -> SUBSET PendingTransfer]
      /\ \A p \in Queues : store[p] \in IF IsFifo(p) THEN FifoStorage ELSE StandardStorage
  BY DEF MessageTypeOK
<1>4. /\ store'[q] = s /\ pending'[q] = P
      /\ \A p \in Queues \ {q} : store'[p] = store[p] /\ pending'[p] = pending[p]
  BY <1>3
<1>5. \A p \in Queues : store'[p] \in IF IsFifo(p) THEN FifoStorage ELSE StandardStorage
  BY <1>1, <1>3, <1>4
<1>6. store' \in [Queues -> FifoStorage \cup StandardStorage]
  BY <1>1, <1>3
<1>7. pending' \in [Queues -> SUBSET PendingTransfer]
  BY <1>2, <1>3
<1>8. MessageTypeOK'
  BY <1>5, <1>6, <1>7 DEF MessageTypeOK, IsFifo
<1>9. QueuesInv'
  BY <1>4 DEF QueuesInv, QueueInv, IsFifo
<1> QED
  BY <1>8, <1>9

\* The same when nothing is handed off.
LEMMA OneStoreChanges ==
    ASSUME MessageTypeOK, QueuesInv, NEW q \in Queues, NEW s, QueueInv(q, s, pending[q]),
           store' = [store EXCEPT ![q] = s], UNCHANGED pending,
           chan' \in [Queues -> Seq(Command)]
    PROVE  MessageTypeOK' /\ QueuesInv'
<1>1. pending' = [pending EXCEPT ![q] = pending[q]]
  BY DEF MessageTypeOK
<1> QED
  BY <1>1, OneQueueChanges

\* Nothing changes but the channels.
LEMMA NoStoreChanges ==
    ASSUME MessageTypeOK, QueuesInv, UNCHANGED <<store, pending>>, chan' \in [Queues -> Seq(Command)]
    PROVE  MessageTypeOK' /\ QueuesInv'
BY DEF MessageTypeOK, QueuesInv, QueueInv, IsFifo

\* The hand-off adds the messages to the pending transfers.
LEMMA HandoffInv ==
    ASSUME MessageTypeOK, NEW q \in Queues, NEW ms, ms \subseteq QueueMessage, IsFiniteSet(ms),
           Handoff(q, ms)
    PROVE  /\ pending' = [pending EXCEPT ![q] = pending[q] \cup Taken(ms)]
           /\ chan' \in [Queues -> Seq(Command)]
<1>1. CASE ms = {}
  BY <1>1 DEF Handoff, MessageTypeOK, Taken
<1>2. CASE ms # {}
  <2>1. PICK t \in Queues : \E order \in SetToSeqs(ms) :
           chan' = [chan EXCEPT ![t] = chan[t] \o [i \in DOMAIN order |-> Transfer(order[i], q)]]
    BY <1>2 DEF Handoff
  <2>2. PICK order \in SetToSeqs(ms) :
           chan' = [chan EXCEPT ![t] = chan[t] \o [i \in DOMAIN order |-> Transfer(order[i], q)]]
    BY <2>1
  <2>3. order \in Seq(QueueMessage)
    <3>1. order \in Seq(ms)
      BY OrderingsType
    <3> QED
      BY <3>1
  <2> DEFINE new == [i \in DOMAIN order |-> Transfer(order[i], q)]
  <2>4. new \in Seq(Command)
    <3>1. DOMAIN order = 1..Len(order) /\ Len(order) \in Nat
          /\ \A i \in 1..Len(order) : order[i] \in QueueMessage
      BY <2>3
    <3>2. \A m \in QueueMessage : Transfer(m, q) \in Command
      BY DEF Transfer, Command
    <3>3. new \in [1..Len(order) -> Command]
      BY <3>1, <3>2
    <3> QED
      BY <3>1, <3>3
  <2>5. chan' \in [Queues -> Seq(Command)]
    <3>1. chan[t] \in Seq(Command)
      BY DEF MessageTypeOK
    <3> HIDE DEF new
    <3>2. chan[t] \o new \in Seq(Command)
      BY <3>1, <2>4
    <3> QED
      BY <3>2, <2>2 DEF MessageTypeOK, new
  <2>6. pending' = [pending EXCEPT ![q] = pending[q] \cup Taken(ms)]
    BY <1>2 DEF Handoff, Taken
  <2> QED
    BY <2>5, <2>6
<1> QED
  BY <1>1, <1>2

\* try_receive, with the refresh it begins with.
LEMMA TryReceiveInv ==
    ASSUME NEW q \in Queues, QueueInv(q, store[q], pending[q]), NEW max, NEW vis \in Nat,
           NEW r \in TryReceive(q, max, vis)
    PROVE  /\ QueueInv(q, r.store, pending[q] \cup Taken(r.handed))
           /\ r.handed \subseteq QueueMessage /\ IsFiniteSet(r.handed)
<1>1. CASE IsFifo(q)
  <2> DEFINE s == FifoReturnExpired(store[q])
  <2>1. Due(store[q].inFlight) \subseteq store[q].inFlight
    BY DEF Due
  <2>2. FifoTyped(s, pending[q]) /\ GroupInv(s, pending[q])
    BY <1>1, <2>1, FifoReturnInv DEF QueueInv, FifoReturnExpired
  <2>3. r \in TryReceiveFifo(s, max, vis, RedriveLimit(q))
    BY <1>1 DEF TryReceive
  <2> HIDE DEF s
  <2>4. /\ FifoTyped(r.store, pending[q] \cup Taken(r.handed))
        /\ GroupInv(r.store, pending[q] \cup Taken(r.handed))
        /\ r.handed \subseteq QueueMessage /\ IsFiniteSet(r.handed)
    BY <2>2, <2>3, TryReceiveFifoInv
  <2> QED
    BY <1>1, <2>4 DEF QueueInv
<1>2. CASE ~IsFifo(q)
  <2>1. PICK s \in StandardRefresh(store[q]) : r \in TryReceiveStandard(s, max, vis, RedriveLimit(q))
    BY <1>2 DEF TryReceive
  <2>2. StandardTyped(s)
    BY <1>2, StandardRefreshType DEF QueueInv
  <2>3. StandardTyped(r.store) /\ r.handed \subseteq QueueMessage /\ IsFiniteSet(r.handed)
    BY <2>1, <2>2, TryReceiveStandardType
  <2>4. IsFiniteSet(pending[q] \cup Taken(r.handed))
    BY <1>2, <2>3, TakenFinite, FS_Union DEF QueueInv
  <2>5. pending[q] \cup Taken(r.handed) \subseteq PendingEntry
    BY <1>2, <2>3 DEF QueueInv, Taken, PendingEntry
  <2> QED
    BY <1>2, <2>3, <2>4, <2>5 DEF QueueInv
<1> QED
  BY <1>1, <1>2

\* An answer changes only replies.
LEMMA RepliedInv ==
    ASSUME NEW q, NEW s, NEW P, QueueInv(q, s, P), NEW ids, NEW answer \in {"ok", "err"}
    PROVE  QueueInv(q, s, Replied(P, ids, answer))
<1> DEFINE f == [p \in P |-> IF p.msg.id \in ids /\ p.reply = "empty"
                             THEN [p EXCEPT !.reply = answer] ELSE p]
           Q == Replied(P, ids, answer)
<1>0. P \subseteq PendingEntry /\ IsFiniteSet(P)
  BY DEF QueueInv, FifoTyped
<1>1. DOMAIN f = P /\ f = [x \in P |-> f[x]] /\ Q = {f[x] : x \in P}
  BY DEF Replied
<1>2. \A p \in P : f[p] \in PendingEntry /\ f[p].msg = p.msg
  BY <1>0 DEF PendingEntry
<1> HIDE DEF f, Q
<1>3. IsFiniteSet(Q) /\ Q \subseteq PendingEntry
  BY <1>0, <1>1, <1>2, FiniteImage
<1>4. CASE IsFifo(q)
  <2>1. FifoTyped(s, P) /\ GroupInv(s, P)
    BY <1>4 DEF QueueInv
  <2>2. OneEach(Q) /\ OneEach(s.inFlight)
    BY <2>1, <1>1, <1>2 DEF GroupInv, Blocking, OneEach
  <2>3. {p.msg : p \in Q} = {p.msg : p \in P}
    BY <1>1, <1>2
  <2>4. GroupInv(s, Q)
    BY <2>1, <2>2, <2>3, SameMessagesInv
  <2> QED
    BY <1>3, <1>4, <2>1, <2>4 DEF QueueInv, FifoTyped, Q
<1>5. CASE ~IsFifo(q)
  BY <1>3, <1>5 DEF QueueInv, Q
<1> QED
  BY <1>4, <1>5

\* settle_transfers: the rejected messages return to the queue.
LEMMA SettleInv ==
    ASSUME NEW q \in Queues, QueueInv(q, store[q], pending[q]), NEW s \in SettleTransfers(q)
    PROVE  QueueInv(q, s, pending[q] \ Settled(q))
<1>0. Settled(q) \subseteq pending[q] /\ Failed(q) \subseteq Settled(q)
  BY DEF Settled, Failed
<1>1. CASE IsFifo(q)
  <2>1. s = FinishRedrive(store[q], {p.msg.group : p \in Settled(q)}, {p.msg : p \in Failed(q)})
    BY <1>1 DEF SettleTransfers
  <2>2. {p.msg : p \in Failed(q)} \subseteq {p.msg : p \in Settled(q)}
    BY <1>0
  <2>3. FifoTyped(store[q], pending[q]) /\ GroupInv(store[q], pending[q])
    BY <1>1 DEF QueueInv
  <2>4. FifoTyped(s, pending[q] \ Settled(q)) /\ GroupInv(s, pending[q] \ Settled(q))
    BY <1>0, <2>1, <2>2, <2>3, FinishRedriveInv
  <2> QED
    BY <1>1, <2>4 DEF QueueInv
<1>2. CASE ~IsFifo(q)
  <2>1. PICK ms \in MessagesInSomeOrder(Failed(q)) :
           s = [store[q] EXCEPT !.available = ms \o store[q].available]
    BY <1>2 DEF SettleTransfers
  <2>2. StandardTyped(store[q]) /\ pending[q] \subseteq PendingEntry /\ IsFiniteSet(pending[q])
    BY <1>2 DEF QueueInv
  <2>3. IsFiniteSet(Failed(q)) /\ IsFiniteSet(pending[q] \ Settled(q))
    BY <1>0, <2>2, FS_Subset
  <2>4. ms \in Seq(QueueMessage)
    <3>1. \A e \in Failed(q) : e.msg \in QueueMessage
      BY <1>0, <2>2 DEF PendingEntry
    <3> QED
      BY <3>1, <2>3, SomeOrderType
  <2>5. StandardTyped(s)
    <3> DEFINE A == ms \o store[q].available
    <3>1. A \in Seq(QueueMessage)
      BY <2>2, <2>4 DEF StandardTyped, StandardStorage
    <3>2. s = [store[q] EXCEPT !.available = A]
      BY <2>1
    <3> HIDE DEF A
    <3>3. s \in StandardStorage /\ s.delayed = store[q].delayed /\ s.inFlight = store[q].inFlight
      BY <2>2, <3>1, <3>2 DEF StandardTyped, StandardStorage
    <3> QED
      BY <2>2, <3>3 DEF StandardTyped
  <2> QED
    BY <1>2, <2>2, <2>3, <2>5 DEF QueueInv
<1> QED
  BY <1>1, <1>2

\* The ways a branch of the loop may end.
LEMMA LoopTypes ==
    ASSUME LoopTypeOK, NEW q \in Queues,
           \/ BackToTop(q) \/ ToTop(q) \/ Wake(q) \/ DropDuePolls(q)
           \/ VisitPolls(q, "cleanup")
    PROVE  LoopTypeOK'
<1>1. \A b \in BOOLEAN : Resume(b) \in {"select", "top"}
  BY DEF Resume
<1>2. NothingDue(q) \in BOOLEAN
  BY DEF NothingDue
<1>3. CASE BackToTop(q) \/ ToTop(q)
  BY <1>1, <1>2, <1>3 DEF LoopTypeOK, BackToTop, ToTop, pollVars
<1>4. CASE VisitPolls(q, "cleanup") \/ VisitPolls(q, "fulfil")
  <2>1. polls[q] \in Seq(PendingLongPoll) /\ <<>> \in Seq(PendingLongPoll)
    BY DEF LoopTypeOK
  <2> QED
    BY <1>4, <2>1 DEF LoopTypeOK, VisitPolls
<1>5. CASE Wake(q)
  BY <1>3, <1>4, <1>5 DEF Wake
<1>6. CASE DropDuePolls(q)
  <2>1. PICK ps \in KeptPositions(polls[q], Live(polls[q])) : polls' = [polls EXCEPT ![q] = ps]
    BY <1>6 DEF DropDuePolls
  <2>2. polls[q] \in Seq(PendingLongPoll) /\ Live(polls[q]) \subseteq DOMAIN polls[q]
    BY DEF LoopTypeOK, Live
  <2>3. ps \in Seq(PendingLongPoll)
    BY <2>2, KeptPositionsType
  <2> QED
    BY <1>1, <1>2, <1>6, <2>1, <2>3 DEF LoopTypeOK, DropDuePolls
<1> QED
  BY <1>3, <1>4, <1>5, <1>6

\* The ids of what a queue holds or owes.
LEMMA IdsTyped ==
    ASSUME NEW q \in Queues, QueueInv(q, store[q], pending[q])
    PROVE  Ids(Messages(q)) \subseteq Nat /\ Ids(Owed(q)) \subseteq Nat
<1>1. \A m \in QueueMessage : m.id \in Nat
  BY DEF QueueMessage
<1>2. pending[q] \subseteq PendingEntry
  BY DEF QueueInv, FifoTyped
<1>3. Ids(Owed(q)) \subseteq Nat
  BY <1>1, <1>2 DEF Owed, Ids, PendingEntry
<1>4. CASE IsFifo(q)
  <2>1. store[q] \in FifoStorage
    BY <1>4 DEF QueueInv, FifoTyped
  <2>2. \A g \in Groups : ToSet(store[q].groups[g]) \subseteq QueueMessage
    <3>1. \A g \in Groups : store[q].groups[g] \in Seq(QueueMessage)
      BY <2>1 DEF FifoStorage
    <3> QED
      BY <3>1 DEF ToSet
  <2>3. {e.msg : e \in store[q].inFlight} \subseteq QueueMessage
    BY <2>1 DEF FifoStorage, InFlightMessage
  <2> DEFINE U == UNION {ToSet(store[q].groups[g]) : g \in Groups}
             V == {e.msg : e \in store[q].inFlight}
  <2>4. U \subseteq QueueMessage
    BY <2>2
  <2>5. Messages(q) = U \cup V
    BY <1>4 DEF Messages, FifoMessages
  <2> HIDE DEF U
  <2>6. Messages(q) \subseteq QueueMessage
    BY <2>3, <2>4, <2>5
  <2> QED
    BY <1>1, <1>3, <2>6 DEF Ids
<1>5. CASE ~IsFifo(q)
  <2>1. store[q] \in StandardStorage
    BY <1>5 DEF QueueInv, StandardTyped
  <2>2. ToSet(store[q].available) \subseteq QueueMessage
    <3>1. store[q].available \in Seq(QueueMessage)
      BY <2>1 DEF StandardStorage
    <3> QED
      BY <3>1 DEF ToSet
  <2>3. {e.msg : e \in store[q].delayed \cup store[q].inFlight} \subseteq QueueMessage
    BY <2>1 DEF StandardStorage, InFlightMessage
  <2>4. Messages(q) \subseteq QueueMessage
    BY <1>5, <2>2, <2>3 DEF Messages, StandardMessages
  <2> QED
    BY <1>1, <1>3, <2>4 DEF Ids
<1> QED
  BY <1>4, <1>5

-----------------------------------------------------------------------------
(***************************************************************************)
(* Each action preserves the invariant.                                    *)
(***************************************************************************)
\* A send adds a message at the back, or arms its delay.
LEMMA SendInv ==
    ASSUME Inv, NEW q \in Queues, SendMessageStandard(q) \/ SendMessageFifo(q)
    PROVE  Inv'
<1> USE DEF Inv, TypeOK
<1>0. \A size \in SizeChoices, g \in Groups \cup {NoGroup} : NewMessage(g, size) \in QueueMessage
  BY ParametersAssumption, BoundsAssumption DEF ControlTypeOK, NewMessage, QueueMessage
<1>1. ControlTypeOK'
  BY DEF ControlTypeOK, SendMessageStandard, SendMessageFifo, registryVars, controlVars
<1>2. LoopTypeOK'
  BY LoopTypes DEF SendMessageStandard, SendMessageFifo
<1>3. chan' \in [Queues -> Seq(Command)] /\ UNCHANGED pending
  BY DEF SendMessageStandard, SendMessageFifo, MessageTypeOK
<1>4. CASE SendMessageStandard(q)
  <2>1. PICK size \in SizeChoices, delay \in DelayChoices :
           LET m == NewMessage(NoGroup, size)
           IN  IF delay > 0
               THEN SetStore(q, [store[q] EXCEPT !.delayed = store[q].delayed \cup {[msg |-> m, left |-> delay]}])
               ELSE SetStore(q, [store[q] EXCEPT !.available = Append(store[q].available, m)])
    BY <1>4 DEF SendMessageStandard
  <2> DEFINE m == NewMessage(NoGroup, size)
             X == store[q].delayed \cup {[msg |-> m, left |-> delay]}
             A == Append(store[q].available, m)
  <2>2. m \in QueueMessage /\ delay \in Nat
    BY <1>0, ParametersAssumption
  <2> HIDE DEF m
  <2>3. ~IsFifo(q) /\ StandardTyped(store[q]) /\ pending[q] \subseteq PendingEntry /\ IsFiniteSet(pending[q])
    BY <1>4 DEF SendMessageStandard, QueuesInv, QueueInv
  <2>4. X \in SUBSET InFlightMessage /\ IsFiniteSet(X) /\ A \in Seq(QueueMessage)
    <3>1. [msg |-> m, left |-> delay] \in InFlightMessage
      BY <2>2 DEF InFlightMessage
    <3>2. /\ store[q].delayed \subseteq InFlightMessage /\ IsFiniteSet(store[q].delayed)
          /\ store[q].available \in Seq(QueueMessage)
      BY <2>3 DEF StandardTyped, StandardStorage
    <3>3. A \in Seq(QueueMessage)
      BY <2>2, <3>2
    <3>4. IsFiniteSet(X)
      BY <3>2, FS_AddElement
    <3> QED
      BY <3>1, <3>2, <3>3, <3>4
  <2> HIDE DEF X, A
  <2>5. StandardTyped([store[q] EXCEPT !.delayed = X]) /\ StandardTyped([store[q] EXCEPT !.available = A])
    BY <2>3, <2>4 DEF StandardTyped, StandardStorage
  <2>6. \/ store' = [store EXCEPT ![q] = [store[q] EXCEPT !.delayed = X]]
        \/ store' = [store EXCEPT ![q] = [store[q] EXCEPT !.available = A]]
    BY <2>1 DEF SetStore, X, A, m
  <2>7. /\ QueueInv(q, [store[q] EXCEPT !.delayed = X], pending[q])
        /\ QueueInv(q, [store[q] EXCEPT !.available = A], pending[q])
    BY <2>3, <2>5 DEF QueueInv
  <2> QED
    BY <1>1, <1>2, <1>3, <2>6, <2>7, OneStoreChanges
<1>5. CASE SendMessageFifo(q)
  <2>1. PICK size \in SizeChoices, g \in Groups, id \in DedupIds :
           LET key == IF attrs[q].perGroup THEN GroupKey(g, id) ELSE QueueKey(id)
           IN  \/ UNCHANGED store
               \/ SetStore(q, Enqueue(store[q], NewMessage(g, size), key))
    BY <1>5 DEF SendMessageFifo
  <2> DEFINE key == IF attrs[q].perGroup THEN GroupKey(g, id) ELSE QueueKey(id)
             m == NewMessage(g, size)
  <2>2. m \in QueueMessage /\ m.group \in Groups
    BY <1>0 DEF NewMessage
  <2>3. key \in DedupKey
    BY DEF GroupKey, QueueKey, DedupKey
  <2>4. CASE UNCHANGED store
    BY <1>1, <1>2, <1>3, <2>4, NoStoreChanges
  <2>5. CASE SetStore(q, Enqueue(store[q], m, key))
    <3> HIDE DEF m, key
    <3>1. QueueInv(q, Enqueue(store[q], m, key), pending[q])
      BY <1>5, <2>2, <2>3, EnqueueInv DEF SendMessageFifo, QueuesInv, QueueInv
    <3> QED
      BY <1>1, <1>2, <1>3, <2>5, <3>1, OneStoreChanges DEF SetStore
  <2> QED
    BY <2>1, <2>4, <2>5
<1> QED
  BY <1>4, <1>5

\* A receive delivers, hands off and may leave a long poll behind.
LEMMA ReceiveInv ==
    ASSUME Inv, NEW q \in Queues, ReceiveMessage(q)
    PROVE  Inv'
<1> USE DEF Inv, TypeOK
<1>a. PICK max \in MaxChoices, vis \in VisChoices, wait \in WaitChoices :
         \E r \in TryReceive(q, max, vis) :
         /\ SetStore(q, r.store)
         /\ Handoff(q, r.handed)
         /\ phase' = [phase EXCEPT ![q] = Resume(NothingDue(q) /\ r.handed = {})]
         /\ \/ UNCHANGED polls
            \/ polls' = [polls EXCEPT ![q] = Append(polls[q],
                  [max |-> max, vis |-> vis, left |-> wait, closed |-> FALSE])]
  BY DEF ReceiveMessage
<1>1. PICK r \in TryReceive(q, max, vis) :
         /\ SetStore(q, r.store)
         /\ Handoff(q, r.handed)
         /\ phase' = [phase EXCEPT ![q] = Resume(NothingDue(q) /\ r.handed = {})]
         /\ \/ UNCHANGED polls
            \/ polls' = [polls EXCEPT ![q] = Append(polls[q],
                  [max |-> max, vis |-> vis, left |-> wait, closed |-> FALSE])]
  BY <1>a
<1>2. ControlTypeOK'
  BY DEF ControlTypeOK, ReceiveMessage, registryVars, controlVars
<1>3. LoopTypeOK'
  <2>1. [max |-> max, vis |-> vis, left |-> wait, closed |-> FALSE] \in PendingLongPoll
    BY ParametersAssumption DEF PendingLongPoll
  <2>2. Resume(NothingDue(q) /\ r.handed = {}) \in {"select", "top"}
    BY DEF Resume
  <2>3. Append(polls[q], [max |-> max, vis |-> vis, left |-> wait, closed |-> FALSE]) \in Seq(PendingLongPoll)
    BY <2>1 DEF LoopTypeOK
  <2>4. todo' \in [Queues -> Seq(PendingLongPoll)]
    BY DEF LoopTypeOK, ReceiveMessage
  <2>5. phase' \in [Queues -> {"select", "fulfil", "cleanup", "top"}]
    BY <1>1, <2>2 DEF LoopTypeOK
  <2>6. polls' \in [Queues -> Seq(PendingLongPoll)]
    BY <1>1, <2>3 DEF LoopTypeOK
  <2> QED
    BY <2>4, <2>5, <2>6 DEF LoopTypeOK
<1>4. /\ QueueInv(q, r.store, pending[q] \cup Taken(r.handed))
      /\ r.handed \subseteq QueueMessage /\ IsFiniteSet(r.handed)
  BY TryReceiveInv, ParametersAssumption DEF QueuesInv
<1>5. pending' = [pending EXCEPT ![q] = pending[q] \cup Taken(r.handed)] /\ chan' \in [Queues -> Seq(Command)]
  BY <1>1, <1>4, HandoffInv
<1> QED
  BY <1>1, <1>2, <1>3, <1>4, <1>5, OneQueueChanges DEF SetStore

\* A delete, and a new visibility timeout, of a delivery.
LEMMA DeliveryInv ==
    ASSUME Inv, NEW q \in Queues, DeleteMessage(q) \/ ChangeVisibility(q)
    PROVE  Inv'
<1> USE DEF Inv, TypeOK
<1>0. \A e \in store[q].inFlight : e \in InFlightMessage /\ e.msg \in QueueMessage /\ e.msg.id \in Nat
  BY DEF MessageTypeOK, FifoStorage, StandardStorage, InFlightMessage, QueueMessage
<1>1. ControlTypeOK'
  BY <1>0 DEF ControlTypeOK, DeleteMessage, ChangeVisibility, registryVars, controlVars
<1>2. LoopTypeOK'
  BY LoopTypes DEF DeleteMessage, ChangeVisibility
<1>3. chan' \in [Queues -> Seq(Command)] /\ UNCHANGED pending
  BY DEF DeleteMessage, ChangeVisibility, MessageTypeOK
<1>4. ASSUME NEW s, SetStore(q, s), QueueInv(q, s, pending[q])
      PROVE  Inv'
  BY <1>1, <1>2, <1>3, <1>4, OneStoreChanges DEF SetStore
<1>5. ASSUME NEW I, I \subseteq InFlightMessage, IsFiniteSet(I), ~IsFifo(q)
      PROVE  StandardTyped([store[q] EXCEPT !.inFlight = I])
  BY <1>5 DEF QueuesInv, QueueInv, StandardTyped, StandardStorage
<1>6. \A e \in store[q].inFlight : ~IsFifo(q) =>
        store[q].inFlight \ {e} \subseteq InFlightMessage /\ IsFiniteSet(store[q].inFlight \ {e})
  <2>1. ~IsFifo(q) => IsFiniteSet(store[q].inFlight)
    BY DEF QueuesInv, QueueInv, StandardTyped
  <2> QED
    BY <2>1, <1>0, FS_Subset
<1>7. CASE DeleteMessage(q)
  <2>1. PICK e \in store[q].inFlight :
           IF IsFifo(q) THEN SetStore(q, FifoDelete(store[q], e))
                        ELSE SetStore(q, [store[q] EXCEPT !.inFlight = store[q].inFlight \ {e}])
    BY <1>7 DEF DeleteMessage
  <2>2. CASE IsFifo(q)
    <3>1. QueueInv(q, FifoDelete(store[q], e), pending[q])
      BY <2>2, FifoDeleteInv DEF QueuesInv, QueueInv
    <3> QED
      BY <1>4, <2>1, <2>2, <3>1
  <2>3. CASE ~IsFifo(q)
    <3>1. QueueInv(q, [store[q] EXCEPT !.inFlight = store[q].inFlight \ {e}], pending[q])
      BY <1>5, <1>6, <2>3 DEF QueuesInv, QueueInv
    <3> QED
      BY <1>4, <2>1, <2>3, <3>1
  <2> QED
    BY <2>2, <2>3
<1>8. CASE ChangeVisibility(q)
  <2>1. PICK e \in store[q].inFlight, vis \in ChangeChoices :
           SetStore(q, IF IsFifo(q) THEN FifoChangeVisibility(store[q], e, vis)
                                    ELSE StandardChangeVisibility(store[q], e, vis))
    BY <1>8 DEF ChangeVisibility
  <2>2. vis \in Nat
    BY ParametersAssumption
  <2>3. CASE IsFifo(q)
    <3>1. QueueInv(q, FifoChangeVisibility(store[q], e, vis), pending[q])
      BY <2>2, <2>3, FifoChangeVisibilityInv DEF QueuesInv, QueueInv
    <3> QED
      BY <1>4, <2>1, <2>3, <3>1
  <2>4. CASE ~IsFifo(q)
    <3> DEFINE I == store[q].inFlight \ {e}
               J == I \cup {[e EXCEPT !.left = vis]}
               A == Append(store[q].available, e.msg)
    <3>1. StandardTyped(store[q])
      BY <2>4 DEF QueuesInv, QueueInv
    <3>2. I \subseteq InFlightMessage /\ IsFiniteSet(I)
      BY <1>6, <2>4
    <3>3. [e EXCEPT !.left = vis] \in InFlightMessage
      BY <1>0, <2>2 DEF InFlightMessage
    <3>4. A \in Seq(QueueMessage)
      BY <1>0, <3>1 DEF StandardTyped, StandardStorage
    <3> HIDE DEF I, A
    <3>5. J \subseteq InFlightMessage /\ IsFiniteSet(J)
      BY <3>2, <3>3, FS_AddElement
    <3> HIDE DEF J
    <3>6. StandardTyped([store[q] EXCEPT !.inFlight = I, !.available = A])
      BY <3>1, <3>2, <3>4 DEF StandardTyped, StandardStorage
    <3>7. StandardTyped([store[q] EXCEPT !.inFlight = J])
      BY <1>5, <2>4, <3>5
    <3>8. StandardTyped(StandardChangeVisibility(store[q], e, vis))
      BY <3>6, <3>7 DEF StandardChangeVisibility, I, J, A
    <3>9. QueueInv(q, StandardChangeVisibility(store[q], e, vis), pending[q])
      BY <2>4, <3>8 DEF QueuesInv, QueueInv
    <3> QED
      BY <1>4, <2>1, <2>4, <3>9
  <2> QED
    BY <2>3, <2>4
<1> QED
  BY <1>7, <1>8

\* The empty storage of a queue.
LEMMA EmptyInv ==
    ASSUME NEW q
    PROVE  QueueInv(q, Storage(q), {})
<1>1. StandardTyped(StandardInit)
  BY FS_EmptySet DEF StandardTyped, StandardInit, StandardStorage
<1> QED
  BY <1>1, FifoInitInv, FS_EmptySet DEF QueueInv, Storage

\* A purge empties the storage and forgets the pending transfers.
LEMMA PurgeInv ==
    ASSUME Inv, NEW q \in Queues, PurgeQueue(q)
    PROVE  Inv'
<1> USE DEF Inv, TypeOK
<1>1. ControlTypeOK'
  <2>1. Ids(Messages(q)) \subseteq Nat /\ Ids(Owed(q)) \subseteq Nat
    BY IdsTyped DEF QueuesInv
  <2>2. gone' \subseteq Nat
    BY <2>1 DEF PurgeQueue, ControlTypeOK
  <2>3. purgeLeft' \in [Queues -> Nat]
    BY ParametersAssumption DEF PurgeQueue, ControlTypeOK
  <2> QED
    BY <2>2, <2>3 DEF PurgeQueue, ControlTypeOK, registryVars, controlVars
<1>2. LoopTypeOK'
  BY LoopTypes DEF PurgeQueue
<1>3. chan' \in [Queues -> Seq(Command)]
  BY DEF PurgeQueue, MessageTypeOK
<1> DEFINE s == IF IsFifo(q) THEN FifoPurge(store[q]) ELSE StandardPurge(store[q])
<1>4. QueueInv(q, s, {})
  <2>1. CASE IsFifo(q)
    BY <2>1, FifoPurgeInv DEF QueuesInv, QueueInv, FifoTyped
  <2>2. CASE ~IsFifo(q)
    BY <2>2, EmptyInv DEF StandardPurge, Storage
  <2> QED
    BY <2>1, <2>2
<1>5. store' = [store EXCEPT ![q] = s] /\ pending' = [pending EXCEPT ![q] = {}]
  BY DEF PurgeQueue, SetStore
<1> HIDE DEF s
<1> QED
  BY <1>1, <1>2, <1>3, <1>4, <1>5, OneQueueChanges

\* SetAttributes and a client that goes away.
LEMMA OtherClientInv ==
    ASSUME Inv, NEW q \in Queues, SetAttributes(q) \/ DropPoll(q)
    PROVE  Inv'
<1> USE DEF Inv, TypeOK
<1>1. CASE SetAttributes(q)
  <2>1. attrs' \in [Queues -> Attributes]
    <3>1. PICK a \in AttrChoices[q] : attrs' = [attrs EXCEPT ![q] = a]
      BY <1>1 DEF SetAttributes
    <3>2. a \in Attributes
      <4>1. AttrChoices[q] \in SUBSET Attributes
        BY AttrsAssumption
      <4> QED
        BY <4>1
    <3> QED
      BY <3>1, <3>2 DEF ControlTypeOK
  <2>2. ControlTypeOK'
    BY <1>1, <2>1 DEF SetAttributes, ControlTypeOK, registryVars, controlVars
  <2>3. LoopTypeOK'
    BY <1>1, LoopTypes DEF SetAttributes
  <2>4. UNCHANGED <<store, pending>> /\ chan' \in [Queues -> Seq(Command)]
    BY <1>1 DEF SetAttributes, MessageTypeOK
  <2> QED
    BY <2>2, <2>3, <2>4, NoStoreChanges
<1>2. CASE DropPoll(q)
  <2>1. PICK i \in DOMAIN polls[q] : polls' = [polls EXCEPT ![q][i].closed = TRUE]
    BY <1>2 DEF DropPoll
  <2>2. polls[q] \in Seq(PendingLongPoll)
    BY DEF LoopTypeOK
  <2> DEFINE p == [polls[q][i] EXCEPT !.closed = TRUE]
             ps == [polls[q] EXCEPT ![i] = p]
  <2>3. p \in PendingLongPoll
    <3>1. polls[q][i] \in PendingLongPoll
      BY <2>2
    <3> QED
      BY <3>1 DEF PendingLongPoll
  <2>4. ps \in Seq(PendingLongPoll)
    <3> HIDE DEF p
    <3> QED
      BY <2>2, <2>3
  <2>5. polls' = [polls EXCEPT ![q] = ps]
    BY <2>1
  <2>6. LoopTypeOK'
    <3> HIDE DEF ps
    <3> QED
      BY <1>2, <2>4, <2>5 DEF LoopTypeOK, DropPoll
  <2>7. ControlTypeOK'
    BY <1>2 DEF DropPoll, ControlTypeOK, registryVars, controlVars
  <2>8. UNCHANGED <<store, pending>> /\ chan' \in [Queues -> Seq(Command)]
    BY <1>2 DEF DropPoll, MessageTypeOK
  <2> QED
    BY <2>6, <2>7, <2>8, NoStoreChanges
<1> QED
  BY <1>1, <1>2

\* The commands that only raise flags, and the wake-up by a reply.
LEMMA FlagsInv ==
    ASSUME Inv, NEW q \in Queues,
           HandleQuiesce(q) \/ HandleShutdown(q) \/ ChannelClosed(q) \/ WaitForTransfer(q)
    PROVE  Inv'
<1> USE DEF Inv, TypeOK
<1>1. ControlTypeOK'
  BY DEF ControlTypeOK, HandleQuiesce, HandleShutdown, ChannelClosed, WaitForTransfer, registryVars, controlVars
<1>2. LoopTypeOK'
  BY LoopTypes DEF HandleQuiesce, HandleShutdown, ChannelClosed, WaitForTransfer
<1>3. chan' \in [Queues -> Seq(Command)]
  <2>1. chan[q] \in Seq(Command) /\ chan \in [Queues -> Seq(Command)]
    BY DEF MessageTypeOK
  <2>2. chan[q] # <<>> => Tail(chan[q]) \in Seq(Command)
    BY <2>1
  <2> QED
    BY <2>1, <2>2 DEF HandleQuiesce, HandleShutdown, ChannelClosed, WaitForTransfer, Receives
<1>4. UNCHANGED <<store, pending>>
  BY DEF HandleQuiesce, HandleShutdown, ChannelClosed, WaitForTransfer
<1> QED
  BY <1>1, <1>2, <1>3, <1>4, NoStoreChanges

\* accept_transfer: the target stores the message, the source hears about it.
LEMMA TransferInv ==
    ASSUME Inv, NEW q \in Queues, HandleTransfer(q)
    PROVE  Inv'
<1> USE DEF Inv, TypeOK
<1> DEFINE c == Head(chan[q])
<1>1. ControlTypeOK'
  BY DEF ControlTypeOK, HandleTransfer, registryVars, controlVars
<1>2. LoopTypeOK'
  BY LoopTypes DEF HandleTransfer
<1>3. chan[q] \in Seq(Command) /\ chan[q] # <<>> /\ c.cmd = "Transfer"
  BY DEF HandleTransfer, Receives, MessageTypeOK
<1>4. c \in Command /\ Tail(chan[q]) \in Seq(Command)
  BY <1>3
<1>5. c.msg \in QueueMessage /\ c.src \in Queues
  BY <1>3, <1>4 DEF Command, Quiesce, Shutdown
<1>6. chan' \in [Queues -> Seq(Command)]
  BY <1>4 DEF HandleTransfer, MessageTypeOK
<1> HIDE DEF c
<1>7. ASSUME NEW answer \in {"ok", "err"}, NEW s, QueueInv(q, s, pending[q]),
             store' = [store EXCEPT ![q] = s],
             pending' = [pending EXCEPT ![c.src] = Replied(pending[c.src], {c.msg.id}, answer)]
      PROVE  MessageTypeOK' /\ QueuesInv'
  <2>1. /\ store \in [Queues -> FifoStorage \cup StandardStorage]
        /\ pending \in [Queues -> SUBSET PendingTransfer]
    BY DEF MessageTypeOK
  <2>2. \A p \in Queues : QueueInv(p, store'[p], pending[p])
    BY <1>7, <2>1 DEF QueuesInv
  <2>3. \A p \in Queues : QueueInv(p, store'[p], pending'[p])
    <3>1. QueueInv(c.src, store'[c.src], Replied(pending[c.src], {c.msg.id}, answer))
      BY <1>5, <2>2, RepliedInv
    <3> QED
      BY <3>1, <1>7, <2>1, <2>2
  <2>4. \A p \in Queues : /\ pending'[p] \subseteq PendingTransfer
                          /\ store'[p] \in IF IsFifo(p) THEN FifoStorage ELSE StandardStorage
    BY <2>3 DEF QueueInv, FifoTyped, StandardTyped, PendingEntry, PendingTransfer
  <2>5. DOMAIN store' = Queues /\ DOMAIN pending' = Queues
        /\ store' = [p \in Queues |-> store'[p]] /\ pending' = [p \in Queues |-> pending'[p]]
    BY <1>7, <2>1
  <2>6. store' \in [Queues -> FifoStorage \cup StandardStorage] /\ pending' \in [Queues -> SUBSET PendingTransfer]
    BY <2>4, <2>5
  <2>7. MessageTypeOK'
    BY <1>6, <2>4, <2>6 DEF MessageTypeOK, IsFifo
  <2>8. QueuesInv'
    BY <2>3 DEF QueuesInv, QueueInv, IsFifo
  <2> QED
    BY <2>7, <2>8
<1>8. CASE ReplyOpen(c) /\ Accepts(q, c)
  <2>1. /\ store' = [store EXCEPT ![q] = Accepted(q, c)]
        /\ pending' = [pending EXCEPT ![c.src] = Replied(pending[c.src], {c.msg.id}, "ok")]
    BY <1>8 DEF HandleTransfer, c, SetStore
  <2> DEFINE m == [c.msg EXCEPT !.count = 0]
             key == RedriveKey(NameOf[c.src], m.id)
  <2>2. m \in QueueMessage /\ m.group = c.msg.group /\ m.id \in Nat
    BY <1>5, BoundsAssumption DEF QueueMessage
  <2>3. key \in DedupKey
    BY <1>5, <2>2, QueuesAssumption DEF RedriveKey, DedupKey
  <2>4. QueueInv(q, Accepted(q, c), pending[q])
    <3>1. CASE ~IsFifo(q)
      <4> DEFINE A == Append(store[q].available, m)
      <4>1. StandardTyped(store[q]) /\ pending[q] \subseteq PendingEntry /\ IsFiniteSet(pending[q])
        BY <3>1 DEF QueuesInv, QueueInv
      <4>2. Accepted(q, c) = [store[q] EXCEPT !.available = A]
        BY <3>1 DEF Accepted
      <4>3. A \in Seq(QueueMessage)
        <5> HIDE DEF m
        <5> QED
          BY <2>2, <4>1 DEF StandardTyped, StandardStorage
      <4> HIDE DEF A
      <4>4. StandardTyped(Accepted(q, c))
        BY <4>1, <4>2, <4>3 DEF StandardTyped, StandardStorage
      <4> QED
        BY <3>1, <4>1, <4>4 DEF QueueInv
    <3>2. CASE IsFifo(q) /\ Duplicate(store[q], key)
      BY <3>2 DEF Accepted, QueuesInv
    <3>3. CASE IsFifo(q) /\ ~Duplicate(store[q], key)
      <4>1. Accepted(q, c) = Enqueue(store[q], m, key)
        BY <3>3 DEF Accepted
      <4>2. m.group \in Groups
        BY <1>5, <1>8, <2>2, <3>3 DEF Accepts, QueueMessage
      <4> HIDE DEF m, key
      <4> QED
        BY <3>3, <2>2, <2>3, <4>1, <4>2, EnqueueInv DEF QueuesInv, QueueInv
    <3> QED
      BY <3>1, <3>2, <3>3
  <2> QED
    BY <1>1, <1>2, <1>7, <2>1, <2>4
<1>9. CASE ~(ReplyOpen(c) /\ Accepts(q, c))
  <2>1. /\ store' = [store EXCEPT ![q] = store[q]]
        /\ pending' = [pending EXCEPT ![c.src] = Replied(pending[c.src], {c.msg.id}, "err")]
    BY <1>9 DEF HandleTransfer, c, MessageTypeOK
  <2> QED
    BY <1>1, <1>2, <1>7, <2>1 DEF QueuesInv
<1> QED
  BY <1>8, <1>9

\* The top of the loop settles the answered transfers.
LEMMA LoopTopInv ==
    ASSUME Inv, NEW q \in Queues, LoopTop(q)
    PROVE  Inv'
<1> USE DEF Inv, TypeOK
<1>1. ControlTypeOK'
  BY DEF ControlTypeOK, LoopTop, registryVars
<1>2. LoopTypeOK'
  BY DEF LoopTypeOK, LoopTop, pollVars
<1>3. PICK s \in SettleTransfers(q) : SetStore(q, s)
  BY DEF LoopTop
<1>4. QueueInv(q, s, pending[q] \ Settled(q))
  BY SettleInv DEF QueuesInv
<1>5. pending' = [pending EXCEPT ![q] = pending[q] \ Settled(q)] /\ chan' \in [Queues -> Seq(Command)]
  BY DEF LoopTop, MessageTypeOK
<1> QED
  BY <1>1, <1>2, <1>3, <1>4, <1>5, OneQueueChanges DEF SetStore

\* An actor ends; whoever waited for its answers gets an error.
LEMMA EndsInv ==
    ASSUME Inv, NEW q \in Queues, LoopExit(q) \/ Crash(q)
    PROVE  Inv'
<1> USE DEF Inv, TypeOK
<1>0. Ends(q, "stopped") \/ Ends(q, "crashed")
  BY DEF LoopExit, Crash
<1>1. ControlTypeOK'
  <2>1. Ids(Messages(q)) \subseteq Nat /\ Ids(Owed(q)) \subseteq Nat
    BY IdsTyped DEF QueuesInv
  <2>2. gone' \subseteq Nat
    BY <1>0, <2>1 DEF Ends, ControlTypeOK
  <2>3. quiesceReply' \in [Queues -> {"none", "waiting", "sent"}]
    BY DEF LoopExit, Crash, ControlTypeOK
  <2> QED
    BY <1>0, <2>2, <2>3 DEF Ends, ControlTypeOK
<1>2. LoopTypeOK'
  <2>1. <<>> \in Seq(PendingLongPoll)
    OBVIOUS
  <2> QED
    BY <1>0, <2>1 DEF Ends, LoopTypeOK
<1>3. chan' \in [Queues -> Seq(Command)]
  <2>1. <<>> \in Seq(Command)
    OBVIOUS
  <2> QED
    BY <1>0, <2>1 DEF Ends, MessageTypeOK
<1>4. /\ store' = [store EXCEPT ![q] = Storage(q)]
      /\ pending' = [p \in Queues |-> IF p = q THEN {} ELSE Replied(pending[p], QueuedFrom(q, p), "err")]
      /\ store \in [Queues -> FifoStorage \cup StandardStorage]
  BY <1>0 DEF Ends, SetStore, MessageTypeOK
<1>5. \A p \in Queues : QueueInv(p, store'[p], pending'[p])
  <2>1. QueueInv(q, store'[q], pending'[q])
    BY <1>4, EmptyInv
  <2>2. ASSUME NEW p \in Queues, p # q
        PROVE  QueueInv(p, store'[p], pending'[p])
    <3>1. store'[p] = store[p] /\ pending'[p] = Replied(pending[p], QueuedFrom(q, p), "err")
      BY <1>4, <2>2
    <3>2. QueueInv(p, store[p], pending[p])
      BY DEF QueuesInv
    <3> QED
      BY <3>1, <3>2, RepliedInv
  <2> QED
    BY <2>1, <2>2
<1>6. \A p \in Queues : /\ pending'[p] \subseteq PendingTransfer
                        /\ store'[p] \in IF IsFifo(p) THEN FifoStorage ELSE StandardStorage
  BY <1>5 DEF QueueInv, FifoTyped, StandardTyped, PendingEntry, PendingTransfer
<1>7. store' = [p \in Queues |-> store'[p]] /\ pending' = [p \in Queues |-> pending'[p]]
  BY <1>4
<1>8. store' \in [Queues -> FifoStorage \cup StandardStorage] /\ pending' \in [Queues -> SUBSET PendingTransfer]
  BY <1>6, <1>7
<1>9. MessageTypeOK'
  BY <1>3, <1>6, <1>8 DEF MessageTypeOK, IsFifo
<1>10. QueuesInv'
  BY <1>5 DEF QueuesInv, QueueInv, IsFifo
<1> QED
  BY <1>1, <1>2, <1>9, <1>10

\* Timers of the queue: deliveries return, messages become available, polls
\* run out.
LEMMA CleanupInv ==
    ASSUME Inv, NEW q \in Queues, PeriodicCleanup(q) \/ ExpireLongPolls(q)
    PROVE  Inv'
<1> USE DEF Inv, TypeOK
<1>1. ControlTypeOK'
  BY DEF ControlTypeOK, PeriodicCleanup, ExpireLongPolls, registryVars, controlVars
<1>2. LoopTypeOK'
  BY LoopTypes DEF PeriodicCleanup, ExpireLongPolls
<1>3. chan' \in [Queues -> Seq(Command)] /\ UNCHANGED pending
  BY DEF PeriodicCleanup, ExpireLongPolls, MessageTypeOK
<1>4. CASE ExpireLongPolls(q)
  BY <1>1, <1>2, <1>3, <1>4, NoStoreChanges DEF ExpireLongPolls
<1>5. CASE PeriodicCleanup(q)
  <2>1. PICK s \in IF IsFifo(q) THEN {CleanDedupCache(FifoReturnExpired(store[q]))}
                                ELSE StandardRefresh(store[q]) : SetStore(q, s)
    BY <1>5 DEF PeriodicCleanup
  <2>2. QueueInv(q, s, pending[q])
    <3>1. CASE IsFifo(q)
      <4>1. Due(store[q].inFlight) \subseteq store[q].inFlight
        BY DEF Due
      <4> DEFINE t == FifoReturnExpired(store[q])
      <4>2. FifoTyped(t, pending[q]) /\ GroupInv(t, pending[q])
        BY <3>1, <4>1, FifoReturnInv DEF QueuesInv, QueueInv, FifoReturnExpired
      <4> HIDE DEF t
      <4>3. s = CleanDedupCache(t)
        BY <2>1, <3>1 DEF t
      <4> QED
        BY <3>1, <4>2, <4>3, CleanDedupInv DEF QueueInv
    <3>2. CASE ~IsFifo(q)
      BY <2>1, <3>2, StandardRefreshType DEF QueuesInv, QueueInv
    <3> QED
      BY <3>1, <3>2
  <2> QED
    BY <1>1, <1>2, <1>3, <2>1, <2>2, OneStoreChanges DEF SetStore
<1> QED
  BY <1>4, <1>5

\* One long poll is tried again.
LEMMA FulfillInv ==
    ASSUME Inv, NEW q \in Queues, FulfillPoll(q)
    PROVE  Inv'
<1> USE DEF Inv, TypeOK
<1> DEFINE p == Head(todo[q])
<1>0. todo[q] \in Seq(PendingLongPoll) /\ todo[q] # <<>> /\ polls[q] \in Seq(PendingLongPoll)
  BY DEF FulfillPoll, LoopTypeOK
<1>1. p \in PendingLongPoll /\ Tail(todo[q]) \in Seq(PendingLongPoll)
  BY <1>0
<1>2. ControlTypeOK'
  BY DEF ControlTypeOK, FulfillPoll, registryVars, controlVars
<1>3. todo' \in [Queues -> Seq(PendingLongPoll)]
  BY <1>1 DEF FulfillPoll, LoopTypeOK
<1>a. \A b : Resume(b) \in {"select", "top"}
  BY DEF Resume
<1>4. phase' \in [Queues -> {"select", "fulfil", "cleanup", "top"}]
  <2>1. \E x \in {"select", "fulfil", "cleanup", "top"} : phase' = [phase EXCEPT ![q] = x]
    <3>1. phase[q] \in {"select", "fulfil", "cleanup", "top"}
      BY DEF LoopTypeOK
    <3> QED
      BY <1>a, <3>1 DEF FulfillPoll
  <2> QED
    BY <2>1 DEF LoopTypeOK
<1>5. CASE p.closed /\ UNCHANGED <<store, chan, pending, polls>>
  <2>1. LoopTypeOK'
    BY <1>3, <1>4, <1>5 DEF LoopTypeOK
  <2>2. MessageTypeOK' /\ QueuesInv'
    BY <1>5, NoStoreChanges DEF MessageTypeOK
  <2> QED
    BY <1>2, <2>1, <2>2
<1>6. CASE \E r \in TryReceive(q, p.max, p.vis) :
              /\ SetStore(q, r.store)
              /\ Handoff(q, r.handed)
              /\ \E ps \in {polls[q], Append(polls[q], p)} : polls' = [polls EXCEPT ![q] = ps]
  <2>1. PICK r \in TryReceive(q, p.max, p.vis) :
              /\ SetStore(q, r.store)
              /\ Handoff(q, r.handed)
              /\ \E ps \in {polls[q], Append(polls[q], p)} : polls' = [polls EXCEPT ![q] = ps]
    BY <1>6
  <2>2. p.vis \in Nat
    BY <1>1 DEF PendingLongPoll
  <2>3. Append(polls[q], p) \in Seq(PendingLongPoll)
    BY <1>0, <1>1
  <2> HIDE DEF p
  <2>a. polls' \in [Queues -> Seq(PendingLongPoll)]
    BY <1>0, <2>1, <2>3 DEF LoopTypeOK
  <2>4. LoopTypeOK'
    BY <1>3, <1>4, <2>a DEF LoopTypeOK
  <2>5. /\ QueueInv(q, r.store, pending[q] \cup Taken(r.handed))
        /\ r.handed \subseteq QueueMessage /\ IsFiniteSet(r.handed)
    BY <2>2, TryReceiveInv DEF QueuesInv
  <2>6. pending' = [pending EXCEPT ![q] = pending[q] \cup Taken(r.handed)] /\ chan' \in [Queues -> Seq(Command)]
    BY <2>1, <2>5, HandoffInv
  <2> QED
    BY <1>2, <2>1, <2>4, <2>5, <2>6, OneQueueChanges DEF SetStore
<1> QED
  BY <1>5, <1>6 DEF FulfillPoll

\* Aging keeps the polls polls.
LEMMA AgedPollsType ==
    ASSUME NEW ps \in Seq(PendingLongPoll)
    PROVE  AgedPolls(ps) \in Seq(PendingLongPoll)
<1>1. DOMAIN ps = 1..Len(ps) /\ Len(ps) \in Nat /\ \A i \in 1..Len(ps) : ps[i] \in PendingLongPoll
  OBVIOUS
<1>2. \A p \in PendingLongPoll : [p EXCEPT !.left = Elapsed(p.left)] \in PendingLongPoll
  <2>1. \A n \in Nat : Elapsed(n) \in Nat
    BY DEF Elapsed
  <2> QED
    BY <2>1 DEF PendingLongPoll
<1>3. AgedPolls(ps) \in [1..Len(ps) -> PendingLongPoll]
  BY <1>1, <1>2 DEF AgedPolls
<1> QED
  BY <1>1, <1>3

\* Time goes by for every queue.
LEMMA TickInv ==
    ASSUME Inv, Tick
    PROVE  Inv'
<1> USE DEF Inv, TypeOK
<1>1. ControlTypeOK'
  <2>1. purgeLeft' \in [Queues -> Nat]
    <3>1. \A n \in Nat : Elapsed(n) \in Nat
      BY DEF Elapsed
    <3> QED
      BY <3>1 DEF ControlTypeOK, Tick
  <2> QED
    BY <2>1 DEF ControlTypeOK, Tick, registryVars, controlVars
<1>2. LoopTypeOK'
  BY AgedPollsType DEF LoopTypeOK, Tick
<1>3. UNCHANGED pending /\ chan' \in [Queues -> Seq(Command)]
  BY DEF Tick, MessageTypeOK
<1> DEFINE New(q) == IF IsFifo(q)
                     THEN [store[q] EXCEPT !.inFlight = Aged(store[q].inFlight), !.dedup = Aged(store[q].dedup)]
                     ELSE [store[q] EXCEPT !.inFlight = Aged(store[q].inFlight), !.delayed = Aged(store[q].delayed)]
<1>4. store' = [q \in Queues |-> New(q)]
  BY DEF Tick
<1>5. ASSUME NEW q \in Queues
      PROVE  QueueInv(q, New(q), pending[q])
  <2>1. QueueInv(q, store[q], pending[q])
    BY DEF QueuesInv
  <2>2. CASE IsFifo(q)
    BY <2>1, <2>2, FifoAgedInv DEF QueueInv
  <2>3. CASE ~IsFifo(q)
    <3> DEFINE I == Aged(store[q].inFlight)
               X == Aged(store[q].delayed)
    <3>1. StandardTyped(store[q])
      BY <2>1, <2>3 DEF QueueInv
    <3>2. IsFiniteSet(I) /\ IsFiniteSet(X) /\ I \subseteq InFlightMessage /\ X \subseteq InFlightMessage
      BY <3>1, AgedFacts DEF StandardTyped, StandardStorage
    <3> HIDE DEF I, X
    <3>3. StandardTyped([store[q] EXCEPT !.inFlight = I, !.delayed = X])
      BY <3>1, <3>2 DEF StandardTyped, StandardStorage
    <3> QED
      BY <2>1, <2>3, <3>3 DEF QueueInv, I, X
  <2> QED
    BY <2>2, <2>3
<1> HIDE DEF New
<1>6. \A q \in Queues : New(q) \in IF IsFifo(q) THEN FifoStorage ELSE StandardStorage
  BY <1>5 DEF QueueInv, FifoTyped, StandardTyped
<1>7. MessageTypeOK'
  BY <1>3, <1>4, <1>6 DEF MessageTypeOK, IsFifo
<1>8. QueuesInv'
  BY <1>3, <1>4, <1>5 DEF QueuesInv, QueueInv, IsFifo
<1> QED
  BY <1>1, <1>2, <1>7, <1>8

\* The registry and the provider do not touch messages.
LEMMA RegistryInv ==
    ASSUME Inv,
           \/ \E q \in Queues : \/ RegistryStep(q) \/ VisitHandle(q) \/ HandleVisited(q)
           \/ \E op \in Operations : StartOperation(op)
           \/ OperationDone
    PROVE  Inv'
<1> USE DEF Inv, TypeOK
<1>0. ASSUME ControlTypeOK', UNCHANGED <<polls, todo, phase>>, UNCHANGED <<store, pending>>,
             chan' \in [Queues -> Seq(Command)]
      PROVE  Inv'
  <2>1. LoopTypeOK'
    BY <1>0 DEF LoopTypeOK
  <2> QED
    BY <1>0, <2>1, NoStoreChanges
<1>1. \A q \in Queues, c \in {Quiesce, Shutdown} : Append(chan[q], c) \in Seq(Command)
  <2>1. Quiesce \in Command /\ Shutdown \in Command /\ \A q \in Queues : chan[q] \in Seq(Command)
    BY DEF Command, MessageTypeOK
  <2> QED
    BY <2>1
<1>2. ASSUME NEW q \in Queues, CreateCheck(q) \/ CreateInsert(q) \/ DeleteQueue(q)
      PROVE  Inv'
  <2>1. NameOf[q] \in Names
    BY QueuesAssumption
  <2>2. ControlTypeOK'
    <3>1. registry' \in [Names -> Queues \cup {NoQueue}] /\ shutdown' \in [Queues -> BOOLEAN]
      <4>1. CASE CreateCheck(q)
        BY <4>1 DEF ControlTypeOK, CreateCheck
      <4>2. CASE CreateInsert(q)
        BY <4>2, <2>1 DEF ControlTypeOK, CreateInsert
      <4>3. CASE DeleteQueue(q)
        BY <4>3, <2>1 DEF ControlTypeOK, DeleteQueue
      <4> QED
        BY <1>2, <4>1, <4>2, <4>3
    <3>2. status' \in [Queues -> {"absent", "checked", "running", "stopped", "crashed"}]
      BY <1>2 DEF ControlTypeOK, CreateCheck, CreateInsert, DeleteQueue
    <3>3. UNCHANGED <<attrs, quiescing, quiesceReply, stopping, purgeLeft, provider, nextId, gone>>
      BY <1>2 DEF CreateCheck, CreateInsert, DeleteQueue, controlVars
    <3> QED
      BY <3>1, <3>2, <3>3 DEF ControlTypeOK
  <2> QED
    BY <1>0, <1>2, <2>2 DEF CreateCheck, CreateInsert, DeleteQueue, MessageTypeOK, pollVars
<1>3. ASSUME NEW q \in Queues, SendShutdown(q)
      PROVE  Inv'
  <2>1. ControlTypeOK'
    BY <1>3 DEF ControlTypeOK, SendShutdown, registryVars, controlVars
  <2>2. chan' \in [Queues -> Seq(Command)]
    BY <1>1, <1>3 DEF SendShutdown, MessageTypeOK
  <2> QED
    BY <1>0, <1>3, <2>1, <2>2 DEF SendShutdown, pollVars
<1>4. ASSUME NEW q \in Queues, VisitHandle(q)
      PROVE  Inv'
  <2>1. ControlTypeOK'
    <3>2. [provider EXCEPT !.cur = q] \in Operation /\ [provider EXCEPT !.op = "failed"] \in Operation
      BY DEF ControlTypeOK, Operation
    <3>3. provider' \in Operation
      BY <1>4, <3>2 DEF VisitHandle
    <3>4. shutdown' \in [Queues -> BOOLEAN]
      BY <1>4 DEF ControlTypeOK, VisitHandle
    <3>5. UNCHANGED <<registry, status, attrs, quiescing, quiesceReply, stopping, purgeLeft, nextId, gone>>
      BY <1>4 DEF VisitHandle, controlVars
    <3> QED
      BY <3>3, <3>4, <3>5 DEF ControlTypeOK
  <2>2. chan' \in [Queues -> Seq(Command)]
    BY <1>1, <1>4 DEF VisitHandle, MessageTypeOK
  <2> QED
    BY <1>0, <1>4, <2>1, <2>2 DEF VisitHandle, pollVars
<1>5. ASSUME NEW q \in Queues, HandleVisited(q)
      PROVE  Inv'
  <2>1. ControlTypeOK'
    <3>1. [provider EXCEPT !.cur = NoQueue, !.todo = provider.todo \ {q}] \in Operation
          /\ [provider EXCEPT !.op = "failed", !.cur = NoQueue] \in Operation
      BY DEF ControlTypeOK, Operation
    <3>2. provider' \in Operation
      BY <1>5, <3>1 DEF HandleVisited
    <3>3. UNCHANGED <<registry, status, shutdown, attrs, quiescing, quiesceReply, stopping, purgeLeft, nextId, gone>>
      BY <1>5 DEF HandleVisited, registryVars, controlVars
    <3> QED
      BY <3>2, <3>3 DEF ControlTypeOK
  <2> QED
    BY <1>0, <1>5, <2>1 DEF HandleVisited, MessageTypeOK, pollVars
<1>6. ASSUME NEW op \in Operations, StartOperation(op)
      PROVE  Inv'
  <2>1. Registered \subseteq Queues
    BY DEF Registered, ControlTypeOK
  <2>2. op \in {"quiesce", "shutdown"}
    BY ParametersAssumption
  <2>3. ControlTypeOK'
    <3>1. registry' \in [Names -> Queues \cup {NoQueue}]
      BY <1>6 DEF ControlTypeOK, StartOperation
    <3>2. provider' \in Operation
      <4> HIDE DEF Registered
      <4> QED
        BY <1>6, <2>1, <2>2 DEF StartOperation, Operation
    <3>3. UNCHANGED <<status, shutdown, attrs, quiescing, quiesceReply, stopping, purgeLeft, nextId, gone>>
      BY <1>6 DEF StartOperation, controlVars
    <3> QED
      BY <3>1, <3>2, <3>3 DEF ControlTypeOK
  <2> QED
    BY <1>0, <1>6, <2>3 DEF StartOperation, MessageTypeOK, pollVars
<1>7. ASSUME OperationDone
      PROVE  Inv'
  <2>1. ControlTypeOK'
    <3>1. \A op \in {"quiesced", "down"} : [provider EXCEPT !.op = op] \in Operation
      BY DEF ControlTypeOK, Operation
    <3>2. provider' \in Operation
      BY <1>7, <3>1 DEF OperationDone
    <3>3. UNCHANGED <<registry, status, shutdown, attrs, quiescing, quiesceReply, stopping, purgeLeft, nextId, gone>>
      BY <1>7 DEF OperationDone, registryVars, controlVars
    <3> QED
      BY <3>2, <3>3 DEF ControlTypeOK
  <2> QED
    BY <1>0, <1>7, <2>1 DEF OperationDone, MessageTypeOK, pollVars
<1> QED
  BY <1>2, <1>3, <1>4, <1>5, <1>6, <1>7 DEF RegistryStep

-----------------------------------------------------------------------------
(***************************************************************************)
(* The theorems                                                            *)
(***************************************************************************)
\* A service with its first queues satisfies the invariant.
LEMMA InitInv == Init => Inv
<1> SUFFICES ASSUME Init PROVE Inv
  OBVIOUS
<1>1. ControlTypeOK
  <2>1. registry \in [Names -> Queues \cup {NoQueue}]
    BY QueuesAssumption DEF Init
  <2>2. provider \in Operation
    BY DEF Init, Operation
  <2> QED
    BY <2>1, <2>2, AttrsAssumption DEF Init, ControlTypeOK
<1>2. LoopTypeOK
  <2>1. <<>> \in Seq(PendingLongPoll)
    OBVIOUS
  <2> QED
    BY <2>1 DEF Init, LoopTypeOK
<1>3. QueuesInv
  BY EmptyInv DEF Init, QueuesInv
<1>4. MessageTypeOK
  <2>1. <<>> \in Seq(Command)
    OBVIOUS
  <2>2. \A q \in Queues : Storage(q) \in IF IsFifo(q) THEN FifoStorage ELSE StandardStorage
    BY EmptyInv DEF QueueInv, FifoTyped, StandardTyped
  <2> QED
    BY <2>1, <2>2 DEF Init, MessageTypeOK
<1> QED
  BY <1>1, <1>2, <1>3, <1>4 DEF Inv, TypeOK

\* Every step of the service preserves it.
LEMMA NextInv == Inv /\ [Next]_vars => Inv'
<1> SUFFICES ASSUME Inv, [Next]_vars PROVE Inv'
  OBVIOUS
<1>1. CASE UNCHANGED vars
  BY <1>1 DEF vars, Inv, TypeOK, ControlTypeOK, LoopTypeOK, MessageTypeOK, QueuesInv, QueueInv, IsFifo
<1>2. ASSUME NEW q \in Queues, LoopStep(q) \/ SelectBranch(q) \/ Crash(q)
      PROVE  Inv'
  BY <1>2, LoopTopInv, EndsInv, FulfillInv, TransferInv, FlagsInv, CleanupInv
     DEF LoopStep, SelectBranch, HandleCommand
<1>3. ASSUME NEW q \in Queues, ClientCommand(q)
      PROVE  Inv'
  BY <1>3, SendInv, ReceiveInv, DeliveryInv, PurgeInv, OtherClientInv DEF ClientCommand
<1>4. ASSUME NEW q \in Queues, RegistryStep(q)
      PROVE  Inv'
  BY <1>4, RegistryInv
<1>5. ASSUME (\E op \in Operations : StartOperation(op)) \/ ProviderStep
      PROVE  Inv'
  BY <1>5, RegistryInv DEF ProviderStep
<1> QED
  BY <1>1, <1>2, <1>3, <1>4, <1>5, TickInv DEF Next

\* In every reachable state of the service the invariant holds.
THEOREM Invariant == Spec => []Inv
BY InitInv, NextInv, PTL DEF Spec

\* Every variable keeps its type; above all, the storage of a queue, its
\* channel and its pending transfers hold well-formed messages of its kind,
\* through every receive, hand-off, settlement and end of an actor.
THEOREM TypeCorrect == Spec => []TypeOK
<1>1. Inv => TypeOK
  BY DEF Inv
<1> QED
  BY <1>1, Invariant, PTL

\* A FIFO group is blocked exactly while one message of it is outstanding, and
\* never more than one is: blocked_groups, in_flight and the pending transfers
\* of storage.rs and actor.rs stay in step.
THEOREM GroupBlockingCorrect == Spec => []GroupBlocking
<1>1. Inv => GroupBlocking
  <2> SUFFICES ASSUME Inv, NEW q \in FifoQueues, NEW g \in Groups
               PROVE  /\ g \in store[q].blocked <=> Outstanding(q, g) # {}
                      /\ \A m, n \in Outstanding(q, g) : m = n
    BY DEF GroupBlocking
  <2>1. Blocking(store[q], pending[q])
    BY DEF Inv, QueuesInv, QueueInv, FifoQueues, GroupInv
  <2>2. \A m \in Outstanding(q, g) : \E e \in store[q].inFlight \cup pending[q] : e.msg = m /\ e.msg.group = g
    BY DEF Outstanding
  <2>3. \A e \in store[q].inFlight \cup pending[q] : e.msg.group = g => e.msg \in Outstanding(q, g)
    BY DEF Outstanding
  <2>4. \A m, n \in Outstanding(q, g) : m = n
    BY <2>1, <2>2 DEF Blocking, OneEach
  <2>5. g \in store[q].blocked <=> \E e \in store[q].inFlight \cup pending[q] : e.msg.group = g
    BY <2>1 DEF Blocking
  <2> QED
    BY <2>2, <2>3, <2>4, <2>5
<1> QED
  BY <1>1, Invariant, PTL

\* Strict FIFO per group: a group is sorted by sequence number and its
\* outstanding message precedes all that wait, whatever was returned, restored
\* or redriven before.
THEOREM GroupOrderCorrect == Spec => []GroupOrder
<1>1. Inv => GroupOrder
  <2> SUFFICES ASSUME Inv, NEW q \in FifoQueues, NEW g \in Groups
               PROVE  LET w == store[q].groups[g]
                      IN  /\ \A i, j \in DOMAIN w : i < j => w[i].seq < w[j].seq
                          /\ \A m \in Outstanding(q, g), i \in DOMAIN w : m.seq < w[i].seq
    BY DEF GroupOrder
  <2> DEFINE w == store[q].groups[g]
  <2>1. Sorted(store[q], pending[q]) /\ store[q] \in FifoStorage
    BY DEF Inv, QueuesInv, QueueInv, FifoQueues, GroupInv, FifoTyped
  <2>2. DOMAIN w = 1..Len(w)
    BY <2>1 DEF FifoStorage
  <2>3. \A m \in Outstanding(q, g) : \E e \in store[q].inFlight \cup pending[q] : e.msg = m /\ e.msg.group = g
    BY DEF Outstanding
  <2>4. \A i, j \in 1..Len(w) : i < j => w[i].seq < w[j].seq
    BY <2>1 DEF Sorted
  <2>5. \A m \in Outstanding(q, g), i \in 1..Len(w) : m.seq < w[i].seq
    BY <2>1, <2>3 DEF Sorted
  <2> QED
    BY <2>2, <2>4, <2>5
<1> QED
  BY <1>1, Invariant, PTL

-----------------------------------------------------------------------------
(***************************************************************************)
(* No transfer waits for a reply that cannot come.                         *)
(***************************************************************************)
\* A command is found at its position of the channel.
LEMMA QueuedFromElements ==
    ASSUME NEW t, NEW q, NEW id
    PROVE  id \in QueuedFrom(t, q) <=>
              \E i \in DOMAIN chan[t] :
                 chan[t][i].cmd = "Transfer" /\ chan[t][i].src = q /\ chan[t][i].msg.id = id
BY DEF QueuedFrom

\* Steps that start no transfer, drop no Transfer command and stop no queue.
LEMMA TrackedMonotone ==
    ASSUME TransferTracked,
           \A q \in Queues : \A p \in pending'[q] : p.reply = "empty" => p \in pending[q],
           \A t \in Queues : Alive(t) => Alive(t)',
           \A t, q \in Queues : QueuedFrom(t, q) \subseteq QueuedFrom(t, q)'
    PROVE  TransferTracked'
BY DEF TransferTracked

\* Appending to a channel keeps what is queued.
LEMMA QueuedAfterAppend ==
    ASSUME MessageTypeOK, NEW t \in Queues, NEW new \in Seq(Command),
           chan' = [chan EXCEPT ![t] = chan[t] \o new]
    PROVE  \A u, q \in Queues : QueuedFrom(u, q) \subseteq QueuedFrom(u, q)'
<1> SUFFICES ASSUME NEW u \in Queues, NEW q \in Queues, NEW id \in QueuedFrom(u, q)
             PROVE  id \in QueuedFrom(u, q)'
  OBVIOUS
<1>1. PICK i \in DOMAIN chan[u] :
         chan[u][i].cmd = "Transfer" /\ chan[u][i].src = q /\ chan[u][i].msg.id = id
  BY QueuedFromElements
<1>2. chan[u] \in Seq(Command) /\ chan[t] \in Seq(Command) /\ chan \in [Queues -> Seq(Command)]
  BY DEF MessageTypeOK
<1>3. i \in DOMAIN chan'[u] /\ chan'[u][i] = chan[u][i]
  <2>1. CASE u = t
    <3>1. chan'[u] = chan[u] \o new
      BY <1>2, <2>1
    <3> QED
      BY <1>2, <3>1
  <2>2. CASE u # t
    BY <1>2, <2>2
  <2> QED
    BY <2>1, <2>2
<1> QED
  BY <1>1, <1>3 DEF QueuedFrom

\* Taking the first command keeps what is queued behind it.
LEMMA QueuedAfterTail ==
    ASSUME MessageTypeOK, NEW t \in Queues, chan[t] # <<>>,
           chan' = [chan EXCEPT ![t] = Tail(chan[t])]
    PROVE  \A u, q \in Queues : \A id \in QueuedFrom(u, q) :
              \/ id \in QueuedFrom(u, q)'
              \/ u = t /\ Head(chan[t]).cmd = "Transfer" /\ Head(chan[t]).src = q /\ Head(chan[t]).msg.id = id
<1> SUFFICES ASSUME NEW u \in Queues, NEW q \in Queues, NEW id \in QueuedFrom(u, q)
             PROVE  \/ id \in QueuedFrom(u, q)'
                    \/ u = t /\ Head(chan[t]).cmd = "Transfer" /\ Head(chan[t]).src = q
                       /\ Head(chan[t]).msg.id = id
  OBVIOUS
<1>1. PICK i \in DOMAIN chan[u] :
         chan[u][i].cmd = "Transfer" /\ chan[u][i].src = q /\ chan[u][i].msg.id = id
  BY QueuedFromElements
<1>2. chan[u] \in Seq(Command) /\ chan[t] \in Seq(Command) /\ chan \in [Queues -> Seq(Command)]
  BY DEF MessageTypeOK
<1>3. CASE u # t
  <2>1. chan'[u] = chan[u]
    BY <1>2, <1>3
  <2> QED
    BY <1>1, <2>1 DEF QueuedFrom
<1>4. CASE u = t /\ i = 1
  BY <1>1, <1>2, <1>4
<1>5. CASE u = t /\ i # 1
  <2>1. chan'[u] = Tail(chan[u])
    BY <1>2, <1>5
  <2>2. i - 1 \in DOMAIN chan'[u] /\ chan'[u][i - 1] = chan[u][i]
    BY <1>2, <1>5, <2>1
  <2> QED
    BY <1>1, <2>2 DEF QueuedFrom
<1> QED
  BY <1>3, <1>4, <1>5

\* A hand-off puts the command into a running queue's channel.
LEMMA HandoffTracked ==
    ASSUME Inv, TransferTracked, NEW q \in Queues, NEW ms, ms \subseteq QueueMessage, IsFiniteSet(ms),
           Handoff(q, ms), UNCHANGED status
    PROVE  TransferTracked'
<1> USE DEF Inv, TypeOK
<1>1. CASE ms = {}
  <2>1. UNCHANGED <<chan, pending>>
    BY <1>1 DEF Handoff
  <2> QED
    BY <2>1 DEF TransferTracked, QueuedFrom, Alive
<1>2. CASE ms # {}
  <2>1. PICK t \in Queues : Routable(q, t) /\ \E order \in SetToSeqs(ms) :
           chan' = [chan EXCEPT ![t] = chan[t] \o [i \in DOMAIN order |-> Transfer(order[i], q)]]
    BY <1>2 DEF Handoff
  <2>2. PICK order \in SetToSeqs(ms) :
           chan' = [chan EXCEPT ![t] = chan[t] \o [i \in DOMAIN order |-> Transfer(order[i], q)]]
    BY <2>1
  <2>3. order \in Seq(ms) /\ order \in [1..Cardinality(ms) -> ms] /\ Cardinality(ms) \in Nat
    BY OrderingsType
  <2> DEFINE new == [i \in DOMAIN order |-> Transfer(order[i], q)]
  <2>4. DOMAIN order = 1..Len(order) /\ Len(order) \in Nat /\ \A i \in 1..Len(order) : order[i] \in QueueMessage
    BY <2>3
  <2>5. new \in Seq(Command) /\ Len(new) = Len(order) /\ DOMAIN new = 1..Len(order)
        /\ \A i \in 1..Len(order) : new[i] = Transfer(order[i], q)
    <3>1. \A m \in QueueMessage : Transfer(m, q) \in Command
      BY DEF Transfer, Command
    <3>2. new \in [1..Len(order) -> Command]
      BY <2>4, <3>1
    <3> QED
      BY <2>4, <3>2
  <2>6. \A u, p \in Queues : QueuedFrom(u, p) \subseteq QueuedFrom(u, p)'
    <3>1. chan' = [chan EXCEPT ![t] = chan[t] \o new]
      BY <2>2
    <3> HIDE DEF new
    <3> QED
      BY <2>5, <3>1, QueuedAfterAppend
  <2>7. pending' = [pending EXCEPT ![q] = pending[q] \cup Taken(ms)]
    BY HandoffInv
  <2>8. Alive(t)'
    BY <2>1 DEF Routable, Alive
  <2>9. \A m \in ms : \E i \in DOMAIN order : order[i] = m
    BY OrderingsOnto
  <2>10. ASSUME NEW m \in ms
         PROVE  m.id \in QueuedFrom(t, q)'
    <3>1. PICK i \in 1..Len(order) : order[i] = m
      BY <2>4, <2>9
    <3> DEFINE k == Len(chan[t]) + i
    <3>2. chan[t] \in Seq(Command) /\ chan'[t] = chan[t] \o new
      BY <2>2 DEF MessageTypeOK
    <3>3. k \in DOMAIN chan'[t] /\ chan'[t][k] = new[i]
      <4> HIDE DEF new
      <4> QED
        BY <2>5, <3>2
    <3>4. chan'[t][k] = Transfer(m, q)
      BY <2>5, <3>1, <3>3
    <3> HIDE DEF k, new
    <3>5. chan'[t][k].cmd = "Transfer" /\ chan'[t][k].src = q /\ chan'[t][k].msg.id = m.id
      BY <3>4 DEF Transfer
    <3> QED
      BY <3>3, <3>5 DEF QueuedFrom
  <2>11. ASSUME NEW r \in Queues, NEW p \in pending'[r], p.reply = "empty"
         PROVE  \E u \in Queues : Alive(u)' /\ p.msg.id \in QueuedFrom(u, r)'
    <3>1. p \in pending[r] \/ (r = q /\ p \in Taken(ms))
      BY <2>7, <2>11 DEF MessageTypeOK
    <3>2. CASE p \in pending[r]
      BY <2>6, <2>11, <3>2 DEF TransferTracked, Alive
    <3>3. CASE r = q /\ p \in Taken(ms)
      BY <2>8, <2>10, <3>3, TakenMessages
    <3> QED
      BY <3>1, <3>2, <3>3
  <2> QED
    BY <2>11 DEF TransferTracked
<1> QED
  BY <1>1, <1>2

\* Steps that leave the channels, the transfers and the life of queues alone.
LEMMA TrackedUnchanged ==
    ASSUME TransferTracked, UNCHANGED <<chan, pending, status>>
    PROVE  TransferTracked'
BY DEF TransferTracked, QueuedFrom, Alive

\* Steps of one queue that do not consume a command and hand nothing off.
LEMMA TrackedQuiet ==
    ASSUME Inv, TransferTracked, NEW q \in Queues,
           \/ SendMessageStandard(q) \/ SendMessageFifo(q) \/ DeleteMessage(q) \/ ChangeVisibility(q)
           \/ SetAttributes(q) \/ DropPoll(q) \/ PeriodicCleanup(q) \/ ExpireLongPolls(q)
           \/ WaitForTransfer(q) \/ ChannelClosed(q) \/ DeleteQueue(q) \/ HandleVisited(q)
    PROVE  TransferTracked'
BY TrackedUnchanged
   DEF SendMessageStandard, SendMessageFifo, DeleteMessage, ChangeVisibility, SetAttributes, DropPoll,
       PeriodicCleanup, ExpireLongPolls, WaitForTransfer, ChannelClosed, DeleteQueue, HandleVisited,
       registryVars

\* Steps that only forget transfers, or only let a queue begin to run.
LEMMA TrackedSmaller ==
    ASSUME Inv, TransferTracked, NEW q \in Queues,
           PurgeQueue(q) \/ LoopTop(q) \/ CreateCheck(q) \/ CreateInsert(q)
    PROVE  TransferTracked'
<1> USE DEF Inv, TypeOK
<1>1. UNCHANGED chan
  BY DEF PurgeQueue, LoopTop, CreateCheck, CreateInsert
<1>2. \A p \in Queues : pending'[p] \subseteq pending[p]
  <2>1. CASE PurgeQueue(q)
    BY <2>1 DEF PurgeQueue, MessageTypeOK
  <2>2. CASE LoopTop(q)
    BY <2>2 DEF LoopTop, MessageTypeOK
  <2>3. CASE CreateCheck(q) \/ CreateInsert(q)
    BY <2>3 DEF CreateCheck, CreateInsert
  <2> QED
    BY <2>1, <2>2, <2>3
<1>3. \A t \in Queues : Alive(t) => Alive(t)'
  BY DEF PurgeQueue, LoopTop, CreateCheck, CreateInsert, ControlTypeOK, Alive, registryVars
<1>4. \A t, p \in Queues : QueuedFrom(t, p) \subseteq QueuedFrom(t, p)'
  BY <1>1 DEF QueuedFrom
<1> QED
  BY <1>2, <1>3, <1>4, TrackedMonotone

\* Steps that append a command that is no transfer.
LEMMA TrackedAppend ==
    ASSUME Inv, TransferTracked, NEW q \in Queues, SendShutdown(q) \/ VisitHandle(q)
    PROVE  TransferTracked'
<1> USE DEF Inv, TypeOK
<1>1. UNCHANGED <<pending, status>>
  BY DEF SendShutdown, VisitHandle, registryVars
<1>2. \/ UNCHANGED chan
      \/ \E c \in {Quiesce, Shutdown} : chan' = [chan EXCEPT ![q] = Append(chan[q], c)]
  BY DEF SendShutdown, VisitHandle
<1>3. CASE UNCHANGED chan
  BY <1>1, <1>3, TrackedUnchanged
<1>4. ASSUME NEW c \in {Quiesce, Shutdown}, chan' = [chan EXCEPT ![q] = Append(chan[q], c)]
      PROVE  TransferTracked'
  <2>1. c \in Command /\ chan[q] \in Seq(Command)
    BY DEF Command, MessageTypeOK
  <2>2. <<c>> \in Seq(Command) /\ Append(chan[q], c) = chan[q] \o <<c>>
    BY <2>1
  <2>3. \A t, p \in Queues : QueuedFrom(t, p) \subseteq QueuedFrom(t, p)'
    BY <1>4, <2>2, QueuedAfterAppend
  <2>4. \A t \in Queues : Alive(t) => Alive(t)'
    BY <1>1 DEF Alive
  <2> QED
    BY <1>1, <2>3, <2>4, TrackedMonotone
<1> QED
  BY <1>2, <1>3, <1>4

\* Handling a command that is no transfer.
LEMMA TrackedControl ==
    ASSUME Inv, TransferTracked, NEW q \in Queues, HandleQuiesce(q) \/ HandleShutdown(q)
    PROVE  TransferTracked'
<1> USE DEF Inv, TypeOK
<1>1. /\ UNCHANGED <<pending, status>> /\ chan' = [chan EXCEPT ![q] = Tail(chan[q])]
      /\ chan[q] # <<>> /\ Head(chan[q]).cmd # "Transfer"
  BY DEF HandleQuiesce, HandleShutdown, Receives, registryVars
<1>2. \A t, p \in Queues : QueuedFrom(t, p) \subseteq QueuedFrom(t, p)'
  BY <1>1, QueuedAfterTail
<1>3. \A t \in Queues : Alive(t) => Alive(t)'
  BY <1>1 DEF Alive
<1> QED
  BY <1>1, <1>2, <1>3, TrackedMonotone

\* After an answer the transfers it names are no longer open.
LEMMA RepliedOpen ==
    ASSUME NEW P, P \subseteq PendingTransfer, NEW ids, NEW answer \in {"ok", "err"},
           NEW p \in Replied(P, ids, answer), p.reply = "empty"
    PROVE  p \in P /\ p.msg.id \notin ids
<1>1. PICK r \in P : p = IF r.msg.id \in ids /\ r.reply = "empty" THEN [r EXCEPT !.reply = answer] ELSE r
  BY DEF Replied
<1>2. CASE r.msg.id \in ids /\ r.reply = "empty"
  BY <1>1, <1>2 DEF PendingTransfer
<1>3. CASE ~(r.msg.id \in ids /\ r.reply = "empty")
  BY <1>1, <1>3
<1> QED
  BY <1>2, <1>3

\* Handling a transfer answers it; the others stay where they are.
LEMMA TrackedTransfer ==
    ASSUME Inv, TransferTracked, NEW q \in Queues, HandleTransfer(q)
    PROVE  TransferTracked'
<1> USE DEF Inv, TypeOK
<1> DEFINE c == Head(chan[q])
<1>1. PICK answer \in {"ok", "err"} :
         pending' = [pending EXCEPT ![c.src] = Replied(pending[c.src], {c.msg.id}, answer)]
  BY DEF HandleTransfer
<1>2. /\ UNCHANGED status /\ chan' = [chan EXCEPT ![q] = Tail(chan[q])]
      /\ chan[q] # <<>>
  BY DEF HandleTransfer, Receives, registryVars
<1> SUFFICES ASSUME NEW r \in Queues, NEW p \in pending'[r], p.reply = "empty"
             PROVE  \E u \in Queues : Alive(u)' /\ p.msg.id \in QueuedFrom(u, r)'
  BY DEF TransferTracked
<1>3. p \in pending[r] /\ (r = c.src => p.msg.id # c.msg.id)
  <2>1. pending \in [Queues -> SUBSET PendingTransfer]
    BY DEF MessageTypeOK
  <2> HIDE DEF c
  <2>2. CASE r = c.src
    <3> DEFINE ids == {c.msg.id}
    <3>1. p \in Replied(pending[r], ids, answer) /\ pending[r] \subseteq PendingTransfer
      BY <1>1, <2>1, <2>2
    <3>2. p \in pending[r] /\ p.msg.id \notin ids
      <4> HIDE DEF ids
      <4> QED
        BY <3>1, RepliedOpen
    <3> QED
      BY <3>2
  <2>3. CASE r # c.src
    BY <1>1, <2>1, <2>3
  <2> QED
    BY <2>2, <2>3
<1>4. PICK u \in Queues : Alive(u) /\ p.msg.id \in QueuedFrom(u, r)
  BY <1>3 DEF TransferTracked
<1>5. p.msg.id \in QueuedFrom(u, r)'
  <2> DEFINE id == p.msg.id
  <2>1. id \in QueuedFrom(u, r) /\ (r = c.src => id # c.msg.id)
    BY <1>3, <1>4
  <2>a. MessageTypeOK
    OBVIOUS
  <2> HIDE DEF id, c, Inv, TypeOK
  <2>b. id \in QueuedFrom(u, r)' \/ (c.src = r /\ c.msg.id = id)
    <3>1. chan[q] # <<>> /\ chan' = [chan EXCEPT ![q] = Tail(chan[q])]
      BY <1>2
    <3>2. \A x, y \in Queues : \A k \in QueuedFrom(x, y) :
             \/ k \in QueuedFrom(x, y)'
             \/ x = q /\ c.cmd = "Transfer" /\ c.src = y /\ c.msg.id = k
      BY <3>1, <2>a, QueuedAfterTail DEF c
    <3> QED
      BY <3>2, <2>1
  <2>2. id \in QueuedFrom(u, r)'
    BY <2>1, <2>b
  <2> QED
    BY <2>2 DEF id
<1> QED
  BY <1>2, <1>4, <1>5 DEF Alive

\* The end of an actor answers every transfer in its channel.
LEMMA TrackedEnds ==
    ASSUME Inv, TransferTracked, NEW q \in Queues, LoopExit(q) \/ Crash(q)
    PROVE  TransferTracked'
<1> USE DEF Inv, TypeOK
<1>0. Ends(q, "stopped") \/ Ends(q, "crashed")
  BY DEF LoopExit, Crash
<1>1. /\ pending' = [p \in Queues |-> IF p = q THEN {} ELSE Replied(pending[p], QueuedFrom(q, p), "err")]
      /\ chan' = [chan EXCEPT ![q] = <<>>] /\ chan \in [Queues -> Seq(Command)]
      /\ \A t \in Queues : t # q => status'[t] = status[t]
  BY <1>0 DEF Ends, MessageTypeOK, ControlTypeOK
<1> SUFFICES ASSUME NEW r \in Queues, NEW p \in pending'[r], p.reply = "empty"
             PROVE  \E u \in Queues : Alive(u)' /\ p.msg.id \in QueuedFrom(u, r)'
  BY DEF TransferTracked
<1>2. r # q /\ p \in Replied(pending[r], QueuedFrom(q, r), "err") /\ pending[r] \subseteq PendingTransfer
  BY <1>1 DEF MessageTypeOK
<1>3. p \in pending[r] /\ p.msg.id \notin QueuedFrom(q, r)
  BY <1>2, RepliedOpen
<1>4. PICK u \in Queues : Alive(u) /\ p.msg.id \in QueuedFrom(u, r)
  BY <1>3 DEF TransferTracked
<1>5. u # q
  BY <1>3, <1>4
<1>6. chan'[u] = chan[u] /\ Alive(u)'
  BY <1>1, <1>4, <1>5 DEF Alive
<1>7. p.msg.id \in QueuedFrom(u, r)'
  BY <1>4, <1>6 DEF QueuedFrom
<1> QED
  BY <1>6, <1>7

\* A receive, on request or for a waiting poll.
LEMMA TrackedReceive ==
    ASSUME Inv, TransferTracked, NEW q \in Queues, ReceiveMessage(q) \/ FulfillPoll(q)
    PROVE  TransferTracked'
<1> USE DEF Inv, TypeOK
<1>1. UNCHANGED status
  BY DEF ReceiveMessage, FulfillPoll, registryVars
<1>2. ASSUME NEW max, NEW vis \in Nat, NEW r \in TryReceive(q, max, vis), Handoff(q, r.handed)
      PROVE  TransferTracked'
  <2>1. r.handed \subseteq QueueMessage /\ IsFiniteSet(r.handed)
    BY <1>2, TryReceiveInv DEF QueuesInv
  <2> QED
    BY <1>1, <1>2, <2>1, HandoffTracked
<1>3. CASE ReceiveMessage(q)
  <2>1. \E max \in MaxChoices, vis \in VisChoices : \E r \in TryReceive(q, max, vis) : Handoff(q, r.handed)
    BY <1>3 DEF ReceiveMessage
  <2>2. VisChoices \subseteq Nat
    BY ParametersAssumption
  <2> QED
    BY <1>2, <2>1, <2>2
<1>4. CASE FulfillPoll(q)
  <2> DEFINE p == Head(todo[q])
  <2>1. todo[q] \in Seq(PendingLongPoll) /\ todo[q] # <<>>
    BY <1>4 DEF FulfillPoll, LoopTypeOK
  <2>2. p \in PendingLongPoll
    BY <2>1
  <2>3. p.vis \in Nat
    BY <2>2 DEF PendingLongPoll
  <2>4. \/ UNCHANGED <<chan, pending>>
        \/ \E r \in TryReceive(q, p.max, p.vis) : Handoff(q, r.handed)
    BY <1>4 DEF FulfillPoll
  <2> HIDE DEF p
  <2> QED
    BY <1>1, <1>2, <2>3, <2>4, TrackedUnchanged
<1> QED
  BY <1>3, <1>4

\* No dead-letter transfer waits for a reply that cannot come: while the reply
\* of RedriveManager::pending is missing, a running queue has the command in
\* its channel; a target that stops, crashes or rejects answers first.
THEOREM TransferTrackedCorrect == Spec => []TransferTracked
<1>1. Init => TransferTracked
  BY DEF Init, TransferTracked
<1>2. ASSUME Inv, TransferTracked, [Next]_vars
      PROVE  TransferTracked'
  <2>1. CASE UNCHANGED vars
    BY <1>2, <2>1, TrackedUnchanged DEF vars
  <2>2. ASSUME NEW q \in Queues, LoopStep(q) \/ SelectBranch(q) \/ Crash(q)
        PROVE  TransferTracked'
    BY <1>2, <2>2, TrackedQuiet, TrackedSmaller, TrackedControl, TrackedTransfer, TrackedEnds, TrackedReceive
       DEF LoopStep, SelectBranch, HandleCommand
  <2>3. ASSUME NEW q \in Queues, ClientCommand(q)
        PROVE  TransferTracked'
    BY <1>2, <2>3, TrackedQuiet, TrackedSmaller, TrackedReceive DEF ClientCommand
  <2>4. ASSUME NEW q \in Queues, RegistryStep(q)
        PROVE  TransferTracked'
    BY <1>2, <2>4, TrackedQuiet, TrackedSmaller, TrackedAppend DEF RegistryStep
  <2>5. CASE ProviderStep
    <3>1. CASE OperationDone
      BY <1>2, <3>1, TrackedUnchanged DEF OperationDone, registryVars
    <3>2. ASSUME NEW q \in Queues, VisitHandle(q) \/ HandleVisited(q)
          PROVE  TransferTracked'
      BY <1>2, <3>2, TrackedAppend, TrackedQuiet
    <3> QED
      BY <2>5, <3>1, <3>2 DEF ProviderStep
  <2>6. CASE \E op \in Operations : StartOperation(op)
    BY <1>2, <2>6, TrackedUnchanged DEF StartOperation
  <2>7. CASE Tick
    BY <1>2, <2>7, TrackedUnchanged DEF Tick, registryVars
  <2> QED
    BY <1>2, <2>1, <2>2, <2>3, <2>4, <2>5, <2>6, <2>7 DEF Next
<1> QED
  BY <1>1, <1>2, Invariant, PTL DEF Spec

-----------------------------------------------------------------------------
(***************************************************************************)
(* The quiesce barrier                                                     *)
(***************************************************************************)
\* The queue has no transfer under way and will not start one.
Drained(q) == quiescing[q] /\ pending[q] = {}

\* A queue that has answered is drained, and so is one the provider is done with.
BarrierInv ==
    /\ \A q \in Queues : /\ quiesceReply[q] # "none" => quiescing[q]
                         /\ quiesceReply[q] = "sent" => Drained(q)
    /\ provider.op \in {"quiesce", "quiesced"} => \A q \in provider.all \ provider.todo : Drained(q)
    /\ provider.op = "quiesced" => provider.todo = {}

\* No reply arrives where none is awaited.
LEMMA RepliedEmpty ==
    ASSUME NEW ids, NEW answer
    PROVE  Replied({}, ids, answer) = {}
BY DEF Replied

\* A hand-off is refused to a queue that is quiescing.
LEMMA DrainedReceive ==
    ASSUME MessageTypeOK, NEW q \in Queues, Drained(q), NEW p \in Queues, NEW ms, Handoff(p, ms)
    PROVE  pending'[q] = {}
<1>1. CASE p = q
  BY <1>1 DEF Handoff, Drained
<1>2. CASE p # q
  <2>1. pending' = pending \/ \E S : pending' = [pending EXCEPT ![p] = S]
    BY DEF Handoff
  <2> QED
    BY <1>2, <2>1 DEF MessageTypeOK, Drained
<1> QED
  BY <1>1, <1>2

\* The flag is never taken back.
LEMMA QuiescingStays ==
    ASSUME ControlTypeOK, [Next]_vars, NEW q \in Queues, quiescing[q]
    PROVE  quiescing'[q]
<1>1. quiescing \in [Queues -> BOOLEAN]
  BY DEF ControlTypeOK
<1>2. UNCHANGED quiescing \/ \E p \in Queues : quiescing' = [quiescing EXCEPT ![p] = TRUE]
  <2>1. CASE UNCHANGED vars
    BY <2>1 DEF vars
  <2>2. ASSUME NEW p \in Queues, LoopStep(p) \/ SelectBranch(p) \/ ClientCommand(p)
                                 \/ RegistryStep(p) \/ Crash(p)
        PROVE  UNCHANGED quiescing \/ quiescing' = [quiescing EXCEPT ![p] = TRUE]
    <3>1. CASE LoopStep(p) \/ Crash(p)
      BY <3>1 DEF LoopStep, LoopTop, LoopExit, FulfillPoll, Crash, Ends, controlVars
    <3>2. CASE SelectBranch(p)
      BY <3>2 DEF SelectBranch, HandleCommand, HandleTransfer, HandleQuiesce, HandleShutdown,
         ChannelClosed, WaitForTransfer, PeriodicCleanup, ExpireLongPolls, controlVars
    <3>3. CASE ClientCommand(p)
      BY <3>3 DEF ClientCommand, SendMessageStandard, SendMessageFifo, ReceiveMessage, DeleteMessage,
         ChangeVisibility, PurgeQueue, SetAttributes, DropPoll, controlVars
    <3>4. CASE RegistryStep(p)
      BY <3>4 DEF RegistryStep, CreateCheck, CreateInsert, DeleteQueue, SendShutdown, controlVars
    <3> QED
      BY <2>2, <3>1, <3>2, <3>3, <3>4
  <2>3. CASE Tick \/ ProviderStep \/ \E op \in Operations : StartOperation(op)
    BY <2>3 DEF Tick, ProviderStep, VisitHandle, HandleVisited, OperationDone, StartOperation, controlVars
  <2> QED
    BY <2>1, <2>2, <2>3 DEF Next
<1> QED
  BY <1>1, <1>2

\* Nothing that happens gives a drained queue a transfer again.
LEMMA DrainedStays ==
    ASSUME Inv, [Next]_vars, NEW q \in Queues, Drained(q)
    PROVE  Drained(q)'
<1> USE DEF Inv, TypeOK
<1>1. quiescing'[q]
  BY QuiescingStays DEF Drained
<1>2. pending[q] = {} /\ pending \in [Queues -> SUBSET PendingTransfer]
  BY DEF Drained, MessageTypeOK
<1>3. pending'[q] = {}
  <2>1. CASE UNCHANGED pending
    BY <1>2, <2>1
  <2>2. ASSUME NEW p \in Queues, LoopTop(p)
        PROVE  pending'[q] = {}
    BY <1>2, <2>2 DEF LoopTop
  <2>3. ASSUME NEW p \in Queues, LoopExit(p) \/ Crash(p)
        PROVE  pending'[q] = {}
    <3>1. pending' = [r \in Queues |-> IF r = p THEN {} ELSE Replied(pending[r], QueuedFrom(p, r), "err")]
      BY <2>3 DEF LoopExit, Crash, Ends
    <3> QED
      BY <1>2, <3>1, RepliedEmpty
  <2>4. ASSUME NEW p \in Queues, ReceiveMessage(p) \/ FulfillPoll(p)
        PROVE  pending'[q] = {}
    <3>1. UNCHANGED pending \/ \E ms : Handoff(p, ms)
      BY <2>4 DEF ReceiveMessage, FulfillPoll
    <3> QED
      BY <1>2, <3>1, DrainedReceive
  <2>5. ASSUME NEW p \in Queues, HandleTransfer(p)
        PROVE  pending'[q] = {}
    <3>1. \E src, ids, answer : pending' = [pending EXCEPT ![src] = Replied(pending[src], ids, answer)]
      BY <2>5 DEF HandleTransfer
    <3> QED
      BY <1>2, <3>1, RepliedEmpty
  <2>6. ASSUME NEW p \in Queues, PurgeQueue(p)
        PROVE  pending'[q] = {}
    BY <1>2, <2>6 DEF PurgeQueue
  <2>7. CASE UNCHANGED vars
    BY <2>1, <2>7 DEF vars
  <2>8. ASSUME NEW p \in Queues, SelectBranch(p), ~HandleTransfer(p)
        PROVE  UNCHANGED pending
    BY <2>8 DEF SelectBranch, HandleCommand, HandleQuiesce, HandleShutdown,
         ChannelClosed, WaitForTransfer, PeriodicCleanup, ExpireLongPolls
  <2>9. ASSUME NEW p \in Queues, ClientCommand(p), ~ReceiveMessage(p), ~PurgeQueue(p)
        PROVE  UNCHANGED pending
    BY <2>9 DEF ClientCommand, SendMessageStandard, SendMessageFifo, DeleteMessage,
         ChangeVisibility, SetAttributes, DropPoll
  <2>10. ASSUME NEW p \in Queues, RegistryStep(p)
         PROVE  UNCHANGED pending
    BY <2>10 DEF RegistryStep, CreateCheck, CreateInsert, DeleteQueue, SendShutdown
  <2>11. CASE Tick \/ ProviderStep \/ \E op \in Operations : StartOperation(op)
    <3>1. UNCHANGED pending
      BY <2>11 DEF Tick, ProviderStep, VisitHandle, HandleVisited, OperationDone, StartOperation
    <3> QED
      BY <2>1, <3>1
  <2> QED
    BY <2>1, <2>2, <2>3, <2>4, <2>5, <2>6, <2>7, <2>8, <2>9, <2>10, <2>11 DEF Next, LoopStep
<1> QED
  BY <1>1, <1>3 DEF Drained

\* A queue answers once nothing is pending.
LEMMA RepliesDrained ==
    ASSUME Inv, BarrierInv, [Next]_vars, NEW q \in Queues
    PROVE  /\ quiesceReply'[q] # "none" => quiescing'[q]
           /\ quiesceReply'[q] = "sent" => Drained(q)'
<1> USE DEF Inv, TypeOK
<1>0. /\ quiesceReply \in [Queues -> {"none", "waiting", "sent"}]
      /\ quiescing \in [Queues -> BOOLEAN] /\ pending \in [Queues -> SUBSET PendingTransfer]
  BY DEF ControlTypeOK, MessageTypeOK
<1>1. /\ quiesceReply[q] # "none" => quiescing[q]
      /\ quiesceReply[q] = "sent" => Drained(q)
  BY DEF BarrierInv
<1>2. CASE quiesceReply'[q] = quiesceReply[q]
  BY <1>1, <1>2, QuiescingStays, DrainedStays
<1>3. CASE HandleQuiesce(q)
  BY <1>0, <1>3 DEF HandleQuiesce
<1>4. CASE LoopTop(q) /\ quiesceReply'[q] # quiesceReply[q]
  <2>1. quiesceReply[q] = "waiting" /\ Settled(q) = pending[q]
    BY <1>0, <1>4 DEF LoopTop
  <2>2. pending'[q] = {} /\ quiescing'[q]
    BY <1>0, <1>1, <1>4, <2>1 DEF LoopTop
  <2> QED
    BY <2>2 DEF Drained
<1>5. CASE LoopExit(q) /\ quiesceReply'[q] # quiesceReply[q]
  <2>1. quiesceReply[q] = "waiting"
    BY <1>0, <1>5 DEF LoopExit
  <2>2. pending'[q] = {} /\ quiescing' = quiescing
    BY <1>0, <1>5 DEF LoopExit, Ends
  <2> QED
    BY <1>1, <2>1, <2>2 DEF Drained
<1>6. \/ UNCHANGED quiesceReply
      \/ \E p \in Queues : HandleQuiesce(p) \/ LoopTop(p) \/ LoopExit(p)
  <2>1. CASE UNCHANGED vars
    BY <2>1 DEF vars
  <2>2. ASSUME NEW p \in Queues, LoopStep(p) \/ Crash(p), ~LoopTop(p), ~LoopExit(p)
        PROVE  UNCHANGED quiesceReply
    BY <2>2 DEF LoopStep, FulfillPoll, Crash, controlVars
  <2>3. ASSUME NEW p \in Queues, SelectBranch(p), ~HandleQuiesce(p)
        PROVE  UNCHANGED quiesceReply
    BY <2>3 DEF SelectBranch, HandleCommand, HandleTransfer, HandleShutdown, ChannelClosed,
       WaitForTransfer, PeriodicCleanup, ExpireLongPolls, controlVars
  <2>4. ASSUME NEW p \in Queues, ClientCommand(p)
        PROVE  UNCHANGED quiesceReply
    BY <2>4 DEF ClientCommand, SendMessageStandard, SendMessageFifo, ReceiveMessage, DeleteMessage,
       ChangeVisibility, PurgeQueue, SetAttributes, DropPoll, controlVars
  <2>5. ASSUME NEW p \in Queues, RegistryStep(p)
        PROVE  UNCHANGED quiesceReply
    BY <2>5 DEF RegistryStep, CreateCheck, CreateInsert, DeleteQueue, SendShutdown, controlVars
  <2>6. CASE Tick \/ ProviderStep \/ \E op \in Operations : StartOperation(op)
    BY <2>6 DEF Tick, ProviderStep, VisitHandle, HandleVisited, OperationDone, StartOperation, controlVars
  <2> QED
    BY <2>1, <2>2, <2>3, <2>4, <2>5, <2>6 DEF Next
<1>7. ASSUME NEW p \in Queues, p # q, HandleQuiesce(p) \/ LoopTop(p) \/ LoopExit(p)
      PROVE  quiesceReply'[q] = quiesceReply[q]
  BY <1>0, <1>7 DEF HandleQuiesce, LoopTop, LoopExit
<1> QED
  BY <1>2, <1>3, <1>4, <1>5, <1>6, <1>7

\* The provider counts a queue as done only when it has answered.
LEMMA ProviderDrained ==
    ASSUME Inv, BarrierInv, [Next]_vars
    PROVE  /\ provider'.op \in {"quiesce", "quiesced"} =>
                 \A q \in provider'.all \ provider'.todo : Drained(q)'
           /\ provider'.op = "quiesced" => provider'.todo = {}
<1> USE DEF Inv, TypeOK
<1>0. provider \in Operation
  BY DEF ControlTypeOK
<1>1. provider.all \subseteq Queues
  BY <1>0 DEF Operation
<1>2. CASE UNCHANGED provider
  BY <1>1, <1>2, DrainedStays DEF BarrierInv
<1>3. ASSUME NEW op \in Operations, StartOperation(op)
      PROVE  /\ provider'.op = op /\ provider'.all = provider'.todo
  BY <1>3 DEF StartOperation
<1>4. Operations \subseteq {"quiesce", "shutdown"}
  BY ParametersAssumption
<1>5. ASSUME NEW q \in Queues, VisitHandle(q), ~UNCHANGED provider
      PROVE  /\ provider'.all = provider.all /\ provider'.todo = provider.todo
             /\ provider'.op \in {provider.op, "failed"} /\ provider.op # "quiesced"
  BY <1>0, <1>5 DEF VisitHandle, Operation
<1>6. ASSUME NEW q \in Queues, HandleVisited(q)
      PROVE  /\ provider'.all = provider.all
             /\ \/ /\ provider'.op = provider.op /\ provider'.todo = provider.todo \ {q}
                   /\ provider.op # "shutdown" => quiesceReply[q] = "sent"
                \/ provider'.op = "failed"
  BY <1>0, <1>6 DEF HandleVisited, Operation
<1>7. ASSUME OperationDone
      PROVE  /\ provider'.all = provider.all /\ provider'.todo = {} /\ provider.todo = {}
             /\ provider'.op = "quiesced" => provider.op = "quiesce"
             /\ provider'.op # "quiesce"
  BY <1>0, <1>7 DEF OperationDone, Operation
<1>8. \/ UNCHANGED provider
      \/ \E op \in Operations : StartOperation(op)
      \/ \E q \in Queues : VisitHandle(q) \/ HandleVisited(q)
      \/ OperationDone
  <2>1. CASE UNCHANGED vars
    BY <2>1 DEF vars
  <2>2. ASSUME NEW p \in Queues, LoopStep(p) \/ Crash(p)
        PROVE  UNCHANGED provider
    BY <2>2 DEF LoopStep, LoopTop, LoopExit, FulfillPoll, Crash, Ends
  <2>3. ASSUME NEW p \in Queues, SelectBranch(p)
        PROVE  UNCHANGED provider
    BY <2>3 DEF SelectBranch, HandleCommand, HandleTransfer, HandleQuiesce, HandleShutdown, ChannelClosed,
       WaitForTransfer, PeriodicCleanup, ExpireLongPolls
  <2>4. ASSUME NEW p \in Queues, ClientCommand(p)
        PROVE  UNCHANGED provider
    BY <2>4 DEF ClientCommand, SendMessageStandard, SendMessageFifo, ReceiveMessage, DeleteMessage,
       ChangeVisibility, PurgeQueue, SetAttributes, DropPoll
  <2>5. ASSUME NEW p \in Queues, RegistryStep(p)
        PROVE  UNCHANGED provider
    BY <2>5 DEF RegistryStep, CreateCheck, CreateInsert, DeleteQueue, SendShutdown
  <2>6. CASE Tick
    BY <2>6 DEF Tick
  <2> QED
    BY <2>1, <2>2, <2>3, <2>4, <2>5, <2>6 DEF Next, ProviderStep
<1>9. CASE \E q \in Queues : HandleVisited(q)
  <2>1. PICK q \in Queues : HandleVisited(q)
    BY <1>9
  <2>2. CASE provider'.op = "failed"
    BY <2>2
  <2>3. CASE /\ provider'.op = provider.op /\ provider'.todo = provider.todo \ {q}
             /\ provider.op # "shutdown" => quiesceReply[q] = "sent"
    <3>1. provider.op # "shutdown" => Drained(q)
      BY <2>3 DEF BarrierInv
    <3>2. provider.op \in {"quiesce", "quiesced"} =>
             \A p \in provider'.all \ provider'.todo : Drained(p)
      BY <1>6, <2>1, <2>3, <3>1 DEF BarrierInv
    <3>3. provider'.all \subseteq Queues
      BY <1>1, <1>6, <2>1
    <3>4. provider'.op \in {"quiesce", "quiesced"} =>
             \A p \in provider'.all \ provider'.todo : Drained(p)'
      BY <2>3, <3>2, <3>3, DrainedStays
    <3> QED
      BY <2>3, <3>4 DEF BarrierInv
  <2> QED
    BY <1>6, <2>1, <2>2, <2>3
<1>10. CASE OperationDone
  BY <1>1, <1>7, <1>10, DrainedStays DEF BarrierInv
<1>11. CASE \E q \in Queues : VisitHandle(q) /\ ~UNCHANGED provider
  BY <1>1, <1>5, <1>11, DrainedStays DEF BarrierInv
<1>12. CASE \E op \in Operations : StartOperation(op)
  BY <1>3, <1>4, <1>12
<1> QED
  BY <1>2, <1>8, <1>9, <1>10, <1>11, <1>12

\* When RustackSqs::quiesce has returned Ok, the queues it visited have no
\* transfer under way, neither as source nor in any channel, whatever the
\* clients and the other actors did in the meantime.
THEOREM QuiesceBarrierCorrect == Spec => []QuiesceBarrier
<1>1. Init => BarrierInv
  BY DEF Init, BarrierInv
<1>2. Inv /\ BarrierInv /\ [Next]_vars => BarrierInv'
  BY RepliesDrained, ProviderDrained DEF BarrierInv
<1>3. Inv /\ BarrierInv => QuiesceBarrier
  <2> SUFFICES ASSUME Inv, BarrierInv, provider.op = "quiesced", NEW q \in provider.all
               PROVE  /\ pending[q] = {}
                      /\ \A t \in Queues : \A i \in DOMAIN chan[t] :
                            chan[t][i].cmd = "Transfer" /\ chan[t][i].src = q => ~ReplyOpen(chan[t][i])
    BY DEF QuiesceBarrier
  <2>1. pending[q] = {}
    BY DEF BarrierInv, Drained
  <2> QED
    BY <2>1 DEF ReplyOpen
<1> QED
  BY <1>1, <1>2, <1>3, Invariant, PTL DEF Spec

-----------------------------------------------------------------------------
(***************************************************************************)
(* No message overtakes another of its group                               *)
(***************************************************************************)
InFlightIds(s) == {e.msg.id : e \in s.inFlight}

\* What a delivery added in the step from storage s to t may not overtake.
NotOvertaken(s, P, t) ==
    \A e \in t.inFlight :
       e.msg.id \notin InFlightIds(s) =>
          \A m \in FifoMessages(s) \cup {p.msg : p \in P} : m.group = e.msg.group => m.seq >= e.msg.seq

\* Nothing overtakes where nothing new is in flight.
LEMMA NoNewDelivery ==
    ASSUME NEW s, NEW P, NEW t, InFlightIds(t) \subseteq InFlightIds(s)
    PROVE  NotOvertaken(s, P, t)
BY DEF NotOvertaken, InFlightIds

\* The operations that deliver nothing.
LEMMA QuietOperations ==
    ASSUME NEW s \in FifoStorage
    PROVE  /\ \A m, key : Enqueue(s, m, key).inFlight = s.inFlight
           /\ \A gs, ms : FinishRedrive(s, gs, ms).inFlight = s.inFlight
           /\ \A e : FifoDelete(s, e).inFlight \subseteq s.inFlight
           /\ \A es : FifoReturn(s, es).inFlight \subseteq s.inFlight
           /\ CleanDedupCache(s).inFlight = s.inFlight
           /\ FifoPurge(s).inFlight = {} /\ FifoInit.inFlight = {}
<1>1. \A m, key : Enqueue(s, m, key).inFlight = s.inFlight
  BY DEF Enqueue, FifoStorage
<1>2. \A gs, ms : FinishRedrive(s, gs, ms).inFlight = s.inFlight
  BY DEF FinishRedrive, FifoStorage
<1>3. \A e : FifoDelete(s, e).inFlight \subseteq s.inFlight
  BY DEF FifoDelete, FifoStorage
<1>4. \A es : FifoReturn(s, es).inFlight \subseteq s.inFlight
  BY DEF FifoReturn, FifoStorage
<1>5. CleanDedupCache(s).inFlight = s.inFlight
  BY DEF CleanDedupCache, FifoStorage
<1>6. FifoPurge(s).inFlight = {} /\ FifoInit.inFlight = {}
  BY DEF FifoPurge, FifoInit, FifoStorage
<1> QED
  BY <1>1, <1>2, <1>3, <1>4, <1>5, <1>6

\* A message that returns to its group is not lost to it.
LEMMA ReturnKeepsMessages ==
    ASSUME NEW s, NEW P, FifoTyped(s, P), GroupInv(s, P), NEW es, es \subseteq s.inFlight,
           NEW m \in FifoMessages(s)
    PROVE  \/ \E g \in Groups : \E i \in 1..Len(FifoReturn(s, es).groups[g]) :
                 FifoReturn(s, es).groups[g][i] = m
           \/ \E e \in FifoReturn(s, es).inFlight : e.msg = m
<1>0. s \in FifoStorage /\ s.groups \in [Groups -> Seq(QueueMessage)]
  BY DEF FifoTyped, FifoStorage
<1>1. PICK R, t : R = {e.msg : e \in es} /\ t = FifoReturn(s, es)
  OBVIOUS
<1>2. t.groups = PushFront(s.groups, R) /\ t.inFlight = s.inFlight \ es
  BY <1>0, <1>1 DEF FifoReturn, FifoStorage
<1>3. \A x \in R : x \in QueueMessage /\ x.group \in Groups
  BY <1>0, <1>1 DEF GroupInv, Blocking, FifoStorage, InFlightMessage
<1>4. \A x, y \in R : x.group = y.group => x = y
  BY <1>1 DEF GroupInv, Blocking, OneEach
<1>5. ASSUME NEW g \in Groups
      PROVE  t.groups[g] = IF \E x \in R : x.group = g
                           THEN <<CHOOSE x \in R : x.group = g>> \o s.groups[g] ELSE s.groups[g]
  BY <1>2 DEF PushFront
<1>6. ASSUME NEW g \in Groups, NEW i \in 1..Len(s.groups[g]), s.groups[g][i] = m
      PROVE  \E j \in 1..Len(t.groups[g]) : t.groups[g][j] = m
  <2>1. CASE \E x \in R : x.group = g
    <3>1. PICK y : y = CHOOSE x \in R : x.group = g
      OBVIOUS
    <3>2. y \in QueueMessage /\ t.groups[g] = <<y>> \o s.groups[g]
      BY <1>3, <1>5, <2>1, <3>1
    <3>3. s.groups[g] \in Seq(QueueMessage)
      BY <1>0
    <3>4. Len(t.groups[g]) = Len(s.groups[g]) + 1 /\ t.groups[g][i + 1] = s.groups[g][i]
      BY <3>2, <3>3
    <3>5. i + 1 \in 1..Len(t.groups[g])
      BY <3>3, <3>4
    <3> QED
      BY <1>6, <3>4, <3>5
  <2>2. CASE ~\E x \in R : x.group = g
    BY <1>5, <1>6, <2>2
  <2> QED
    BY <2>1, <2>2
<1>7. ASSUME NEW e \in es, e.msg = m
      PROVE  \E g \in Groups : \E j \in 1..Len(t.groups[g]) : t.groups[g][j] = m
  <2>1. m \in R /\ m \in QueueMessage /\ m.group \in Groups
    BY <1>1, <1>3, <1>7
  <2>2. (CHOOSE x \in R : x.group = m.group) = m
    <3>1. PICK y : y = CHOOSE x \in R : x.group = m.group
      OBVIOUS
    <3>2. y \in R /\ y.group = m.group
      BY <2>1, <3>1
    <3> QED
      BY <1>4, <2>1, <3>1, <3>2
  <2>3. t.groups[m.group] = <<m>> \o s.groups[m.group] /\ s.groups[m.group] \in Seq(QueueMessage)
    BY <1>0, <1>5, <2>1, <2>2
  <2>4. 1 \in 1..Len(t.groups[m.group]) /\ t.groups[m.group][1] = m
    BY <2>1, <2>3
  <2> QED
    BY <2>1, <2>4
<1>8. \/ \E g \in Groups : m \in ToSet(s.groups[g])
      \/ \E e \in s.inFlight : e.msg = m
  BY DEF FifoMessages
<1>9. ASSUME NEW g \in Groups, m \in ToSet(s.groups[g])
      PROVE  \E i \in 1..Len(s.groups[g]) : s.groups[g][i] = m
  <2>1. s.groups[g] \in Seq(QueueMessage)
    BY <1>0
  <2> QED
    BY <1>9, <2>1 DEF ToSet
<1> QED
  BY <1>1, <1>2, <1>6, <1>7, <1>8, <1>9

\* A receive takes the first message of a group with none outstanding.
LEMMA ReceiveDeliversFirst ==
    ASSUME NEW s, NEW P, FifoTyped(s, P), GroupInv(s, P), NEW max, NEW vis, NEW limit,
           NEW r \in TryReceiveFifo(s, max, vis, limit), NEW e \in r.store.inFlight
    PROVE  \/ e \in s.inFlight
           \/ \E g \in Groups \ s.blocked :
                 /\ s.groups[g] # <<>> /\ e.msg.group = g /\ e.msg.seq = s.groups[g][1].seq
<1>0. s \in FifoStorage /\ s.groups \in [Groups -> Seq(QueueMessage)]
  BY DEF FifoTyped, FifoStorage
<1>1. PICK c : c = FifoReceive(s, max)
  OBVIOUS
<1>2. PICK u, gs, back, ms : /\ u = FinishRedrive(c.store, gs, back) /\ ms \subseteq c.msgs
                             /\ r.store = MarkInFlight(u, ms, vis)
  <2> DEFINE poison == {m \in c.msgs : m.count >= limit}
  <2>1. PICK h \in SUBSET poison :
           r = [store  |-> MarkInFlight(FinishRedrive(c.store, {m.group : m \in poison \ h}, poison \ h),
                                        c.msgs \ poison, vis),
                out    |-> c.msgs \ poison,
                handed |-> h]
    BY <1>1 DEF TryReceiveFifo
  <2>2. r.store = MarkInFlight(FinishRedrive(c.store, {m.group : m \in poison \ h}, poison \ h),
                               c.msgs \ poison, vis)
    BY <2>1
  <2> QED
    BY <2>2
<1>3. PICK taken : /\ taken \subseteq Groups \ s.blocked /\ \A g \in taken : s.groups[g] # <<>>
                   /\ c.msgs = {Head(s.groups[g]) : g \in taken}
  <2>1. PICK open : open = {g \in Groups \ s.blocked : s.groups[g] # <<>>}
    OBVIOUS
  <2>2. c.msgs = {Head(s.groups[g]) : g \in {g \in open : Cardinality({h \in open : h < g}) < max}}
    BY <1>1, <2>1 DEF FifoReceive
  <2> QED
    BY <2>1, <2>2
<1>4. c.store \in FifoStorage /\ c.store.inFlight = s.inFlight
  <2>1. FifoTyped(c.store, P \cup Taken(c.msgs))
    BY <1>1, FifoReceiveInv
  <2>2. c.store.inFlight = s.inFlight
    BY <1>0, <1>1 DEF FifoReceive, FifoStorage
  <2> QED
    BY <2>1, <2>2 DEF FifoTyped
<1>5. u.inFlight = s.inFlight
  BY <1>2, <1>4, QuietOperations
<1>6. r.store.inFlight = u.inFlight \cup {[msg |-> Delivered(m), left |-> vis] : m \in ms}
  <2>1. u = [c.store EXCEPT !.blocked = c.store.blocked \ gs, !.groups = PushFront(c.store.groups, back)]
    BY <1>2 DEF FinishRedrive
  <2>2. DOMAIN u = DOMAIN c.store /\ "inFlight" \in DOMAIN c.store
    BY <1>4, <2>1 DEF FifoStorage
  <2> QED
    BY <1>2, <2>2, Zenon DEF MarkInFlight
<1>7. CASE e \in s.inFlight
  BY <1>7
<1>8. CASE e \notin s.inFlight
  <2>1. PICK m \in ms : e = [msg |-> Delivered(m), left |-> vis]
    BY <1>5, <1>6, <1>8
  <2>2. PICK g \in taken : m = Head(s.groups[g])
    BY <1>2, <1>3
  <2>3. /\ s.groups[g] \in Seq(QueueMessage) /\ s.groups[g] # <<>> /\ g \in Groups \ s.blocked
    BY <1>0, <1>3
  <2>4. m = s.groups[g][1] /\ m \in QueueMessage /\ 1 \in 1..Len(s.groups[g])
    BY <2>2, <2>3
  <2>5. m.group = g
    BY <2>3, <2>4 DEF GroupInv, Sorted
  <2>6. e.msg.group = g /\ e.msg.seq = m.seq
    BY <2>1, <2>4, <2>5, DeliveredType
  <2> QED
    BY <2>3, <2>4, <2>6
<1> QED
  BY <1>7, <1>8

\* try_receive after the expired deliveries have returned.
LEMMA ReceiveNotOvertaking ==
    ASSUME NEW s, NEW P, FifoTyped(s, P), GroupInv(s, P), NEW max, NEW vis, NEW limit,
           NEW r \in TryReceiveFifo(FifoReturnExpired(s), max, vis, limit)
    PROVE  NotOvertaken(s, P, r.store)
<1>1. PICK es, t : es = Due(s.inFlight) /\ t = FifoReturn(s, es) /\ r \in TryReceiveFifo(t, max, vis, limit)
  BY DEF FifoReturnExpired
<1>2. es \subseteq s.inFlight
  BY <1>1 DEF Due
<1>3. FifoTyped(t, P) /\ GroupInv(t, P)
  BY <1>1, <1>2, FifoReturnInv
<1>4. t.inFlight \subseteq s.inFlight
  <2>1. s \in FifoStorage
    BY DEF FifoTyped
  <2> QED
    BY <1>1, <2>1, QuietOperations
<1> SUFFICES ASSUME NEW e \in r.store.inFlight, e.msg.id \notin InFlightIds(s),
                    NEW m \in FifoMessages(s) \cup {p.msg : p \in P}, m.group = e.msg.group
             PROVE  m.seq >= e.msg.seq
  BY DEF NotOvertaken
<1>5. e \notin t.inFlight
  BY <1>4 DEF InFlightIds
<1>6. PICK g \in Groups \ t.blocked :
         t.groups[g] # <<>> /\ e.msg.group = g /\ e.msg.seq = t.groups[g][1].seq
  BY <1>1, <1>3, <1>5, ReceiveDeliversFirst
<1>7. \A d \in t.inFlight \cup P : d.msg.group # g
  BY <1>3, <1>6 DEF GroupInv, Blocking
<1>8. m \in FifoMessages(s)
  BY <1>6, <1>7
<1>9. \/ \E h \in Groups : \E i \in 1..Len(t.groups[h]) : t.groups[h][i] = m
      \/ \E d \in t.inFlight : d.msg = m
  BY <1>1, <1>2, <1>8, ReturnKeepsMessages
<1>10. PICK h \in Groups, i \in Nat : i \in 1..Len(t.groups[h]) /\ t.groups[h][i] = m
  BY <1>6, <1>7, <1>9
<1>11. h = g
  BY <1>3, <1>6, <1>10 DEF GroupInv, Sorted
<1>12. t.groups[g] \in Seq(QueueMessage) /\ 1 \in 1..Len(t.groups[g])
  <2>1. t.groups[g] \in Seq(QueueMessage)
    BY <1>3, <1>6 DEF FifoTyped, FifoStorage
  <2> QED
    BY <1>6, <2>1
<1>13. t.groups[g][1].seq \in Nat /\ m.seq \in Nat
  <2>1. t.groups[g][1] \in QueueMessage /\ t.groups[g][i] \in QueueMessage
    BY <1>10, <1>11, <1>12
  <2> QED
    BY <1>10, <1>11, <2>1 DEF QueueMessage
<1>14. i = 1 \/ t.groups[g][1].seq < t.groups[g][i].seq
  BY <1>3, <1>10, <1>11, <1>12 DEF GroupInv, Sorted
<1> QED
  BY <1>6, <1>10, <1>11, <1>13, <1>14

\* A step that delivers nothing from queue p.
Undelivering(p) ==
    \/ UNCHANGED store
    \/ \E s : /\ store' = [store EXCEPT ![p] = s]
              /\ IsFifo(p) => InFlightIds(s) \subseteq InFlightIds(store[p])

\* A step that delivers nothing overtakes nothing.
LEMMA UndeliveringFacts ==
    ASSUME MessageTypeOK, NEW p \in Queues, Undelivering(p), NEW q \in FifoQueues
    PROVE  NotOvertaken(store[q], pending[q], store'[q])
<1>1. q \in Queues /\ IsFifo(q) /\ DOMAIN store = Queues
  BY DEF FifoQueues, MessageTypeOK
<1>2. InFlightIds(store'[q]) \subseteq InFlightIds(store[q])
  BY <1>1 DEF Undelivering
<1> QED
  BY <1>2, NoNewDelivery

\* Only a receive or an answered poll delivers.
LEMMA UndeliveringSteps ==
    ASSUME Inv, NEW p \in Queues,
           \/ LoopTop(p) \/ LoopExit(p) \/ SelectBranch(p) \/ RegistryStep(p) \/ Crash(p)
           \/ ClientCommand(p) /\ ~ReceiveMessage(p)
    PROVE  Undelivering(p)
<1> USE DEF Inv, TypeOK
<1>1. IsFifo(p) => store[p] \in FifoStorage
  BY DEF MessageTypeOK
<1>2. ASSUME NEW s, NEW t, s.inFlight \subseteq t.inFlight
      PROVE  InFlightIds(s) \subseteq InFlightIds(t)
  BY <1>2 DEF InFlightIds
<1>3. CASE LoopTop(p)
  <2>1. PICK s \in SettleTransfers(p) : store' = [store EXCEPT ![p] = s]
    BY <1>3 DEF LoopTop, SetStore
  <2>2. IsFifo(p) => s.inFlight = store[p].inFlight
    BY <1>1, <2>1, QuietOperations DEF SettleTransfers
  <2> QED
    BY <1>2, <2>1, <2>2 DEF Undelivering
<1>4. CASE LoopExit(p) \/ Crash(p)
  <2>1. store' = [store EXCEPT ![p] = Storage(p)]
    BY <1>4 DEF LoopExit, Crash, Ends, SetStore
  <2>2. IsFifo(p) => Storage(p).inFlight = {}
    BY DEF Storage, FifoInit
  <2> QED
    BY <1>2, <2>1, <2>2 DEF Undelivering
<1>5. CASE HandleTransfer(p)
  <2>1. PICK c : c = Head(chan[p]) /\ (UNCHANGED store \/ store' = [store EXCEPT ![p] = Accepted(p, c)])
    BY <1>5 DEF HandleTransfer, SetStore
  <2>2. IsFifo(p) => Accepted(p, c).inFlight = store[p].inFlight
    BY <1>1, QuietOperations DEF Accepted
  <2> QED
    BY <1>2, <2>1, <2>2 DEF Undelivering
<1>6. CASE PeriodicCleanup(p)
  <2>1. PICK s : /\ store' = [store EXCEPT ![p] = s]
                 /\ IsFifo(p) => s = CleanDedupCache(FifoReturnExpired(store[p]))
    BY <1>6 DEF PeriodicCleanup, SetStore
  <2>2. ASSUME IsFifo(p)
        PROVE  s.inFlight \subseteq store[p].inFlight
    <3>1. PICK t : t = FifoReturn(store[p], Due(store[p].inFlight)) /\ s = CleanDedupCache(t)
      BY <2>1, <2>2 DEF FifoReturnExpired
    <3>2. Due(store[p].inFlight) \subseteq store[p].inFlight
      BY DEF Due
    <3>3. FifoTyped(store[p], pending[p]) /\ GroupInv(store[p], pending[p])
      BY <2>2 DEF QueuesInv, QueueInv
    <3>4. t \in FifoStorage
      BY <3>1, <3>2, <3>3, FifoReturnInv DEF FifoTyped
    <3> QED
      BY <1>1, <2>2, <3>1, <3>4, QuietOperations
  <2> QED
    BY <1>2, <2>1, <2>2 DEF Undelivering
<1>7. CASE SelectBranch(p) /\ ~HandleTransfer(p) /\ ~PeriodicCleanup(p)
  <2>1. UNCHANGED store
    BY <1>7 DEF SelectBranch, HandleCommand, HandleQuiesce, HandleShutdown, ChannelClosed,
       WaitForTransfer, ExpireLongPolls
  <2> QED
    BY <2>1 DEF Undelivering
<1>8. CASE RegistryStep(p)
  <2>1. UNCHANGED store
    BY <1>8 DEF RegistryStep, CreateCheck, CreateInsert, DeleteQueue, SendShutdown
  <2> QED
    BY <2>1 DEF Undelivering
<1>9. CASE SendMessageStandard(p)
  <2>1. ~IsFifo(p) /\ \E s : store' = [store EXCEPT ![p] = s]
    BY <1>9 DEF SendMessageStandard, SetStore
  <2> QED
    BY <2>1 DEF Undelivering
<1>10. CASE SendMessageFifo(p)
  <2>1. /\ IsFifo(p)
        /\ \/ UNCHANGED store
           \/ \E m, key : store' = [store EXCEPT ![p] = Enqueue(store[p], m, key)]
    BY <1>10 DEF SendMessageFifo, SetStore
  <2>2. \A m, key : Enqueue(store[p], m, key).inFlight = store[p].inFlight
    BY <1>1, <2>1, QuietOperations
  <2> QED
    BY <1>2, <2>1, <2>2 DEF Undelivering
<1>11. CASE DeleteMessage(p)
  <2>1. PICK e, s : /\ store' = [store EXCEPT ![p] = s]
                    /\ IsFifo(p) => s = FifoDelete(store[p], e)
    BY <1>11 DEF DeleteMessage, SetStore
  <2>2. IsFifo(p) => s.inFlight \subseteq store[p].inFlight
    BY <1>1, <2>1, QuietOperations
  <2> QED
    BY <1>2, <2>1, <2>2 DEF Undelivering
<1>12. CASE ChangeVisibility(p)
  <2>1. PICK e \in store[p].inFlight, vis \in ChangeChoices : \E s :
           /\ store' = [store EXCEPT ![p] = s]
           /\ IsFifo(p) => s = FifoChangeVisibility(store[p], e, vis)
    BY <1>12 DEF ChangeVisibility, SetStore
  <2>2. PICK s : /\ store' = [store EXCEPT ![p] = s]
                 /\ IsFifo(p) => s = FifoChangeVisibility(store[p], e, vis)
    BY <2>1
  <2>3. ASSUME IsFifo(p)
        PROVE  InFlightIds(s) \subseteq InFlightIds(store[p])
    <3>1. CASE vis = 0
      <4>1. s = FifoReturn(store[p], {e})
        BY <2>2, <2>3, <3>1 DEF FifoChangeVisibility
      <4>2. s.inFlight \subseteq store[p].inFlight
        BY <1>1, <2>3, <4>1, QuietOperations
      <4> QED
        BY <1>2, <4>2
    <3>2. CASE vis # 0
      <4>1. e \in InFlightMessage /\ store[p] \in FifoStorage
        BY <1>1, <2>3 DEF FifoStorage
      <4>2. PICK f : f = [e EXCEPT !.left = vis]
        OBVIOUS
      <4>3. f.msg = e.msg
        BY <4>1, <4>2 DEF InFlightMessage
      <4>4. PICK I : I = (store[p].inFlight \ {e}) \cup {f}
        OBVIOUS
      <4>5. s = [store[p] EXCEPT !.inFlight = I]
        BY <2>2, <2>3, <3>2, <4>2, <4>4 DEF FifoChangeVisibility
      <4>6. s.inFlight = I
        BY <4>1, <4>5 DEF FifoStorage
      <4> QED
        BY <4>3, <4>4, <4>6 DEF InFlightIds
    <3> QED
      BY <3>1, <3>2
  <2> QED
    BY <2>2, <2>3 DEF Undelivering
<1>13. CASE PurgeQueue(p)
  <2>1. PICK s : /\ store' = [store EXCEPT ![p] = s]
                 /\ IsFifo(p) => s = FifoPurge(store[p])
    BY <1>13 DEF PurgeQueue, SetStore
  <2>2. IsFifo(p) => s.inFlight \subseteq store[p].inFlight
    BY <1>1, <2>1, QuietOperations
  <2> QED
    BY <1>2, <2>1, <2>2 DEF Undelivering
<1>14. CASE SetAttributes(p) \/ DropPoll(p)
  <2>1. UNCHANGED store
    BY <1>14 DEF SetAttributes, DropPoll
  <2> QED
    BY <2>1 DEF Undelivering
<1> QED
  BY <1>3, <1>4, <1>5, <1>6, <1>7, <1>8, <1>9, <1>10, <1>11, <1>12, <1>13, <1>14 DEF ClientCommand

\* What a receive or an answered poll delivers overtakes nothing.
LEMMA ReceiveSteps ==
    ASSUME Inv, NEW p \in Queues, ReceiveMessage(p) \/ FulfillPoll(p), NEW q \in FifoQueues
    PROVE  NotOvertaken(store[q], pending[q], store'[q])
<1> USE DEF Inv, TypeOK
<1>1. \/ UNCHANGED store
      \/ \E max, vis : \E r \in TryReceive(p, max, vis) : store' = [store EXCEPT ![p] = r.store]
  <2>1. CASE ReceiveMessage(p)
    <3>1. \E max \in MaxChoices, vis \in VisChoices :
             \E r \in TryReceive(p, max, vis) : store' = [store EXCEPT ![p] = r.store]
      BY <2>1 DEF ReceiveMessage, SetStore
    <3> QED
      BY <3>1
  <2>2. CASE FulfillPoll(p)
    <3>1. PICK d : d = Head(todo[p])
      OBVIOUS
    <3>2. \/ UNCHANGED store
          \/ \E r \in TryReceive(p, d.max, d.vis) : store' = [store EXCEPT ![p] = r.store]
      BY <2>2, <3>1 DEF FulfillPoll, SetStore
    <3> QED
      BY <3>2
  <2> QED
    BY <2>1, <2>2
<1>2. CASE UNCHANGED store \/ p # q
  <2>1. q \in Queues /\ store'[q] = store[q]
    BY <1>1, <1>2 DEF FifoQueues, MessageTypeOK
  <2>2. InFlightIds(store'[q]) \subseteq InFlightIds(store[q])
    BY <2>1
  <2> QED
    BY <2>2, NoNewDelivery
<1>3. CASE p = q /\ ~UNCHANGED store
  <2>1. PICK max, vis, r : r \in TryReceive(p, max, vis) /\ store' = [store EXCEPT ![p] = r.store]
    BY <1>1, <1>3
  <2>2. IsFifo(q) /\ q \in Queues /\ store'[q] = r.store
    BY <1>3, <2>1 DEF FifoQueues, MessageTypeOK
  <2>3. r \in TryReceiveFifo(FifoReturnExpired(store[q]), max, vis, RedriveLimit(q))
    BY <1>3, <2>1, <2>2 DEF TryReceive
  <2>4. FifoTyped(store[q], pending[q]) /\ GroupInv(store[q], pending[q])
    BY <2>2 DEF QueuesInv, QueueInv
  <2> QED
    BY <2>2, <2>3, <2>4, ReceiveNotOvertaking
<1> QED
  BY <1>2, <1>3

\* The passing of time delivers nothing new.
LEMMA TickDelivers ==
    ASSUME Inv, Tick, NEW q \in FifoQueues
    PROVE  NotOvertaken(store[q], pending[q], store'[q])
<1> USE DEF Inv, TypeOK
<1>1. q \in Queues /\ IsFifo(q)
  BY DEF FifoQueues
<1>2. PICK I, X : /\ I = Aged(store[q].inFlight) /\ X = Aged(store[q].dedup)
                  /\ store'[q] = [store[q] EXCEPT !.inFlight = I, !.dedup = X]
  BY <1>1 DEF Tick
<1>3. FifoTyped(store[q], pending[q])
  BY <1>1 DEF QueuesInv, QueueInv
<1>4. /\ store[q] \in FifoStorage /\ store[q].inFlight \subseteq InFlightMessage
      /\ IsFiniteSet(store[q].inFlight)
  BY <1>3 DEF FifoTyped, FifoStorage
<1>5. store'[q].inFlight = I
  BY <1>2, <1>4 DEF FifoStorage
<1>6. \A e \in I : \E f \in store[q].inFlight : e.msg = f.msg
  BY <1>2, <1>4, AgedFacts
<1>7. InFlightIds(store'[q]) \subseteq InFlightIds(store[q])
  BY <1>5, <1>6 DEF InFlightIds
<1> QED
  BY <1>7, NoNewDelivery

\* No step delivers past an older message of its group.
LEMMA StepNotOvertaken ==
    ASSUME Inv, [Next]_vars, NEW q \in FifoQueues
    PROVE  NotOvertaken(store[q], pending[q], store'[q])
<1>1. CASE UNCHANGED store
  <2>1. InFlightIds(store'[q]) \subseteq InFlightIds(store[q])
    BY <1>1
  <2> QED
    BY <2>1, NoNewDelivery
<1>2. ASSUME NEW p \in Queues,
             \/ LoopTop(p) \/ LoopExit(p) \/ SelectBranch(p) \/ RegistryStep(p) \/ Crash(p)
             \/ ClientCommand(p) /\ ~ReceiveMessage(p)
      PROVE  NotOvertaken(store[q], pending[q], store'[q])
  <2>1. Undelivering(p)
    BY <1>2, UndeliveringSteps
  <2> QED
    BY <2>1, UndeliveringFacts DEF Inv, TypeOK
<1>3. CASE ProviderStep \/ \E op \in Operations : StartOperation(op)
  <2>1. UNCHANGED store
    BY <1>3 DEF ProviderStep, VisitHandle, HandleVisited, OperationDone, StartOperation
  <2> QED
    BY <1>1, <2>1
<1>4. CASE UNCHANGED vars
  BY <1>1, <1>4 DEF vars
<1> QED
  BY <1>2, <1>3, <1>4, ReceiveSteps, TickDelivers DEF Next, LoopStep

\* A client never receives a message of a FIFO queue while an earlier one of
\* its group is still in the queue, in flight or on its way to the dead-letter
\* queue, whatever expires, is redriven or is handed back in the same step.
THEOREM NeverOvertakenCorrect == Spec => NeverOvertaken
<1> DEFINE A == \A q \in FifoQueues : \A e \in store'[q].inFlight :
                   e.msg.id \notin {f.msg.id : f \in store[q].inFlight} =>
                      \A m \in Messages(q) \cup {p.msg : p \in pending[q]} :
                         m.group = e.msg.group => m.seq >= e.msg.seq
<1>1. Inv /\ [Next]_vars => A
  <2> SUFFICES ASSUME Inv, [Next]_vars, NEW q \in FifoQueues
               PROVE  \A e \in store'[q].inFlight :
                         e.msg.id \notin {f.msg.id : f \in store[q].inFlight} =>
                            \A m \in Messages(q) \cup {p.msg : p \in pending[q]} :
                               m.group = e.msg.group => m.seq >= e.msg.seq
    OBVIOUS
  <2>1. NotOvertaken(store[q], pending[q], store'[q])
    BY StepNotOvertaken
  <2>2. Messages(q) = FifoMessages(store[q])
    BY DEF FifoQueues, Messages
  <2> QED
    BY <2>1, <2>2 DEF NotOvertaken, InFlightIds
<1>2. []Inv /\ [][Next]_vars => [][A]_vars
  <2>1. Inv /\ [Next]_vars => [A]_vars
    BY <1>1
  <2> QED
    BY <2>1, PTL
<1> QED
  BY <1>2, Invariant, PTL DEF Spec, NeverOvertaken

=============================================================================
