-------------------------- MODULE FilteringProofs ---------------------------
(***************************************************************************)
(* What Keep returns for every sequence and every set. Its recursion is     *)
(* followed by induction on the length of the sequence; the induction rests *)
(* on the least element of a set of numbers, taken from the well-founded    *)
(* order of the naturals.                                                   *)
(***************************************************************************)
EXTENDS Filtering, Functions, WellFoundedInduction, TLAPS

\* A set of natural numbers that is not empty has a least element.
LEMMA LeastNat ==
    ASSUME NEW T, T \subseteq Nat, T # {}
    PROVE  \E n \in T : \A m \in T : n <= m
<1>1. PICK n \in T : \A m \in T : <<m, n>> \notin OpToRel(<, Nat)
  BY NatLessThanWellFounded, WFMin
<1>2. ASSUME NEW m \in T PROVE n <= m
  <2>1. <<m, n>> \notin OpToRel(<, Nat) BY <1>1
  <2>2. m < n => <<m, n>> \in OpToRel(<, Nat) BY DEF OpToRel
  <2>3. ~(m < n) BY <2>1, <2>2
  <2>4. m \in Nat /\ n \in Nat OBVIOUS
  <2> QED BY ONLY <2>3, <2>4
<1> QED BY <1>2

\* Induction: a set with 0 and the successor of each number has all of them.
LEMMA Induction ==
    ASSUME NEW T, 0 \in T, \A n \in Nat : n \in T => n + 1 \in T
    PROVE  Nat \subseteq T
<1> SUFFICES ASSUME ~(Nat \subseteq T) PROVE FALSE OBVIOUS
<1>1. PICK n \in Nat \ T : \A m \in Nat \ T : n <= m
  <2>1. Nat \ T \subseteq Nat /\ Nat \ T # {} OBVIOUS
  <2> QED BY <2>1, LeastNat
<1>2. n # 0 OBVIOUS
<1>3. n - 1 \in Nat BY <1>2
<1>4. n - 1 \in T BY <1>1, <1>3
<1>5. (n - 1) + 1 = n BY <1>3
<1> QED BY <1>3, <1>4, <1>5

\* f holds the kept elements of each of the first n prefixes of s
IsKept(f, s, K, n) ==
    f = [i \in 0..n |-> IF i = 0 THEN <<>>
                        ELSE IF s[i] \in K THEN Append(f[i - 1], s[i]) ELSE f[i - 1]]

\* h places the elements of t, the kept ones of the first n of s, in their order
Places(h, t, s, K, n) ==
    /\ h \in [1..Len(t) -> 1..n]
    /\ \A i \in 1..Len(t) : t[i] = s[h[i]] /\ s[h[i]] \in K
    /\ \A i, j \in 1..Len(t) : i < j => h[i] < h[j]
    /\ \A k \in 1..n : s[k] \in K => \E i \in 1..Len(t) : h[i] = k

\* The recursion takes one more element of s.
LEMMA KeptExtends ==
    ASSUME NEW s, NEW K, NEW n \in Nat, NEW f, IsKept(f, s, K, n)
    PROVE  \E g : /\ IsKept(g, s, K, n + 1)
                  /\ g[n + 1] = IF s[n + 1] \in K THEN Append(f[n], s[n + 1]) ELSE f[n]
<1>1. PICK last : last = IF s[n + 1] \in K THEN Append(f[n], s[n + 1]) ELSE f[n] OBVIOUS
<1>2. PICK g : g = [i \in 0..(n + 1) |-> IF i = n + 1 THEN last ELSE f[i]] OBVIOUS
<1>3. ASSUME NEW i \in 0..(n + 1)
      PROVE  g[i] = IF i = 0 THEN <<>>
                    ELSE IF s[i] \in K THEN Append(g[i - 1], s[i]) ELSE g[i - 1]
  <2>1. CASE i = n + 1
    <3>1. n \in 0..(n + 1) /\ n # n + 1 /\ i - 1 = n /\ i # 0 BY <2>1
    <3>2. g[i] = last /\ g[i - 1] = f[n] BY <2>1, <3>1, <1>2
    <3> QED BY <3>1, <3>2, <1>1, <2>1
  <2>2. CASE i = 0
    <3>1. g[0] = f[0] BY <1>2
    <3>2. f[0] = <<>> BY DEF IsKept
    <3> QED BY <3>1, <3>2, <2>2
  <2>3. CASE i \in 1..n
    <3>1. i \in 0..n /\ i - 1 \in 0..(n + 1) /\ i # n + 1 /\ i - 1 # n + 1 /\ i # 0 BY <2>3
    <3>2. g[i] = f[i] /\ g[i - 1] = f[i - 1] BY <3>1, <1>2
    <3>3. f[i] = IF s[i] \in K THEN Append(f[i - 1], s[i]) ELSE f[i - 1] BY <3>1 DEF IsKept
    <3> QED BY <3>1, <3>2, <3>3
  <2> QED BY <2>1, <2>2, <2>3
<1>4. IsKept(g, s, K, n + 1)
  <2>1. g = [i \in 0..(n + 1) |-> g[i]] BY <1>2
  <2> QED BY <2>1, <1>3, Zenon DEF IsKept
<1>5. g[n + 1] = last BY <1>2
<1> QED BY <1>1, <1>4, <1>5

\* The recursion determines what it computes.
LEMMA KeptUnique ==
    ASSUME NEW s, NEW K, NEW n \in Nat, NEW f, NEW g, IsKept(f, s, K, n), IsKept(g, s, K, n)
    PROVE  f = g
<1>1. PICK T : T = {i \in Nat : i <= n => f[i] = g[i]} OBVIOUS
<1>2. 0 \in T
  <2>1. f[0] = <<>> /\ g[0] = <<>> BY DEF IsKept
  <2> QED BY <1>1, <2>1
<1>3. ASSUME NEW i \in Nat, i \in T PROVE i + 1 \in T
  <2>1. CASE i + 1 <= n
    <3>1. i + 1 \in 0..n /\ i + 1 # 0 /\ (i + 1) - 1 = i /\ i <= n BY <2>1
    <3>2. f[i + 1] = IF s[i + 1] \in K THEN Append(f[i], s[i + 1]) ELSE f[i]
      BY <3>1 DEF IsKept
    <3>3. g[i + 1] = IF s[i + 1] \in K THEN Append(g[i], s[i + 1]) ELSE g[i]
      BY <3>1 DEF IsKept
    <3>4. f[i] = g[i] BY <1>1, <1>3, <3>1
    <3>5. f[i + 1] = g[i + 1] BY <3>2, <3>3, <3>4
    <3> QED BY <3>5, <1>1
  <2> QED BY <2>1, <1>1
<1>4. Nat \subseteq T BY <1>2, <1>3, Induction
<1>5. \A i \in 0..n : f[i] = g[i] BY <1>1, <1>4
<1>6. f = [i \in 0..n |-> f[i]] /\ g = [i \in 0..n |-> g[i]] BY Zenon DEF IsKept
<1> QED BY <1>5, <1>6, Zenon

\* Keep returns what the recursion computes.
LEMMA KeepIs ==
    ASSUME NEW s, Len(s) \in Nat, NEW K, NEW f, IsKept(f, s, K, Len(s))
    PROVE  Keep(s, K) = f[Len(s)]
<1> DEFINE chosen == CHOOSE g : IsKept(g, s, K, Len(s))
<1>1. IsKept(chosen, s, K, Len(s)) OBVIOUS
<1>2. Keep(s, K) = chosen[Len(s)] BY Zenon DEF Keep, IsKept
<1> HIDE DEF chosen
<1>3. chosen = f BY <1>1, KeptUnique
<1> QED BY <1>2, <1>3

\* The places stay in order when one more element of s is looked at.
LEMMA PlacesExtends ==
    ASSUME NEW S, NEW s \in Seq(S), NEW K, NEW n \in 0..(Len(s) - 1), NEW t \in Seq(S), NEW h,
           Places(h, t, s, K, n)
    PROVE  LET u == IF s[n + 1] \in K THEN Append(t, s[n + 1]) ELSE t
           IN u \in Seq(S) /\ \E g : Places(g, u, s, K, n + 1)
<1>1. n \in Nat /\ n + 1 \in 1..Len(s) /\ Len(s) \in Nat OBVIOUS
<1>2. s[n + 1] \in S BY <1>1
<1>3. CASE s[n + 1] \in K
  <2>1. PICK u : u = Append(t, s[n + 1]) OBVIOUS
  <2>2. /\ u \in Seq(S) /\ Len(u) = Len(t) + 1 /\ Len(t) \in Nat
        /\ \A i \in 1..Len(t) : u[i] = t[i]
        /\ u[Len(t) + 1] = s[n + 1]
    BY <1>2, <2>1
  <2>3. PICK g : g = [i \in 1..Len(u) |-> IF i \in 1..Len(t) THEN h[i] ELSE n + 1] OBVIOUS
  <2>4. /\ \A i \in 1..Len(t) : i \in 1..Len(u) /\ g[i] = h[i] /\ h[i] \in 1..n
        /\ g[Len(t) + 1] = n + 1
        /\ \A i \in 1..Len(u) : i \in 1..Len(t) \/ i = Len(t) + 1
    <3>1. ASSUME NEW i \in 1..Len(t) PROVE i \in 1..Len(u) BY <2>2
    <3>2. ASSUME NEW i \in 1..Len(t) PROVE g[i] = h[i] BY <3>1, <2>3
    <3>3. ASSUME NEW i \in 1..Len(t) PROVE h[i] \in 1..n BY DEF Places
    <3>4. Len(t) + 1 \in 1..Len(u) /\ Len(t) + 1 \notin 1..Len(t) BY <2>2
    <3>5. g[Len(t) + 1] = n + 1 BY <3>4, <2>3
    <3>6. ASSUME NEW i \in 1..Len(u) PROVE i \in 1..Len(t) \/ i = Len(t) + 1 BY <2>2
    <3> QED BY <3>1, <3>2, <3>3, <3>5, <3>6
  <2>5. g \in [1..Len(u) -> 1..(n + 1)]
    <3>1. ASSUME NEW i \in 1..Len(u) PROVE g[i] \in 1..(n + 1)
      <4>1. CASE i \in 1..Len(t)
        <5>1. g[i] \in 1..n BY <4>1, <2>4
        <5> QED BY <5>1, <1>1
      <4>2. CASE i = Len(t) + 1 BY <4>2, <2>4, <1>1
      <4> QED BY <4>1, <4>2, <2>4
    <3> QED BY <3>1, <2>3
  <2>6. ASSUME NEW i \in 1..Len(u) PROVE u[i] = s[g[i]] /\ s[g[i]] \in K
    BY <2>2, <2>4, <1>3 DEF Places
  <2>7. ASSUME NEW i \in 1..Len(u), NEW j \in 1..Len(u), i < j PROVE g[i] < g[j]
    <3>1. i \in 1..Len(t) BY <2>2, <2>7
    <3>2. g[i] = h[i] /\ h[i] \in 1..n BY <3>1, <2>4
    <3>3. CASE j \in 1..Len(t)
      <4>1. h[i] < h[j] BY <3>1, <3>3, <2>7 DEF Places
      <4> QED BY <4>1, <3>2, <3>3, <2>4
    <3>4. CASE j = Len(t) + 1
      <4>1. g[j] = n + 1 BY <3>4, <2>4
      <4> QED BY <4>1, <3>2, <1>1
    <3> QED BY <3>3, <3>4, <2>4
  <2>8. ASSUME NEW k \in 1..(n + 1), s[k] \in K PROVE \E i \in 1..Len(u) : g[i] = k
    <3>1. CASE k = n + 1 BY <3>1, <2>2, <2>4
    <3>2. CASE k \in 1..n
      <4>1. PICK i \in 1..Len(t) : h[i] = k BY <3>2, <2>8 DEF Places
      <4> QED BY <4>1, <2>4
    <3> QED BY <3>1, <3>2, <1>1
  <2>9. Places(g, u, s, K, n + 1) BY <2>5, <2>6, <2>7, <2>8 DEF Places
  <2> QED BY <2>1, <2>2, <2>9, <1>3
<1>4. CASE s[n + 1] \notin K
  <2>1. h \in [1..Len(t) -> 1..(n + 1)] BY <1>1 DEF Places
  <2>2. \A k \in 1..(n + 1) : s[k] \in K => k \in 1..n BY <1>4, <1>1
  <2>3. Places(h, t, s, K, n + 1) BY <2>1, <2>2 DEF Places
  <2> QED BY <1>4, <2>3
<1> QED BY <1>3, <1>4

\* What Keep returns: the elements of s that are in K, each at its place.
LEMMA KeepPlaces ==
    ASSUME NEW S, NEW s \in Seq(S), NEW K
    PROVE  /\ Keep(s, K) \in Seq(S)
           /\ \E h : Places(h, Keep(s, K), s, K, Len(s))
<1>1. PICK T : T = {n \in Nat : n <= Len(s) =>
                       \E f : /\ IsKept(f, s, K, n) /\ f[n] \in Seq(S)
                              /\ \E h : Places(h, f[n], s, K, n)} OBVIOUS
<1>2. 0 \in T
  <2>1. PICK f : f = [i \in 0..0 |-> <<>>] OBVIOUS
  <2>2. IsKept(f, s, K, 0) BY <2>1 DEF IsKept
  <2>3. f[0] = <<>> /\ f[0] \in Seq(S) BY <2>1
  <2>4. PICK h : h = [i \in 1..0 |-> 1] OBVIOUS
  <2>5. Places(h, f[0], s, K, 0) BY <2>3, <2>4 DEF Places
  <2> QED BY <1>1, <2>2, <2>3, <2>5
<1>3. ASSUME NEW n \in Nat, n \in T PROVE n + 1 \in T
  <2>1. CASE ~(n + 1 <= Len(s)) BY <2>1, <1>1
  <2>2. CASE n + 1 <= Len(s)
    <3>1. n <= Len(s) /\ n \in 0..(Len(s) - 1) BY <2>2
    <3>2. PICK f : /\ IsKept(f, s, K, n) /\ f[n] \in Seq(S)
                   /\ \E h : Places(h, f[n], s, K, n) BY <3>1, <1>3, <1>1
    <3>3. PICK h : Places(h, f[n], s, K, n) BY <3>2
    <3>4. PICK g : /\ IsKept(g, s, K, n + 1)
                   /\ g[n + 1] = IF s[n + 1] \in K THEN Append(f[n], s[n + 1]) ELSE f[n]
      BY <3>2, KeptExtends
    <3>5. g[n + 1] \in Seq(S) /\ \E k : Places(k, g[n + 1], s, K, n + 1)
      BY <3>1, <3>2, <3>3, <3>4, PlacesExtends
    <3>6. n + 1 \in Nat OBVIOUS
    <3> QED BY <3>4, <3>5, <3>6, <1>1
  <2> QED BY <2>1, <2>2
<1>4. Len(s) \in T
  <2>1. Nat \subseteq T BY <1>2, <1>3, Induction
  <2> QED BY <2>1
<1>5. PICK f : /\ IsKept(f, s, K, Len(s)) /\ f[Len(s)] \in Seq(S)
               /\ \E h : Places(h, f[Len(s)], s, K, Len(s)) BY <1>4, <1>1
<1>6. Keep(s, K) = f[Len(s)] BY <1>5, KeepIs
<1> QED BY <1>5, <1>6

\* The recursion reaches the end of every sequence.
LEMMA KeptExists ==
    ASSUME NEW s, Len(s) \in Nat, NEW K
    PROVE  \E f : IsKept(f, s, K, Len(s))
<1>1. PICK T : T = {n \in Nat : \E f : IsKept(f, s, K, n)} OBVIOUS
<1>2. 0 \in T
  <2>1. PICK f : f = [i \in 0..0 |-> <<>>] OBVIOUS
  <2>2. IsKept(f, s, K, 0) BY <2>1 DEF IsKept
  <2> QED BY <1>1, <2>2
<1>3. ASSUME NEW n \in Nat, n \in T PROVE n + 1 \in T
  <2>1. PICK f : IsKept(f, s, K, n) BY <1>1, <1>3
  <2>2. PICK g : IsKept(g, s, K, n + 1) BY <2>1, KeptExtends
  <2> QED BY <1>1, <2>2
<1>4. Nat \subseteq T BY <1>2, <1>3, Induction
<1> QED BY <1>1, <1>4

\* Nothing is kept of nothing.
LEMMA KeepEmpty == ASSUME NEW K PROVE Keep(<<>>, K) = <<>>
<1>1. PICK f : IsKept(f, <<>>, K, Len(<<>>)) BY KeptExists
<1>2. f[0] = <<>> BY <1>1 DEF IsKept
<1> QED BY <1>1, <1>2, KeepIs

\* One more element at the end is kept at the end.
LEMMA KeepAppend ==
    ASSUME NEW S, NEW s \in Seq(S), NEW c \in S, NEW K
    PROVE  Keep(Append(s, c), K) = IF c \in K THEN Append(Keep(s, K), c) ELSE Keep(s, K)
<1>1. PICK t : t = Append(s, c) OBVIOUS
<1>2. PICK n \in Nat : n = Len(s) OBVIOUS
<1>3. Len(t) = n + 1 /\ t[n + 1] = c /\ \A i \in 1..n : t[i] = s[i] BY <1>1, <1>2
<1>4. PICK f : IsKept(f, s, K, n) BY <1>2, KeptExists
<1>5. IsKept(f, t, K, n)
  <2>1. f = [i \in 0..n |-> f[i]] BY <1>4, Zenon DEF IsKept
  <2>2. ASSUME NEW i \in 0..n
        PROVE  f[i] = IF i = 0 THEN <<>>
                      ELSE IF t[i] \in K THEN Append(f[i - 1], t[i]) ELSE f[i - 1]
    <3>1. f[i] = IF i = 0 THEN <<>>
                 ELSE IF s[i] \in K THEN Append(f[i - 1], s[i]) ELSE f[i - 1]
      BY <1>4 DEF IsKept
    <3>2. i # 0 => t[i] = s[i] BY <1>3
    <3> QED BY <3>1, <3>2
  <2>3. PICK r : r = [i \in 0..n |-> IF i = 0 THEN <<>>
                          ELSE IF t[i] \in K THEN Append(f[i - 1], t[i]) ELSE f[i - 1]]
    OBVIOUS
  <2>4. \A i \in 0..n : f[i] = r[i] BY <2>2, <2>3
  <2>5. r = [i \in 0..n |-> r[i]] BY <2>3
  <2>6. f = r BY <2>1, <2>4, <2>5, Zenon
  <2> QED BY <2>3, <2>6, Zenon DEF IsKept
<1>6. PICK g : /\ IsKept(g, t, K, n + 1)
               /\ g[n + 1] = IF t[n + 1] \in K THEN Append(f[n], t[n + 1]) ELSE f[n]
  BY <1>5, KeptExtends
<1>7. Keep(s, K) = f[n] BY <1>2, <1>4, KeepIs
<1>8. Keep(t, K) = g[n + 1]
  <2>1. Len(t) \in Nat /\ IsKept(g, t, K, Len(t)) BY <1>3, <1>6
  <2>2. Keep(t, K) = g[Len(t)] BY <2>1, KeepIs
  <2> QED BY <2>2, <1>3
<1> QED BY <1>1, <1>3, <1>6, <1>7, <1>8

\* A sequence that is not empty ends in an element.
LEMMA LastOf ==
    ASSUME NEW S, NEW s \in Seq(S), NEW n \in Nat, Len(s) = n + 1
    PROVE  /\ SubSeq(s, 1, n) \in Seq(S) /\ Len(SubSeq(s, 1, n)) = n /\ s[n + 1] \in S
           /\ s = Append(SubSeq(s, 1, n), s[n + 1])
<1>1. PICK p : p = SubSeq(s, 1, n) OBVIOUS
<1>2. p \in Seq(S) /\ Len(p) = n /\ \A i \in 1..n : p[i] = s[i] BY <1>1
<1>3. s[n + 1] \in S OBVIOUS
<1>4. PICK t : t = Append(p, s[n + 1]) OBVIOUS
<1>5. t \in Seq(S) /\ Len(t) = n + 1 /\ \A i \in 1..(n + 1) : t[i] = s[i]
  <2>1. t \in Seq(S) /\ Len(t) = n + 1 /\ t[n + 1] = s[n + 1] BY <1>2, <1>3, <1>4
  <2>2. \A i \in 1..n : t[i] = p[i] BY <1>2, <1>3, <1>4
  <2>3. \A i \in 1..(n + 1) : i \in 1..n \/ i = n + 1 OBVIOUS
  <2> QED BY <2>1, <2>2, <2>3, <1>2
<1>6. t = s BY <1>5
<1> QED BY <1>1, <1>2, <1>3, <1>4, <1>6

\* An element in front is looked at first.
FirstKept(c, t, K) ==
    Keep(<<c>> \o t, K) = IF c \in K THEN <<c>> \o Keep(t, K) ELSE Keep(t, K)

\* An element in front is kept in front.
LEMMA KeepFirst ==
    ASSUME NEW S, NEW s \in Seq(S), NEW c \in S, NEW K
    PROVE  FirstKept(c, s, K)
<1>1. PICK T : T = {n \in Nat : \A t \in Seq(S) : Len(t) = n => FirstKept(c, t, K)}
  OBVIOUS
<1>2. 0 \in T
  <2> SUFFICES ASSUME NEW t \in Seq(S), Len(t) = 0
               PROVE  FirstKept(c, t, K)
    BY <1>1
  <2>1. t = <<>> /\ <<c>> \o t = Append(t, c) OBVIOUS
  <2>2. PICK e \in Seq(S) : e = Keep(t, K) BY KeepPlaces
  <2>3. e = t BY <2>1, <2>2, KeepEmpty
  <2>4. <<c>> \o e = Append(t, c) BY <2>1, <2>3
  <2>5. Keep(Append(t, c), K) = IF c \in K THEN Append(e, c) ELSE e BY <2>2, KeepAppend
  <2>6. Keep(<<c>> \o t, K) = Keep(Append(t, c), K) BY <2>1
  <2>7. CASE c \in K
    <3>1. Keep(Append(t, c), K) = Append(t, c) BY <2>3, <2>5, <2>7
    <3>2. <<c>> \o Keep(t, K) = Append(t, c) BY <2>2, <2>4
    <3> QED BY <3>1, <3>2, <2>6, <2>7 DEF FirstKept
  <2>8. CASE c \notin K BY <2>2, <2>5, <2>6, <2>8 DEF FirstKept
  <2> QED BY <2>7, <2>8
<1>3. ASSUME NEW n \in Nat, n \in T PROVE n + 1 \in T
  <2> SUFFICES ASSUME NEW t \in Seq(S), Len(t) = n + 1
               PROVE  FirstKept(c, t, K)
    BY <1>1
  <2>1. PICK p, d : p \in Seq(S) /\ Len(p) = n /\ d \in S /\ t = Append(p, d)
    <3>1. /\ SubSeq(t, 1, n) \in Seq(S) /\ Len(SubSeq(t, 1, n)) = n /\ t[n + 1] \in S
          /\ t = Append(SubSeq(t, 1, n), t[n + 1])
      BY LastOf
    <3> QED BY <3>1, Zenon
  <2>2. Keep(<<c>> \o p, K) = IF c \in K THEN <<c>> \o Keep(p, K) ELSE Keep(p, K)
    <3>1. FirstKept(c, p, K) BY <1>1, <1>3, <2>1
    <3> QED BY <3>1 DEF FirstKept
  <2>3. <<c>> \o Append(p, d) = Append(<<c>> \o p, d) /\ <<c>> \o p \in Seq(S) BY <2>1
  <2>4. Keep(Append(<<c>> \o p, d), K) =
          IF d \in K THEN Append(Keep(<<c>> \o p, K), d) ELSE Keep(<<c>> \o p, K)
    BY <2>1, <2>3, KeepAppend
  <2>5. Keep(t, K) = IF d \in K THEN Append(Keep(p, K), d) ELSE Keep(p, K)
    BY <2>1, KeepAppend
  <2>6. PICK q \in Seq(S) : q = Keep(p, K) BY <2>1, KeepPlaces
  <2>7. <<c>> \o Append(q, d) = Append(<<c>> \o q, d) BY <2>1
  <2>8. CASE d \in K
    <3>1. Keep(t, K) = Append(q, d) BY <2>5, <2>6, <2>8
    <3>2. Keep(<<c>> \o t, K) = Append(Keep(<<c>> \o p, K), d) BY <2>1, <2>3, <2>4, <2>8
    <3> QED BY <3>1, <3>2, <2>2, <2>6, <2>7 DEF FirstKept
  <2>9. CASE d \notin K
    <3>1. Keep(t, K) = q BY <2>5, <2>6, <2>9
    <3>2. Keep(<<c>> \o t, K) = Keep(<<c>> \o p, K) BY <2>1, <2>3, <2>4, <2>9
    <3> QED BY <3>1, <3>2, <2>2, <2>6 DEF FirstKept
  <2> QED BY <2>8, <2>9
<1>4. Nat \subseteq T BY <1>2, <1>3, Induction
<1>5. Len(s) \in T BY <1>4
<1> QED BY <1>1, <1>5

-----------------------------------------------------------------------------
(* Sequences without repetition: what stays in them.                        *)

\* The elements of a sequence, and when none is repeated, by their indices.
LEMMA ElementsOf ==
    ASSUME NEW S, NEW s \in Seq(S)
    PROVE  /\ Range(s) \subseteq S
           /\ \A x : x \in Range(s) <=> \E i \in 1..Len(s) : s[i] = x
           /\ IsInjective(s) <=> \A i, j \in 1..Len(s) : s[i] = s[j] => i = j
<1>1. DOMAIN s = 1..Len(s) /\ \A i \in 1..Len(s) : s[i] \in S OBVIOUS
<1> QED BY <1>1 DEF Range, IsInjective

\* The empty sequence has no element.
LEMMA EmptyRange == IsInjective(<<>>) /\ Range(<<>>) = {}
BY DEF Range, IsInjective

\* One more element at the end.
LEMMA AppendRange ==
    ASSUME NEW S, NEW s \in Seq(S), NEW x \in S
    PROVE  /\ Append(s, x) \in Seq(S)
           /\ Range(Append(s, x)) = Range(s) \cup {x}
           /\ IsInjective(s) /\ x \notin Range(s) => IsInjective(Append(s, x))
<1>1. PICK t : t = Append(s, x) OBVIOUS
<1>2. /\ t \in Seq(S) /\ Len(t) = Len(s) + 1 /\ Len(s) \in Nat
      /\ \A i \in 1..Len(s) : t[i] = s[i]
      /\ t[Len(s) + 1] = x
  BY <1>1
<1>3. \A i \in 1..Len(t) : i \in 1..Len(s) \/ i = Len(s) + 1 BY <1>2
<1>4. 1..Len(s) \subseteq 1..Len(t) /\ Len(s) + 1 \in 1..Len(t) BY <1>2
<1>5. Range(t) = Range(s) \cup {x}
  <2>1. ASSUME NEW y \in Range(t) PROVE y \in Range(s) \cup {x}
    <3>1. PICK i \in 1..Len(t) : t[i] = y BY <1>2, ElementsOf
    <3> QED BY <3>1, <1>2, <1>3, ElementsOf
  <2>2. ASSUME NEW y \in Range(s) PROVE y \in Range(t)
    <3>1. PICK i \in 1..Len(s) : s[i] = y BY ElementsOf
    <3> QED BY <3>1, <1>2, <1>4, ElementsOf
  <2>3. x \in Range(t) BY <1>2, <1>4, ElementsOf
  <2> QED BY <2>1, <2>2, <2>3
<1>6. ASSUME IsInjective(s), x \notin Range(s) PROVE IsInjective(t)
  <2>1. ASSUME NEW i \in 1..Len(t), NEW j \in 1..Len(t), t[i] = t[j] PROVE i = j
    <3>1. \A k \in 1..Len(s) : s[k] # x BY <1>6, ElementsOf
    <3>2. \A k, l \in 1..Len(s) : s[k] = s[l] => k = l BY <1>6, ElementsOf
    <3> QED BY <2>1, <3>1, <3>2, <1>2, <1>3
  <2> QED BY <2>1, <1>2, ElementsOf
<1> QED BY <1>1, <1>2, <1>5, <1>6

\* The first n elements and the rest of a sequence.
LEMMA SplitRange ==
    ASSUME NEW S, NEW s \in Seq(S), NEW n \in 0..Len(s)
    PROVE  LET p == SubSeq(s, 1, n)
               q == SubSeq(s, n + 1, Len(s))
           IN /\ p \in Seq(S) /\ q \in Seq(S) /\ Len(p) = n
              /\ Range(p) \cup Range(q) = Range(s)
              /\ IsInjective(s) =>
                    IsInjective(p) /\ IsInjective(q) /\ Range(p) \cap Range(q) = {}
<1>1. PICK p : p = SubSeq(s, 1, n) OBVIOUS
<1>2. PICK q : q = SubSeq(s, n + 1, Len(s)) OBVIOUS
<1>3. /\ p \in Seq(S) /\ Len(p) = n /\ n \in Nat /\ Len(s) \in Nat
      /\ \A i \in 1..n : p[i] = s[i]
  BY <1>1
<1>4. /\ q \in Seq(S) /\ Len(q) = Len(s) - n
      /\ \A i \in 1..(Len(s) - n) : q[i] = s[n + i]
  BY <1>2, <1>3
<1>5. /\ \A i \in 1..n : i \in 1..Len(s)
      /\ \A i \in 1..(Len(s) - n) : n + i \in 1..Len(s) /\ n + i \notin 1..n
      /\ \A i \in 1..Len(s) : i \in 1..n \/ (i - n \in 1..(Len(s) - n) /\ n + (i - n) = i)
  BY <1>3
<1>6. /\ \A x : x \in Range(p) <=> \E i \in 1..n : s[i] = x
      /\ \A x : x \in Range(q) <=> \E i \in 1..(Len(s) - n) : s[n + i] = x
  <2>1. \A x : x \in Range(p) <=> \E i \in 1..n : p[i] = x BY <1>3, ElementsOf
  <2>2. \A x : x \in Range(q) <=> \E i \in 1..(Len(s) - n) : q[i] = x BY <1>4, ElementsOf
  <2>3. ASSUME NEW x PROVE x \in Range(p) <=> \E i \in 1..n : s[i] = x BY <2>1, <1>3
  <2>4. ASSUME NEW x PROVE x \in Range(q) <=> \E i \in 1..(Len(s) - n) : s[n + i] = x
    BY <2>2, <1>4
  <2> QED BY <2>3, <2>4
<1>7. Range(p) \cup Range(q) = Range(s)
  <2>1. ASSUME NEW x \in Range(p) \cup Range(q) PROVE x \in Range(s)
    BY <2>1, <1>5, <1>6, ElementsOf
  <2>2. ASSUME NEW x \in Range(s) PROVE x \in Range(p) \cup Range(q)
    <3>1. PICK i \in 1..Len(s) : s[i] = x BY ElementsOf
    <3>2. CASE i \in 1..n BY <3>1, <3>2, <1>6
    <3>3. CASE i \notin 1..n
      <4>1. i - n \in 1..(Len(s) - n) /\ s[n + (i - n)] = x BY <3>1, <3>3, <1>5
      <4> QED BY <4>1, <1>6
    <3> QED BY <3>2, <3>3
  <2> QED BY <2>1, <2>2
<1>8. ASSUME IsInjective(s)
      PROVE  IsInjective(p) /\ IsInjective(q) /\ Range(p) \cap Range(q) = {}
  <2>1. \A i, j \in 1..Len(s) : s[i] = s[j] => i = j BY <1>8, ElementsOf
  <2>2. IsInjective(p)
    <3>1. \A i, j \in 1..n : p[i] = p[j] => i = j BY <2>1, <1>3, <1>5
    <3> QED BY <3>1, <1>3, ElementsOf
  <2>3. IsInjective(q)
    <3>1. ASSUME NEW i \in 1..Len(q), NEW j \in 1..Len(q), q[i] = q[j] PROVE i = j
      <4>1. n + i = n + j BY <3>1, <2>1, <1>4, <1>5
      <4> QED BY <4>1, <1>3
    <3> QED BY <3>1, <1>4, ElementsOf
  <2>4. ASSUME NEW x \in Range(p), x \in Range(q) PROVE FALSE
    <3>1. PICK i \in 1..n : s[i] = x BY <1>6
    <3>2. PICK j \in 1..(Len(s) - n) : s[n + j] = x BY <2>4, <1>6
    <3>3. i = n + j BY <3>1, <3>2, <2>1, <1>5
    <3> QED BY <3>3, <1>5
  <2> QED BY <2>2, <2>3, <2>4
<1> QED BY <1>1, <1>2, <1>3, <1>4, <1>7, <1>8

\* All elements but the first.
LEMMA TailRange ==
    ASSUME NEW S, NEW s \in Seq(S), s # <<>>
    PROVE  /\ s[1] \in Range(s) /\ Tail(s) \in Seq(S) /\ Range(Tail(s)) \subseteq Range(s)
           /\ IsInjective(s) => IsInjective(Tail(s)) /\ Range(Tail(s)) = Range(s) \ {s[1]}
<1>1. 1 \in 0..Len(s) /\ 1 \in 1..Len(s) /\ Len(s) \in Nat OBVIOUS
<1>2. Tail(s) = SubSeq(s, 1 + 1, Len(s)) BY <1>1
<1>3. Range(SubSeq(s, 1, 1)) = {s[1]}
  <2>1. PICK p : p = SubSeq(s, 1, 1) OBVIOUS
  <2>2. p \in Seq(S) /\ Len(p) = 1 /\ p[1] = s[1] BY <2>1, <1>1
  <2>3. \A x : x \in Range(p) <=> x = s[1] BY <2>2, ElementsOf
  <2> QED BY <2>1, <2>3
<1>4. s[1] \in Range(s) BY <1>1, ElementsOf
<1>5. PICK p : p = SubSeq(s, 1, 1) OBVIOUS
<1>6. PICK q : q = SubSeq(s, 1 + 1, Len(s)) OBVIOUS
<1>7. /\ q \in Seq(S) /\ Range(p) \cup Range(q) = Range(s)
      /\ IsInjective(s) => IsInjective(q) /\ Range(p) \cap Range(q) = {}
  BY <1>1, <1>5, <1>6, SplitRange
<1>8. Range(p) = {s[1]} /\ Tail(s) = q BY <1>2, <1>3, <1>5, <1>6
<1> QED BY <1>4, <1>7, <1>8

\* What Keep keeps.
LEMMA KeepRange ==
    ASSUME NEW S, NEW s \in Seq(S), NEW K
    PROVE  /\ Keep(s, K) \in Seq(S)
           /\ Range(Keep(s, K)) = Range(s) \cap K
           /\ IsInjective(s) => IsInjective(Keep(s, K))
<1>1. PICK t : t = Keep(s, K) OBVIOUS
<1>2. t \in Seq(S) /\ Len(t) \in Nat /\ Len(s) \in Nat BY <1>1, KeepPlaces
<1>3. PICK h : Places(h, t, s, K, Len(s)) BY <1>1, KeepPlaces
<1>4. \A i \in 1..Len(t) : h[i] \in 1..Len(s) /\ t[i] = s[h[i]] /\ t[i] \in K
  BY <1>3 DEF Places
<1>5. Range(t) = Range(s) \cap K
  <2>1. ASSUME NEW x \in Range(t) PROVE x \in Range(s) /\ x \in K
    <3>1. PICK i \in 1..Len(t) : t[i] = x BY <1>2, ElementsOf
    <3> QED BY <3>1, <1>4, ElementsOf
  <2>2. ASSUME NEW x \in Range(s), x \in K PROVE x \in Range(t)
    <3>1. PICK k \in 1..Len(s) : s[k] = x BY ElementsOf
    <3>2. PICK i \in 1..Len(t) : h[i] = k BY <3>1, <2>2, <1>3 DEF Places
    <3>3. t[i] = x BY <3>1, <3>2, <1>4
    <3> QED BY <3>3, <1>2, ElementsOf
  <2> QED BY <2>1, <2>2
<1>6. ASSUME IsInjective(s) PROVE IsInjective(t)
  <2>1. ASSUME NEW i \in 1..Len(t), NEW j \in 1..Len(t), t[i] = t[j] PROVE i = j
    <3>1. h[i] = h[j] BY <2>1, <1>4, <1>6, ElementsOf
    <3>2. (i < j => h[i] < h[j]) /\ (j < i => h[j] < h[i]) BY <1>3 DEF Places
    <3>3. i \in Nat /\ j \in Nat /\ h[i] \in Nat BY <1>4
    <3> QED BY <3>1, <3>2, <3>3
  <2> QED BY <2>1, <1>2, ElementsOf
<1> QED BY <1>1, <1>2, <1>5, <1>6

=============================================================================
