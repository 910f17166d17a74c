--------------------------- MODULE SublistProofs ---------------------------
(***************************************************************************)
(* What Keep() returns, for every list and every set: the elements in the  *)
(* set, each as often as it was there, in the same order.                  *)
(***************************************************************************)
EXTENDS Sublists, SequenceTheorems, WellFoundedInduction, TLAPS

(* One line of the recursion. *)
KeepStep(s, S, f, i) == IF i = 0 THEN <<>>
                        ELSE IF s[i] \in S THEN Append(f[i - 1], s[i])
                        ELSE f[i - 1]

(* A non-empty set of naturals has a least element. *)
LEMMA LeastOf ==
    ASSUME NEW T, T \subseteq Nat, T # {}
    PROVE  \E x \in T : \A y \in T : x <= y
<1>1. PICK x \in T : \A y \in T : <<y, x>> \notin OpToRel(<, Nat)
  BY NatLessThanWellFounded, WFMin
<1>2. \A y \in T : ~(y < x)
  BY <1>1 DEF OpToRel
<1> QED BY <1>2

(* The recursion has a solution on every prefix, by induction on its length:
   a solution for n elements and one more line is a solution for n + 1. *)
LEMMA KeepExists ==
    ASSUME NEW s, NEW S, NEW n \in Nat
    PROVE  \E f : f = [i \in 0..n |-> KeepStep(s, S, f, i)]
<1> DEFINE Solves(f, m) == f = [i \in 0..m |-> KeepStep(s, S, f, i)]
           Bad == {m \in Nat : ~ \E f : Solves(f, m)}
<1>1. 0 \notin Bad
  <2> DEFINE f == [i \in 0..0 |-> <<>>]
  <2>1. Solves(f, 0)
    BY DEF KeepStep
  <2> QED BY <2>1
<1>2. ASSUME NEW m \in Nat, m + 1 \in Bad PROVE m \in Bad
  <2> SUFFICES ASSUME NEW f, Solves(f, m) PROVE \E g : Solves(g, m + 1)
    BY <1>2
  <2> DEFINE g == [i \in 0..(m + 1) |-> IF i <= m THEN f[i] ELSE KeepStep(s, S, f, i)]
  <2>1. ASSUME NEW i \in 0..(m + 1) PROVE g[i] = KeepStep(s, S, g, i)
    <3>1. CASE i = 0
      BY <3>1 DEF KeepStep
    <3>2. CASE i # 0
      <4>1. i - 1 \in 0..m /\ g[i - 1] = f[i - 1]
        BY <3>2
      <4>2. KeepStep(s, S, g, i) = KeepStep(s, S, f, i)
        BY <4>1, <3>2 DEF KeepStep
      <4>3. g[i] = KeepStep(s, S, f, i)
        <5>1. CASE i <= m
          <6>1. i \in 0..m
            BY <5>1
          <6> QED BY <6>1, <5>1
        <5>2. CASE ~(i <= m)
          BY <5>2
        <5> QED BY <5>1, <5>2
      <4> QED BY <4>2, <4>3
    <3> QED BY <3>1, <3>2
  <2>2. g = [i \in 0..(m + 1) |-> g[i]]
    OBVIOUS
  <2>3. Solves(g, m + 1)
    <3> HIDE DEF g
    <3> QED BY <2>1, <2>2
  <2> QED BY <2>3
<1>3. Bad = {}
  <2> SUFFICES ASSUME Bad # {} PROVE FALSE
    OBVIOUS
  <2>1. PICK x \in Bad : \A y \in Bad : x <= y
    <3>1. Bad \subseteq Nat
      OBVIOUS
    <3> HIDE DEF Bad
    <3> QED BY <3>1, LeastOf
  <2>2. x \in Nat /\ x # 0
    BY <1>1, <2>1
  <2>3. x - 1 \in Nat /\ (x - 1) + 1 = x
    BY <2>2
  <2>4. x - 1 \in Bad
    <3> HIDE DEF Bad
    <3> QED BY <1>2, <2>1, <2>3
  <2> QED
    <3> HIDE DEF Bad
    <3> QED BY <2>1, <2>2, <2>4
<1> QED BY <1>3

(* So the lines of the recursion hold of Keep()'s prefixes. *)
LEMMA KeepUpToIs ==
    ASSUME NEW T, NEW s \in Seq(T), NEW S
    PROVE  \A i \in 0..Len(s) : KeepUpTo(s, S)[i] = KeepStep(s, S, KeepUpTo(s, S), i)
<1>1. Len(s) \in Nat
  BY LenProperties
<1> DEFINE F == CHOOSE f : f = [i \in 0..Len(s) |-> KeepStep(s, S, f, i)]
<1>2. F = [i \in 0..Len(s) |-> KeepStep(s, S, F, i)]
  BY <1>1, KeepExists
<1>3. KeepUpTo(s, S) = F
  BY DEF KeepUpTo, KeepStep
<1> HIDE DEF F
<1> QED BY <1>2, <1>3

(* h says where the elements of r stand in the first n of s: r is made of just
   those in S, in the order of s. *)
Picks(s, S, n, r, h) ==
    /\ h \in [1..Len(r) -> 1..n]
    /\ \A a \in 1..Len(r) : r[a] = s[h[a]] /\ r[a] \in S
    /\ \A a, b \in 1..Len(r) : a < b => h[a] < h[b]
    /\ \A k \in 1..n : s[k] \in S => \E a \in 1..Len(r) : h[a] = k

(* One more element of s. *)
LEMMA PicksNext ==
    ASSUME NEW T, NEW s \in Seq(T), NEW S, NEW n \in 1..Len(s), NEW r \in Seq(T), NEW h,
           Picks(s, S, n - 1, r, h)
    PROVE  LET q == IF s[n] \in S THEN Append(r, s[n]) ELSE r
           IN  q \in Seq(T) /\ \E g : Picks(s, S, n, q, g)
<1>1. Len(s) \in Nat /\ Len(r) \in Nat /\ s[n] \in T /\ n \in Nat /\ n >= 1
  BY LenProperties, ElementOfSeq
<1>2. CASE s[n] \notin S
  <2>1. Picks(s, S, n, r, h)
    BY <1>1, <1>2 DEF Picks
  <2> QED BY <1>2, <2>1
<1>3. CASE s[n] \in S
  <2> DEFINE q == Append(r, s[n])
             g == [a \in 1..(Len(r) + 1) |-> IF a <= Len(r) THEN h[a] ELSE n]
  <2>1. /\ q \in Seq(T) /\ Len(q) = Len(r) + 1 /\ q[Len(r) + 1] = s[n]
        /\ \A a \in 1..Len(r) : q[a] = r[a]
    BY <1>1, AppendProperties
  <2> HIDE DEF q
  <2>2. /\ h \in [1..Len(r) -> 1..(n - 1)]
        /\ \A a \in 1..Len(r) : r[a] = s[h[a]] /\ r[a] \in S
        /\ \A a, b \in 1..Len(r) : a < b => h[a] < h[b]
        /\ \A k \in 1..(n - 1) : s[k] \in S => \E a \in 1..Len(r) : h[a] = k
    BY DEF Picks
  <2>3. /\ \A a \in 1..Len(r) : g[a] = h[a]
        /\ g[Len(r) + 1] = n
        /\ g \in [1..Len(q) -> 1..n]
    BY <1>1, <2>1, <2>2
  <2> HIDE DEF g
  <2>4. \A a \in 1..Len(q) : q[a] = s[g[a]] /\ q[a] \in S
    <3> SUFFICES ASSUME NEW a \in 1..Len(q) PROVE q[a] = s[g[a]] /\ q[a] \in S
      OBVIOUS
    <3>1. CASE a \in 1..Len(r)
      BY <2>1, <2>2, <2>3, <3>1
    <3>2. CASE a = Len(r) + 1
      BY <1>3, <2>1, <2>3, <3>2
    <3> QED BY <1>1, <2>1, <3>1, <3>2
  <2>5. ASSUME NEW a \in 1..Len(q), NEW b \in 1..Len(q), a < b PROVE g[a] < g[b]
    <3>1. a \in 1..Len(r)
      BY <1>1, <2>1, <2>5
    <3>2. CASE b \in 1..Len(r)
      BY <2>2, <2>3, <2>5, <3>1, <3>2
    <3>3. CASE b = Len(r) + 1
      <4>1. h[a] \in 1..(n - 1)
        BY <2>2, <3>1
      <4>2. g[a] = h[a] /\ g[b] = n
        BY <2>3, <3>1, <3>3
      <4> QED BY <1>1, <4>1, <4>2
    <3> QED BY <1>1, <2>1, <3>2, <3>3
  <2>6. ASSUME NEW k \in 1..n, s[k] \in S PROVE \E a \in 1..Len(q) : g[a] = k
    <3>1. CASE k = n
      BY <1>1, <2>1, <2>3, <3>1
    <3>2. CASE k # n
      <4>1. PICK a \in 1..Len(r) : h[a] = k
        BY <1>1, <2>2, <2>6, <3>2
      <4> QED BY <1>1, <2>1, <2>3, <4>1
    <3> QED BY <3>1, <3>2
  <2>7. Picks(s, S, n, q, g)
    BY <2>3, <2>4, <2>5, <2>6 DEF Picks
  <2> QED BY <1>3, <2>1, <2>7 DEF q
<1> QED BY <1>2, <1>3

(* Keep() picks what is in the set, by induction on the prefix. *)
LEMMA KeepPicks ==
    ASSUME NEW T, NEW s \in Seq(T), NEW S
    PROVE  Keep(s, S) \in Seq(T) /\ \E h : Picks(s, S, Len(s), Keep(s, S), h)
<1> DEFINE F == KeepUpTo(s, S)
           Good(i) == F[i] \in Seq(T) /\ \E h : Picks(s, S, i, F[i], h)
           Bad == {i \in 0..Len(s) : ~Good(i)}
<1>1. Len(s) \in Nat
  BY LenProperties
<1>2. \A i \in 0..Len(s) : F[i] = KeepStep(s, S, F, i)
  BY KeepUpToIs
<1> HIDE DEF F
<1>3. 0 \notin Bad
  <2>1. F[0] = <<>>
    BY <1>1, <1>2 DEF KeepStep
  <2>2. Picks(s, S, 0, <<>>, [a \in 1..0 |-> 1])
    BY DEF Picks
  <2>3. <<>> \in Seq(T)
    BY EmptySeq
  <2>4. Good(0)
    <3> HIDE DEF Picks
    <3> QED BY <2>1, <2>2, <2>3
  <2> QED BY <2>4
<1>4. ASSUME NEW i \in 1..Len(s), Good(i - 1) PROVE Good(i)
  <2>1. F[i] = IF s[i] \in S THEN Append(F[i - 1], s[i]) ELSE F[i - 1]
    BY <1>1, <1>2 DEF KeepStep
  <2>2. PICK h : Picks(s, S, i - 1, F[i - 1], h)
    BY <1>4
  <2> QED BY <1>4, <2>1, <2>2, PicksNext
<1>5. Bad = {}
  <2> SUFFICES ASSUME Bad # {} PROVE FALSE
    OBVIOUS
  <2>1. PICK x \in Bad : \A y \in Bad : x <= y
    <3>1. Bad \subseteq Nat
      BY <1>1
    <3> HIDE DEF Bad
    <3> QED BY <3>1, LeastOf
  <2>2. x \in 1..Len(s) /\ ~Good(x)
    BY <1>1, <1>3, <2>1
  <2>3. x - 1 \in 0..Len(s) /\ x - 1 \notin Bad
    <3>1. x - 1 \in 0..Len(s) /\ ~(x <= x - 1)
      BY <1>1, <2>2
    <3> HIDE DEF Bad
    <3> QED BY <2>1, <3>1
  <2>4. Good(x - 1)
    BY <2>3
  <2> HIDE DEF Good
  <2> QED BY <1>4, <2>2, <2>4
<1>6. Good(Len(s))
  BY <1>1, <1>5
<1> QED BY <1>6 DEF Keep, F

-----------------------------------------------------------------------------
(***************************************************************************)
(* Lists as the invariants see them: what is in a list, and what stands    *)
(* before what.                                                            *)
(***************************************************************************)
(* u stands before v in s. *)
Precedes(s, u, v) == \E i, k \in DOMAIN s : i < k /\ s[i] = u /\ s[k] = v

(* A list holds nothing twice if nothing stands before itself. *)
LEMMA InjectiveIs ==
    ASSUME NEW T, NEW s \in Seq(T)
    PROVE  IsInjective(s) <=> \A u \in ToSet(s) : ~Precedes(s, u, u)
<1>1. Len(s) \in Nat /\ DOMAIN s = 1..Len(s)
  BY LenProperties
<1>2. ASSUME IsInjective(s), NEW u \in ToSet(s), Precedes(s, u, u) PROVE FALSE
  BY <1>1, <1>2 DEF IsInjective, Precedes
<1>3. ASSUME \A u \in ToSet(s) : ~Precedes(s, u, u) PROVE IsInjective(s)
  <2> SUFFICES ASSUME NEW a \in DOMAIN s, NEW b \in DOMAIN s, s[a] = s[b] PROVE a = b
    BY DEF IsInjective
  <2>1. s[a] \in ToSet(s) /\ ~Precedes(s, s[a], s[a])
    BY <1>3 DEF ToSet
  <2>2. ~(a < b) /\ ~(b < a)
    BY <2>1 DEF Precedes
  <2> QED BY <1>1, <2>2
<1> QED BY <1>2, <1>3

(* Only what is in a list has a place in it. *)
LEMMA PrecedesIn ==
    ASSUME NEW s, NEW u, NEW v, Precedes(s, u, v)
    PROVE  u \in ToSet(s) /\ v \in ToSet(s)
  BY DEF Precedes, ToSet

LEMMA EmptyIs ==
    /\ ToSet(<<>>) = {} /\ IsInjective(<<>>)
    /\ \A u, v : ~Precedes(<<>>, u, v)
    /\ \A T : \A s \in Seq(T) : (s = <<>> <=> ToSet(s) = {}) /\ ToSet(s) \subseteq T
<1>1. ASSUME NEW T, NEW s \in Seq(T) PROVE (s = <<>> <=> ToSet(s) = {}) /\ ToSet(s) \subseteq T
  <2>1. Len(s) \in Nat /\ DOMAIN s = 1..Len(s) /\ \A i \in 1..Len(s) : s[i] \in T
    BY LenProperties, ElementOfSeq
  <2>2. s # <<>> => Len(s) >= 1
    BY <2>1, EmptySeq
  <2>3. s # <<>> => s[1] \in ToSet(s)
    BY <2>1, <2>2 DEF ToSet
  <2>4. s = <<>> => ToSet(s) = {}
    BY DEF ToSet
  <2>5. ToSet(s) \subseteq T
    BY <2>1 DEF ToSet
  <2> QED BY <2>3, <2>4, <2>5
<1> QED BY <1>1 DEF Precedes, ToSet, IsInjective

LEMMA AppendIs ==
    ASSUME NEW T, NEW s \in Seq(T), NEW x \in T
    PROVE  /\ Append(s, x) \in Seq(T)
           /\ ToSet(Append(s, x)) = ToSet(s) \cup {x}
           /\ \A u, v : Precedes(Append(s, x), u, v) <=> \/ Precedes(s, u, v)
                                                         \/ u \in ToSet(s) /\ v = x
<1> DEFINE q == Append(s, x)
<1>1. Len(s) \in Nat /\ DOMAIN s = 1..Len(s)
  BY LenProperties
<1>2. /\ q \in Seq(T) /\ Len(q) = Len(s) + 1 /\ DOMAIN q = 1..(Len(s) + 1)
      /\ q[Len(s) + 1] = x /\ \A i \in 1..Len(s) : q[i] = s[i]
  BY <1>1, AppendProperties, LenProperties
<1> HIDE DEF q
<1>3. ToSet(q) = ToSet(s) \cup {x}
  <2>1. ASSUME NEW y \in ToSet(q) PROVE y \in ToSet(s) \cup {x}
    BY <1>1, <1>2 DEF ToSet
  <2>2. ASSUME NEW y \in ToSet(s) \cup {x} PROVE y \in ToSet(q)
    BY <1>1, <1>2 DEF ToSet
  <2> QED BY <2>1, <2>2
<1>4. ASSUME NEW u, NEW v, Precedes(q, u, v) PROVE Precedes(s, u, v) \/ (u \in ToSet(s) /\ v = x)
  <2>1. PICK i \in 1..(Len(s) + 1), k \in 1..(Len(s) + 1) : i < k /\ q[i] = u /\ q[k] = v
    BY <1>2, <1>4 DEF Precedes
  <2>2. i \in DOMAIN s /\ s[i] = u
    BY <1>1, <1>2, <2>1
  <2>3. CASE k = Len(s) + 1
    BY <1>2, <2>1, <2>2, <2>3 DEF ToSet
  <2>4. CASE k # Len(s) + 1
    <3>1. k \in DOMAIN s /\ s[k] = v
      BY <1>1, <1>2, <2>1, <2>4
    <3> QED BY <2>1, <2>2, <3>1 DEF Precedes
  <2> QED BY <2>3, <2>4
<1>5. ASSUME NEW u, NEW v, Precedes(s, u, v) PROVE Precedes(q, u, v)
  BY <1>1, <1>2, <1>5 DEF Precedes
<1>6. ASSUME NEW u, u \in ToSet(s) PROVE Precedes(q, u, x)
  <2>1. PICK i \in 1..Len(s) : s[i] = u
    BY <1>1, <1>6 DEF ToSet
  <2>2. i \in DOMAIN q /\ Len(s) + 1 \in DOMAIN q /\ i < Len(s) + 1 /\ q[i] = u
    BY <1>1, <1>2, <2>1
  <2> QED BY <1>2, <2>2 DEF Precedes
<1> QED BY <1>2, <1>3, <1>4, <1>5, <1>6 DEF q

LEMMA ConcatIs ==
    ASSUME NEW T, NEW s \in Seq(T), NEW r \in Seq(T)
    PROVE  /\ s \o r \in Seq(T)
           /\ ToSet(s \o r) = ToSet(s) \cup ToSet(r)
           /\ \A u, v : Precedes(s \o r, u, v) <=> \/ Precedes(s, u, v) \/ Precedes(r, u, v)
                                                   \/ u \in ToSet(s) /\ v \in ToSet(r)
<1> DEFINE q == s \o r
<1>1. Len(s) \in Nat /\ DOMAIN s = 1..Len(s) /\ Len(r) \in Nat /\ DOMAIN r = 1..Len(r)
  BY LenProperties
<1>2. /\ q \in Seq(T) /\ Len(q) = Len(s) + Len(r) /\ DOMAIN q = 1..(Len(s) + Len(r))
      /\ \A i \in 1..(Len(s) + Len(r)) : q[i] = IF i <= Len(s) THEN s[i] ELSE r[i - Len(s)]
  BY <1>1, ConcatProperties, LenProperties
<1> HIDE DEF q
<1>3. \A i \in 1..Len(s) : i \in DOMAIN q /\ q[i] = s[i]
  BY <1>1, <1>2
<1>4. \A i \in 1..Len(r) : i + Len(s) \in DOMAIN q /\ q[i + Len(s)] = r[i]
  <2> SUFFICES ASSUME NEW i \in 1..Len(r) PROVE i + Len(s) \in DOMAIN q /\ q[i + Len(s)] = r[i]
    OBVIOUS
  <2>1. i + Len(s) \in 1..(Len(s) + Len(r)) /\ ~(i + Len(s) <= Len(s)) /\ (i + Len(s)) - Len(s) = i
    BY <1>1
  <2> QED BY <1>2, <2>1
<1>5. \A i \in DOMAIN q : \/ i \in 1..Len(s) /\ q[i] = s[i]
                          \/ i > Len(s) /\ i - Len(s) \in 1..Len(r) /\ q[i] = r[i - Len(s)]
  BY <1>1, <1>2
<1>6. ToSet(q) = ToSet(s) \cup ToSet(r)
  <2>1. ASSUME NEW y \in ToSet(q) PROVE y \in ToSet(s) \cup ToSet(r)
    BY <1>1, <1>5 DEF ToSet
  <2>2. ASSUME NEW y \in ToSet(s) PROVE y \in ToSet(q)
    BY <1>1, <1>3 DEF ToSet
  <2>3. ASSUME NEW y \in ToSet(r) PROVE y \in ToSet(q)
    <3>1. PICK i \in 1..Len(r) : r[i] = y
      BY <1>1 DEF ToSet
    <3> QED BY <1>4, <3>1 DEF ToSet
  <2> QED BY <2>1, <2>2, <2>3
<1>7. ASSUME NEW u, NEW v, Precedes(q, u, v)
      PROVE  Precedes(s, u, v) \/ Precedes(r, u, v) \/ (u \in ToSet(s) /\ v \in ToSet(r))
  <2>1. PICK i \in DOMAIN q, k \in DOMAIN q : i < k /\ q[i] = u /\ q[k] = v
    BY <1>7 DEF Precedes
  <2>0. i \in Nat /\ k \in Nat
    BY <1>1, <1>2, <2>1
  <2>2. CASE k \in 1..Len(s) /\ q[k] = s[k]
    <3>1. i \in 1..Len(s)
      BY <1>1, <1>2, <2>1, <2>2
    <3> QED BY <1>1, <1>3, <2>1, <2>2, <3>1 DEF Precedes
  <2>3. CASE k > Len(s) /\ k - Len(s) \in 1..Len(r) /\ q[k] = r[k - Len(s)]
    <3>1. CASE i \in 1..Len(s) /\ q[i] = s[i]
      BY <1>1, <2>1, <2>3, <3>1 DEF ToSet
    <3>2. CASE i > Len(s) /\ i - Len(s) \in 1..Len(r) /\ q[i] = r[i - Len(s)]
      <4>1. i - Len(s) < k - Len(s)
        BY <1>1, <2>0, <2>1
      <4> QED BY <1>1, <2>1, <2>3, <3>2, <4>1 DEF Precedes
    <3> QED BY <1>5, <3>1, <3>2
  <2> QED BY <1>5, <2>2, <2>3
<1>8. ASSUME NEW u, NEW v, Precedes(s, u, v) PROVE Precedes(q, u, v)
  BY <1>1, <1>3, <1>8 DEF Precedes
<1>9. ASSUME NEW u, NEW v, Precedes(r, u, v) PROVE Precedes(q, u, v)
  <2>1. PICK i \in 1..Len(r), k \in 1..Len(r) : i < k /\ r[i] = u /\ r[k] = v
    BY <1>1, <1>9 DEF Precedes
  <2>2. i + Len(s) < k + Len(s)
    BY <1>1, <2>1
  <2> QED BY <1>4, <2>1, <2>2 DEF Precedes
<1>10. ASSUME NEW u \in ToSet(s), NEW v \in ToSet(r) PROVE Precedes(q, u, v)
  <2>1. PICK i \in 1..Len(s) : s[i] = u
    BY <1>1 DEF ToSet
  <2>2. PICK k \in 1..Len(r) : r[k] = v
    BY <1>1 DEF ToSet
  <2>3. i < k + Len(s)
    BY <1>1, <2>1, <2>2
  <2> QED BY <1>3, <1>4, <2>1, <2>2, <2>3 DEF Precedes
<1> QED BY <1>2, <1>6, <1>7, <1>8, <1>9, <1>10 DEF q

LEMMA HeadTailIs ==
    ASSUME NEW T, NEW s \in Seq(T), s # <<>>
    PROVE  /\ Head(s) \in T /\ Tail(s) \in Seq(T)
           /\ ToSet(s) = {Head(s)} \cup ToSet(Tail(s))
           /\ \A u, v : Precedes(s, u, v) <=> \/ Precedes(Tail(s), u, v)
                                              \/ u = Head(s) /\ v \in ToSet(Tail(s))
<1>1. /\ Head(s) \in T /\ Tail(s) \in Seq(T) /\ s = <<Head(s)>> \o Tail(s)
  BY HeadTailProperties, ConcatProperties
<1>2. <<Head(s)>> \in Seq(T) /\ ToSet(<<Head(s)>>) = {Head(s)}
  BY <1>1 DEF ToSet
<1>3. \A u, v : ~Precedes(<<Head(s)>>, u, v)
  BY DEF Precedes
<1> DEFINE a == <<Head(s)>>
           b == Tail(s)
<1>4. /\ ToSet(a \o b) = ToSet(a) \cup ToSet(b)
      /\ \A u, v : Precedes(a \o b, u, v) <=> \/ Precedes(a, u, v) \/ Precedes(b, u, v)
                                              \/ u \in ToSet(a) /\ v \in ToSet(b)
  <2> HIDE DEF a, b
  <2>1. a \in Seq(T) /\ b \in Seq(T)
    BY <1>1, <1>2 DEF a, b
  <2> QED BY <2>1, ConcatIs
<1>5. \A u, v : Precedes(s, u, v) <=> \/ Precedes(a, u, v) \/ Precedes(b, u, v)
                                      \/ u \in ToSet(a) /\ v \in ToSet(b)
  BY <1>1, <1>4
<1>6. \A u, v : Precedes(s, u, v) <=> \/ Precedes(Tail(s), u, v)
                                      \/ u = Head(s) /\ v \in ToSet(Tail(s))
  BY <1>2, <1>3, <1>5
<1> QED BY <1>1, <1>2, <1>4, <1>6

LEMMA ConsIs ==
    ASSUME NEW T, NEW s \in Seq(T), NEW x \in T
    PROVE  /\ <<x>> \o s \in Seq(T)
           /\ ToSet(<<x>> \o s) = {x} \cup ToSet(s)
           /\ \A u, v : Precedes(<<x>> \o s, u, v) <=> \/ Precedes(s, u, v)
                                                       \/ u = x /\ v \in ToSet(s)
<1>1. <<x>> \in Seq(T) /\ ToSet(<<x>>) = {x}
  BY DEF ToSet
<1>2. \A u, v : ~Precedes(<<x>>, u, v)
  BY DEF Precedes
<1> QED BY <1>1, <1>2, ConcatIs

LEMMA ReverseIs ==
    ASSUME NEW T, NEW s \in Seq(T)
    PROVE  /\ Reverse(s) \in Seq(T)
           /\ ToSet(Reverse(s)) = ToSet(s)
           /\ \A u, v : Precedes(Reverse(s), u, v) <=> Precedes(s, v, u)
<1> DEFINE q == Reverse(s)
           n == Len(s)
<1>1. n \in Nat /\ DOMAIN s = 1..n /\ \A i \in 1..n : s[i] \in T
  BY LenProperties, ElementOfSeq
<1>2. q = [i \in 1..n |-> s[(n - i) + 1]]
  BY DEF Reverse
<1> HIDE DEF q, n
<1>3. \A i \in 1..n : (n - i) + 1 \in 1..n /\ (n - ((n - i) + 1)) + 1 = i
  BY <1>1
<1>4. \A i \in 1..n : q[i] = s[(n - i) + 1] /\ q[i] \in T
  BY <1>1, <1>2, <1>3
<1>5. DOMAIN q = 1..n
  BY <1>2
<1>6. q \in Seq(T)
  BY <1>1, <1>2, <1>4, IsASeq
<1>7. \A i \in 1..n : s[i] = q[(n - i) + 1]
  BY <1>3, <1>4
<1>8. ToSet(q) = ToSet(s)
  <2>1. ASSUME NEW x \in ToSet(q) PROVE x \in ToSet(s)
    <3>1. PICK i \in 1..n : q[i] = x
      BY <1>5 DEF ToSet
    <3> QED BY <1>1, <1>3, <1>4, <3>1 DEF ToSet
  <2>2. ASSUME NEW x \in ToSet(s) PROVE x \in ToSet(q)
    <3>1. PICK i \in 1..n : s[i] = x
      BY <1>1 DEF ToSet
    <3> QED BY <1>3, <1>5, <1>7, <3>1 DEF ToSet
  <2> QED BY <2>1, <2>2
<1>9. ASSUME NEW u, NEW v, Precedes(q, u, v) PROVE Precedes(s, v, u)
  <2>1. PICK i \in 1..n, k \in 1..n : i < k /\ q[i] = u /\ q[k] = v
    BY <1>5, <1>9 DEF Precedes
  <2>2. (n - k) + 1 < (n - i) + 1
    BY <1>1, <2>1
  <2>3. s[(n - k) + 1] = v /\ s[(n - i) + 1] = u
    BY <1>4, <2>1
  <2> QED BY <1>1, <1>3, <2>2, <2>3 DEF Precedes
<1>10. ASSUME NEW u, NEW v, Precedes(s, v, u) PROVE Precedes(q, u, v)
  <2>1. PICK i \in 1..n, k \in 1..n : i < k /\ s[i] = v /\ s[k] = u
    BY <1>1, <1>10 DEF Precedes
  <2>2. (n - k) + 1 < (n - i) + 1
    BY <1>1, <2>1
  <2>3. q[(n - k) + 1] = u /\ q[(n - i) + 1] = v
    BY <1>7, <2>1
  <2> QED BY <1>3, <1>5, <2>2, <2>3 DEF Precedes
<1> QED BY <1>6, <1>8, <1>9, <1>10 DEF q

(* A list cut in front of place k. *)
LEMMA CutIs ==
    ASSUME NEW T, NEW s \in Seq(T), NEW k \in DOMAIN s
    PROVE  /\ SubSeq(s, 1, k - 1) \in Seq(T) /\ SubSeq(s, k, Len(s)) \in Seq(T)
           /\ s = SubSeq(s, 1, k - 1) \o SubSeq(s, k, Len(s))
           /\ ToSet(SubSeq(s, 1, k - 1)) = {s[j] : j \in 1..(k - 1)}
           /\ ToSet(SubSeq(s, k, Len(s))) = {s[j] : j \in k..Len(s)}
<1> DEFINE n == Len(s)
           a == SubSeq(s, 1, k - 1)
           b == SubSeq(s, k, n)
<1>1. n \in Nat /\ DOMAIN s = 1..n /\ k \in 1..n /\ \A i \in 1..n : s[i] \in T
  BY LenProperties, ElementOfSeq
<1>2. /\ a \in Seq(T) /\ Len(a) = k - 1 /\ \A i \in 1..(k - 1) : a[i] = s[i]
  <2>1. \A i \in 1..(k - 1) : s[i] \in T
    BY <1>1
  <2>2. Len(a) = k - 1 /\ \A i \in 1..(k - 1) : a[i] = s[i]
    BY <1>1, <2>1, SubSeqProperties
  <2> QED BY <1>1, <2>1, <2>2, SubSeqProperties
<1>3. /\ b \in Seq(T) /\ Len(b) = (n - k) + 1
      /\ \A i \in 1..((n - k) + 1) : b[i] = s[(k + i) - 1]
  BY <1>1, SubSeqProperties
<1> HIDE DEF n, a, b
<1>4. DOMAIN a = 1..(k - 1) /\ DOMAIN b = 1..((n - k) + 1)
  BY <1>2, <1>3, LenProperties
<1>5. s = a \o b
  <2>1. a \o b \in Seq(T) /\ Len(a \o b) = n
    <3>1. Len(a \o b) = Len(a) + Len(b) /\ a \o b \in Seq(T)
      BY <1>2, <1>3, ConcatProperties
    <3> QED BY <1>1, <1>2, <1>3, <3>1
  <2>2. ASSUME NEW i \in 1..n PROVE s[i] = (a \o b)[i]
    <3>1. (a \o b)[i] = IF i <= k - 1 THEN a[i] ELSE b[i - (k - 1)]
      BY <1>1, <1>2, <1>3, ConcatProperties
    <3>2. CASE i <= k - 1
      BY <1>1, <1>2, <3>1, <3>2
    <3>3. CASE ~(i <= k - 1)
      <4>1. i - (k - 1) \in 1..((n - k) + 1) /\ (k + (i - (k - 1))) - 1 = i
        BY <1>1, <3>3
      <4> QED BY <1>3, <3>1, <3>3, <4>1
    <3> QED BY <3>2, <3>3
  <2> QED BY <2>1, <2>2, SeqEqual DEF n
<1>6. ToSet(a) = {s[j] : j \in 1..(k - 1)}
  BY <1>2, <1>4 DEF ToSet
<1>7. ToSet(b) = {s[j] : j \in k..n}
  <2>1. ASSUME NEW i \in 1..((n - k) + 1) PROVE (k + i) - 1 \in k..n
    BY <1>1
  <2>2. ASSUME NEW j \in k..n
        PROVE  (j - k) + 1 \in 1..((n - k) + 1) /\ (k + ((j - k) + 1)) - 1 = j
    BY <1>1
  <2>3. ASSUME NEW x \in ToSet(b) PROVE x \in {s[j] : j \in k..n}
    BY <1>3, <1>4, <2>1 DEF ToSet
  <2>4. ASSUME NEW j \in k..n PROVE s[j] \in ToSet(b)
    BY <1>3, <1>4, <2>2 DEF ToSet
  <2> QED BY <2>3, <2>4
<1> QED BY <1>2, <1>3, <1>5, <1>6, <1>7 DEF n, a, b

LEMMA InsertAtIs ==
    ASSUME NEW T, NEW s \in Seq(T), NEW k \in DOMAIN s, NEW x \in T
    PROVE  /\ InsertAt(s, k, x) \in Seq(T)
           /\ ToSet(InsertAt(s, k, x)) = ToSet(s) \cup {x}
           /\ \A u, v : Precedes(InsertAt(s, k, x), u, v) <=>
                 \/ Precedes(s, u, v)
                 \/ u \in {s[j] : j \in 1..(k - 1)} /\ v = x
                 \/ u = x /\ v \in {s[j] : j \in k..Len(s)}
<1> DEFINE a == SubSeq(s, 1, k - 1)
           b == SubSeq(s, k, Len(s))
<1>1. /\ a \in Seq(T) /\ b \in Seq(T) /\ s = a \o b
      /\ ToSet(a) = {s[j] : j \in 1..(k - 1)} /\ ToSet(b) = {s[j] : j \in k..Len(s)}
  <2>1. /\ SubSeq(s, 1, k - 1) \in Seq(T) /\ SubSeq(s, k, Len(s)) \in Seq(T)
        /\ s = SubSeq(s, 1, k - 1) \o SubSeq(s, k, Len(s))
        /\ ToSet(SubSeq(s, 1, k - 1)) = {s[j] : j \in 1..(k - 1)}
        /\ ToSet(SubSeq(s, k, Len(s))) = {s[j] : j \in k..Len(s)}
    BY CutIs
  <2> QED BY <2>1
<1>2. InsertAt(s, k, x) = (a \o <<x>>) \o b
  BY DEF InsertAt
<1> HIDE DEF a, b
<1>3. <<x>> \in Seq(T) /\ ToSet(<<x>>) = {x} /\ \A u, v : ~Precedes(<<x>>, u, v)
  BY DEF ToSet, Precedes
<1> DEFINE c == a \o <<x>>
<1>4. /\ c \in Seq(T) /\ ToSet(c) = ToSet(a) \cup {x}
      /\ \A u, v : Precedes(c, u, v) <=> Precedes(a, u, v) \/ (u \in ToSet(a) /\ v = x)
  BY <1>1, <1>3, ConcatIs
<1> HIDE DEF c
<1>5. /\ c \o b \in Seq(T) /\ ToSet(c \o b) = ToSet(c) \cup ToSet(b)
      /\ \A u, v : Precedes(c \o b, u, v) <=> \/ Precedes(c, u, v) \/ Precedes(b, u, v)
                                              \/ u \in ToSet(c) /\ v \in ToSet(b)
  BY <1>1, <1>4, ConcatIs
<1>6. /\ ToSet(s) = ToSet(a) \cup ToSet(b)
      /\ \A u, v : Precedes(s, u, v) <=> \/ Precedes(a, u, v) \/ Precedes(b, u, v)
                                         \/ u \in ToSet(a) /\ v \in ToSet(b)
  BY <1>1, ConcatIs
<1>7. InsertAt(s, k, x) = c \o b
  BY <1>2 DEF c
<1>8. InsertAt(s, k, x) \in Seq(T) /\ ToSet(InsertAt(s, k, x)) = ToSet(s) \cup {x}
  BY <1>4, <1>5, <1>6, <1>7
<1>9. \A u, v : Precedes(InsertAt(s, k, x), u, v) <=> \/ Precedes(s, u, v)
                                                      \/ u \in ToSet(a) /\ v = x
                                                      \/ u = x /\ v \in ToSet(b)
  BY <1>4, <1>5, <1>6, <1>7
<1> QED BY <1>1, <1>8, <1>9

(* Keep() keeps what is in S, in the order it had. *)
LEMMA KeepIs ==
    ASSUME NEW T, NEW s \in Seq(T), NEW S
    PROVE  /\ Keep(s, S) \in Seq(T)
           /\ ToSet(Keep(s, S)) = ToSet(s) \cap S
           /\ \A u, v : Precedes(Keep(s, S), u, v) <=> Precedes(s, u, v) /\ u \in S /\ v \in S
<1> DEFINE q == Keep(s, S)
<1>1. q \in Seq(T)
  BY KeepPicks
<1>2. PICK h : Picks(s, S, Len(s), q, h)
  BY KeepPicks
<1> HIDE DEF q
<1>3. Len(s) \in Nat /\ DOMAIN s = 1..Len(s) /\ Len(q) \in Nat /\ DOMAIN q = 1..Len(q)
  BY <1>1, LenProperties
<1>4. /\ \A a \in 1..Len(q) : h[a] \in 1..Len(s) /\ q[a] = s[h[a]] /\ q[a] \in S
      /\ \A a, b \in 1..Len(q) : a < b => h[a] < h[b]
      /\ \A k \in 1..Len(s) : s[k] \in S => \E a \in 1..Len(q) : h[a] = k
  BY <1>2 DEF Picks
<1>5. ToSet(q) = ToSet(s) \cap S
  <2>1. ASSUME NEW x \in ToSet(q) PROVE x \in ToSet(s) \cap S
    BY <1>3, <1>4 DEF ToSet
  <2>2. ASSUME NEW x \in ToSet(s) \cap S PROVE x \in ToSet(q)
    <3>1. PICK k \in 1..Len(s) : s[k] = x
      BY <1>3 DEF ToSet
    <3>2. PICK a \in 1..Len(q) : h[a] = k
      BY <1>4, <3>1
    <3> QED BY <1>3, <1>4, <3>1, <3>2 DEF ToSet
  <2> QED BY <2>1, <2>2
<1>6. ASSUME NEW u, NEW v, Precedes(q, u, v) PROVE Precedes(s, u, v) /\ u \in S /\ v \in S
  <2>1. PICK a \in 1..Len(q), b \in 1..Len(q) : a < b /\ q[a] = u /\ q[b] = v
    BY <1>3, <1>6 DEF Precedes
  <2> QED BY <1>3, <1>4, <2>1 DEF Precedes
<1>7. ASSUME NEW u \in S, NEW v \in S, Precedes(s, u, v) PROVE Precedes(q, u, v)
  <2>1. PICK i \in 1..Len(s), k \in 1..Len(s) : i < k /\ s[i] = u /\ s[k] = v
    BY <1>3, <1>7 DEF Precedes
  <2>2. PICK a \in 1..Len(q) : h[a] = i
    BY <1>4, <2>1
  <2>3. PICK b \in 1..Len(q) : h[b] = k
    BY <1>4, <2>1
  <2>4. ~(b < a) /\ a # b
    BY <1>3, <1>4, <2>1, <2>2, <2>3
  <2>5. a < b
    BY <1>3, <2>4
  <2> QED BY <1>3, <1>4, <2>1, <2>2, <2>3, <2>5 DEF Precedes
<1> QED BY <1>1, <1>5, <1>6, <1>7 DEF q

(* The same three operations on a list without repetitions. *)
LEMMA PopOnce ==
    ASSUME NEW T, NEW s \in Seq(T), s # <<>>, IsInjective(s)
    PROVE  /\ Head(s) \in T /\ Tail(s) \in Seq(T) /\ Head(s) \in ToSet(s)
           /\ ToSet(Tail(s)) = ToSet(s) \ {Head(s)} /\ IsInjective(Tail(s))
<1>1. /\ Head(s) \in T /\ Tail(s) \in Seq(T)
      /\ ToSet(s) = {Head(s)} \cup ToSet(Tail(s))
      /\ \A u, v : Precedes(s, u, v) <=> \/ Precedes(Tail(s), u, v)
                                         \/ u = Head(s) /\ v \in ToSet(Tail(s))
  BY HeadTailIs
<1>2. \A u \in ToSet(s) : ~Precedes(s, u, u)
  BY InjectiveIs
<1>3. Head(s) \notin ToSet(Tail(s)) /\ \A u \in ToSet(Tail(s)) : ~Precedes(Tail(s), u, u)
  BY <1>1, <1>2
<1> QED BY <1>1, <1>3, InjectiveIs

LEMMA PushOnce ==
    ASSUME NEW T, NEW s \in Seq(T), NEW x \in T, IsInjective(s), x \notin ToSet(s)
    PROVE  /\ Append(s, x) \in Seq(T) /\ IsInjective(Append(s, x))
           /\ ToSet(Append(s, x)) = ToSet(s) \cup {x}
<1>1. /\ Append(s, x) \in Seq(T) /\ ToSet(Append(s, x)) = ToSet(s) \cup {x}
      /\ \A u, v : Precedes(Append(s, x), u, v) <=> \/ Precedes(s, u, v)
                                                    \/ u \in ToSet(s) /\ v = x
  BY AppendIs
<1>2. \A u \in ToSet(s) : ~Precedes(s, u, u)
  BY InjectiveIs
<1>3. \A u : ~Precedes(Append(s, x), u, u)
  BY <1>1, <1>2, PrecedesIn
<1> QED BY <1>1, <1>3, InjectiveIs

LEMMA KeepOnce ==
    ASSUME NEW T, NEW s \in Seq(T), NEW S, IsInjective(s)
    PROVE  /\ Keep(s, S) \in Seq(T) /\ IsInjective(Keep(s, S))
           /\ ToSet(Keep(s, S)) = ToSet(s) \cap S
<1>1. /\ Keep(s, S) \in Seq(T) /\ ToSet(Keep(s, S)) = ToSet(s) \cap S
      /\ \A u, v : Precedes(Keep(s, S), u, v) <=> Precedes(s, u, v) /\ u \in S /\ v \in S
  BY KeepIs
<1>2. \A u \in ToSet(s) : ~Precedes(s, u, u)
  BY InjectiveIs
<1> QED BY <1>1, <1>2, InjectiveIs
=============================================================================
