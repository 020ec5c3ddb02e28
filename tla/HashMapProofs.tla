--------------------------- MODULE HashMapProofs ---------------------------
(***************************************************************************)
(* Proofs about HashMap, for every set of keys, every memory and every list  *)
(* of primes: what rehash and hashmap_clear make of the chains, that a       *)
(* node's memory is in one place, that the count is right, that an iteration *)
(* is complete, and, for keys that fit an int, that the map is a set.        *)
(***************************************************************************)
EXTENDS HashMap, FiniteSetTheorems, SequenceTheorems, WellFoundedInduction, TLAPS

-----------------------------------------------------------------------------
(* Inductions over a count are arguments about a least counterexample, and   *)
(* a function defined by recursion is shown to exist in the same way.        *)

LEMMA LeastNat ==
  ASSUME NEW T, T \subseteq Nat, T # {}
  PROVE  \E x \in T : \A y \in T : x <= y
<1> DEFINE R == OpToRel(<, Nat)
<1>1. IsWellFoundedOn(R, Nat)
  BY NatLessThanWellFounded
<1> HIDE DEF R
<1>2. PICK x \in T : \A y \in T : <<y, x>> \notin R
  BY <1>1, WFMin
<1>3. ASSUME NEW y \in T, y < x PROVE FALSE
  <2>1. <<y, x>> \in R
    BY <1>3 DEF R, OpToRel
  <2>2. QED BY <1>2, <2>1
<1>4. QED BY <1>3

\* Sequences without repetition and without a common element.
LEMMA Joined ==
  ASSUME NEW S, NEW s \in Seq(S), NEW u \in Seq(S), IsInjective(s), IsInjective(u),
         ToSet(s) \cap ToSet(u) = {}
  PROVE  s \o u \in Seq(S) /\ IsInjective(s \o u) /\ ToSet(s \o u) = ToSet(s) \cup ToSet(u)
<1> DEFINE a == Len(s)
           b == Len(u)
           r == s \o u
<1>1. a \in Nat /\ b \in Nat /\ DOMAIN s = 1..a /\ DOMAIN u = 1..b
  BY LenProperties
<1>2. r \in Seq(S) /\ Len(r) = a + b
      /\ \A i \in 1..(a + b) : r[i] = IF i <= a THEN s[i] ELSE u[i - a]
  BY ConcatProperties
<1>3. DOMAIN r = 1..(a + b)
  BY <1>2, LenProperties
<1> HIDE DEF r, a, b
<1>4. ASSUME NEW i \in 1..(a + b)
      PROVE  \/ i \in 1..a /\ r[i] = s[i] /\ r[i] \in ToSet(s)
             \/ i - a \in 1..b /\ i > a /\ r[i] = u[i - a] /\ r[i] \in ToSet(u)
  <2>1. CASE i <= a
    <3>1. i \in 1..a /\ r[i] = s[i]
      BY <1>1, <1>2, <2>1
    <3>2. QED BY <1>1, <3>1 DEF ToSet
  <2>2. CASE i > a
    <3>1. i - a \in 1..b /\ r[i] = u[i - a]
      BY <1>1, <1>2, <2>2
    <3>2. QED BY <1>1, <2>2, <3>1 DEF ToSet
  <2>3. QED BY <1>1, <2>1, <2>2
<1>5. ASSUME NEW i \in 1..(a + b), NEW j \in 1..(a + b), r[i] = r[j] PROVE i = j
  <2>1. CASE i \in 1..a /\ r[i] = s[i] /\ r[i] \in ToSet(s)
    <3>1. j \in 1..a /\ r[j] = s[j]
      BY <1>4, <1>5, <2>1
    <3>2. QED BY <1>1, <1>5, <2>1, <3>1 DEF IsInjective
  <2>2. CASE i - a \in 1..b /\ i > a /\ r[i] = u[i - a] /\ r[i] \in ToSet(u)
    <3>1. j - a \in 1..b /\ r[j] = u[j - a]
      BY <1>4, <1>5, <2>2
    <3>2. i - a = j - a
      BY <1>1, <1>5, <2>2, <3>1 DEF IsInjective
    <3>3. QED BY <1>1, <3>2
  <2>3. QED BY <1>4, <2>1, <2>2
<1>6. ASSUME NEW x \in ToSet(s) \cup ToSet(u) PROVE x \in ToSet(r)
  <2>1. CASE x \in ToSet(s)
    <3>1. PICK i \in 1..a : s[i] = x
      BY <1>1, <2>1 DEF ToSet
    <3>2. i \in 1..(a + b) /\ r[i] = x
      BY <1>1, <1>2, <3>1
    <3>3. QED BY <1>3, <3>2 DEF ToSet
  <2>2. CASE x \in ToSet(u)
    <3>1. PICK i \in 1..b : u[i] = x
      BY <1>1, <2>2 DEF ToSet
    <3>2. i + a \in 1..(a + b) /\ ~(i + a <= a) /\ (i + a) - a = i
      BY <1>1, <3>1
    <3>3. r[i + a] = x
      BY <1>2, <3>1, <3>2
    <3>4. QED BY <1>3, <3>2, <3>3 DEF ToSet
  <2>3. QED BY <1>6, <2>1, <2>2
<1>7. ToSet(r) \subseteq ToSet(s) \cup ToSet(u)
  BY <1>3, <1>4 DEF ToSet
<1>8. IsInjective(r)
  BY <1>3, <1>5 DEF IsInjective
<1>9. QED BY <1>2, <1>6, <1>7, <1>8 DEF r

-----------------------------------------------------------------------------
(* FlattenSeq of chains that have no node in common.                        *)

LEMMA FlattenExists ==
  ASSUME NEW u, NEW n \in Nat
  PROVE  \E f : f = [i \in 1..n |-> IF i = 1 THEN u[i] ELSE f[i - 1] \o u[i]]
<1> DEFINE T == {m \in Nat : ~\E f : f = [i \in 1..m |-> IF i = 1 THEN u[i] ELSE f[i - 1] \o u[i]]}
<1>1. SUFFICES ASSUME T # {} PROVE FALSE
  OBVIOUS
<1>2. PICK m \in T : \A k \in T : m <= k
  BY <1>1, LeastNat
<1>3. CASE m = 0
  <2> DEFINE f == [i \in 1..0 |-> u[i]]
  <2>1. f = [i \in 1..0 |-> IF i = 1 THEN u[i] ELSE f[i - 1] \o u[i]]
    OBVIOUS
  <2>2. QED BY <1>2, <1>3, <2>1
<1>4. CASE m > 0
  <2>1. m - 1 \in Nat /\ m - 1 \notin T
    <3>1. m \in Nat
      BY <1>2
    <3> HIDE DEF T
    <3>2. m - 1 \in Nat /\ ~(m <= m - 1)
      BY <1>4, <3>1
    <3>3. QED BY <1>2, <3>2
  <2>2. PICK f : f = [i \in 1..(m - 1) |-> IF i = 1 THEN u[i] ELSE f[i - 1] \o u[i]]
    BY <2>1
  <2> DEFINE g == [i \in 1..m |-> IF i = m THEN IF m = 1 THEN u[m] ELSE f[m - 1] \o u[m] ELSE f[i]]
  <2>3. ASSUME NEW i \in 1..m PROVE g[i] = IF i = 1 THEN u[i] ELSE g[i - 1] \o u[i]
    <3>1. CASE i = m
      <4>1. m # 1 => m - 1 \in 1..m /\ m - 1 # m
        BY <1>4
      <4>2. m # 1 => g[m - 1] = f[m - 1]
        BY <4>1
      <4>3. QED BY <3>1, <4>2
    <3>2. CASE i # m
      <4>1. i \in 1..(m - 1) /\ (i # 1 => i - 1 \in 1..m /\ i - 1 # m)
        BY <1>2, <2>1, <3>2
      <4>2. g[i] = f[i] /\ (i # 1 => g[i - 1] = f[i - 1])
        BY <3>2, <4>1
      <4>3. f[i] = IF i = 1 THEN u[i] ELSE f[i - 1] \o u[i]
        BY <2>2, <4>1
      <4>4. QED BY <4>2, <4>3
    <3>3. QED BY <3>1, <3>2
  <2>4. g = [i \in 1..m |-> IF i = 1 THEN u[i] ELSE g[i - 1] \o u[i]]
    BY <2>3
  <2> HIDE DEF g
  <2>5. QED BY <1>2, <2>4
<1>5. QED BY <1>2, <1>3, <1>4

\* The chains of a table, or of a part of it, have no node in common and none twice.
Apart(t) ==
  \A b, c \in DOMAIN t : \A i \in DOMAIN t[b], j \in DOMAIN t[c] :
    t[b][i] = t[c][j] => b = c /\ i = j

LEMMA Flatten ==
  ASSUME NEW S, NEW n \in Nat, NEW u \in [1..n -> Seq(S)], Apart(u)
  PROVE  /\ FlattenSeq(u) \in Seq(S) /\ IsInjective(FlattenSeq(u))
         /\ ToSet(FlattenSeq(u)) = UNION {ToSet(u[b]) : b \in 1..n}
<1>1. DOMAIN u = 1..n /\ Len(u) = n /\ u \in Seq(Seq(S))
  <2>1. u \in Seq(Seq(S))
    BY SeqDef
  <2>2. QED BY <2>1
<1>2. CASE n = 0
  <2>1. FlattenSeq(u) = u
    BY <1>1, <1>2 DEF FlattenSeq
  <2>2. u \in [1..0 -> S]
    BY <1>1, <1>2
  <2>3. u \in Seq(S)
    BY <2>2, SeqDef
  <2>4. QED BY <1>1, <1>2, <2>1, <2>3 DEF IsInjective, ToSet
<1>3. CASE n > 0
  <2> DEFINE flat == CHOOSE f : f = [i \in 1..Len(u) |-> IF i = 1 THEN u[i] ELSE f[i - 1] \o u[i]]
             P(m) == /\ flat[m] \in Seq(S) /\ IsInjective(flat[m])
                     /\ ToSet(flat[m]) = UNION {ToSet(u[b]) : b \in 1..m}
             T == {m \in 1..n : ~P(m)}
  <2>1. FlattenSeq(u) = flat[n]
    BY <1>1, <1>3 DEF FlattenSeq
  <2>2. flat = [i \in 1..n |-> IF i = 1 THEN u[i] ELSE flat[i - 1] \o u[i]]
    BY <1>1, FlattenExists
  <2> HIDE DEF flat
  <2>3. ASSUME NEW b \in 1..n
        PROVE  u[b] \in Seq(S) /\ IsInjective(u[b])
    BY <1>1 DEF Apart, IsInjective
  <2>4. ASSUME T # {} PROVE FALSE
    <3>1. PICK m \in T : \A k \in T : m <= k
      <4>1. T \subseteq Nat
        OBVIOUS
      <4> HIDE DEF T
      <4>2. QED BY <2>4, <4>1, LeastNat
    <3>2. m \in 1..n /\ ~P(m)
      BY <3>1
    <3>3. CASE m = 1
      <4>1. flat[1] = u[1]
        BY <1>3, <2>2
      <4>2. UNION {ToSet(u[b]) : b \in 1..1} = ToSet(u[1])
        OBVIOUS
      <4>3. QED BY <2>3, <3>2, <3>3, <4>1, <4>2
    <3>4. CASE m > 1
      <4>1. m - 1 \in 1..n /\ m - 1 \notin T
        <5>1. m - 1 \in 1..n /\ ~(m <= m - 1)
          BY <3>2, <3>4
        <5> HIDE DEF T
        <5>2. QED BY <3>1, <5>1
      <4>2. P(m - 1)
        BY <4>1
      <4>3. flat[m] = flat[m - 1] \o u[m]
        <5>1. m \in 1..n /\ m # 1
          BY <3>2, <3>4
        <5> HIDE DEF P
        <5>2. QED BY <2>2, <5>1
      <4>4. ToSet(flat[m - 1]) \cap ToSet(u[m]) = {}
        <5>1. ASSUME NEW x \in ToSet(flat[m - 1]), x \in ToSet(u[m]) PROVE FALSE
          <6>1. PICK b \in 1..(m - 1) : x \in ToSet(u[b])
            BY <4>2
          <6>2. PICK i \in DOMAIN u[b], j \in DOMAIN u[m] : u[b][i] = u[m][j]
            BY <5>1, <6>1 DEF ToSet
          <6>3. b \in DOMAIN u /\ m \in DOMAIN u /\ b # m
            BY <1>1, <3>1
          <6>4. QED BY <6>2, <6>3 DEF Apart
        <5>2. QED BY <5>1
      <4>5. /\ flat[m] \in Seq(S) /\ IsInjective(flat[m])
            /\ ToSet(flat[m]) = ToSet(flat[m - 1]) \cup ToSet(u[m])
        BY <2>3, <3>1, <4>2, <4>3, <4>4, Joined
      <4>6. 1..m = 1..(m - 1) \cup {m}
        BY <3>1, <3>4
      <4>7. ToSet(flat[m]) = UNION {ToSet(u[b]) : b \in 1..m}
        BY <4>2, <4>5, <4>6
      <4>8. QED BY <3>1, <4>5, <4>7
    <3>5. QED BY <3>2, <3>3, <3>4
  <2>5. P(n)
    <3>1. n \in 1..n /\ n \notin T
      BY <1>3, <2>4
    <3>2. QED BY <3>1
  <2>6. QED BY <2>1, <2>5
<1>4. QED BY <1>2, <1>3

-----------------------------------------------------------------------------
(* Chains.                                                                  *)

In(t) == UNION {ToSet(t[b]) : b \in DOMAIN t}
Chains(t, n) == t \in [0..(n - 1) -> Seq(Node)] /\ Apart(t)

\* Every node is in the bucket of its key.
Home(t, n, k) == \A b \in DOMAIN t : \A i \in DOMAIN t[b] : Bucket(k[t[b][i]], n) = b

LEMMA InChain ==
  ASSUME NEW t, NEW x
  PROVE  x \in In(t) <=> \E b \in DOMAIN t : \E i \in DOMAIN t[b] : t[b][i] = x
  BY DEF In, ToSet

\* A chain with one more node, at its head.
LEMMA HeadPut ==
  ASSUME NEW s \in Seq(Node), NEW x \in Node
  PROVE  /\ <<x>> \o s \in Seq(Node) /\ DOMAIN s = 1..Len(s) /\ Len(s) \in Nat
         /\ DOMAIN (<<x>> \o s) = 1..(Len(s) + 1)
         /\ \A i \in 1..(Len(s) + 1) : (<<x>> \o s)[i] = IF i = 1 THEN x ELSE s[i - 1]
<1> DEFINE h == <<x>>
           l == Len(s)
<1>1. h \in Seq(Node) /\ Len(h) = 1 /\ h[1] = x
  OBVIOUS
<1> HIDE DEF h
<1>2. l \in Nat /\ DOMAIN s = 1..l
  BY LenProperties
<1>3. h \o s \in Seq(Node) /\ Len(h \o s) = 1 + l
      /\ \A i \in 1..(1 + l) : (h \o s)[i] = IF i <= 1 THEN h[i] ELSE s[i - 1]
  <2>1. h \o s \in Seq(Node) /\ Len(h \o s) = Len(h) + l
        /\ \A i \in 1..(Len(h) + l) :
             (h \o s)[i] = IF i <= Len(h) THEN h[i] ELSE s[i - Len(h)]
    BY <1>1, ConcatProperties
  <2>2. QED BY <1>1, <2>1
<1>4. DOMAIN (h \o s) = 1..(1 + l) /\ 1 + l = l + 1
  BY <1>2, <1>3, LenProperties
<1> DEFINE r == h \o s
<1> HIDE DEF r, l
<1>5. ASSUME NEW i \in 1..(l + 1) PROVE r[i] = IF i = 1 THEN x ELSE s[i - 1]
  <2>1. i \in 1..(1 + l) /\ (i <= 1 <=> i = 1)
    BY <1>2
  <2>2. r[i] = IF i <= 1 THEN h[i] ELSE s[i - 1]
    BY <1>3, <2>1 DEF r, l
  <2>3. QED BY <1>1, <2>1, <2>2
<1>6. QED BY <1>2, <1>3, <1>4, <1>5 DEF r, l, h

Put(t, b, x) == [t EXCEPT ![b] = <<x>> \o @]

LEMMA PutFirst ==
  ASSUME NEW n \in Nat, NEW t, Chains(t, n), NEW b \in 0..(n - 1), NEW x \in Node, x \notin In(t),
         NEW r, r = Put(t, b, x)
  PROVE  /\ Chains(r, n) /\ In(r) = In(t) \cup {x}
         /\ \A c \in 0..(n - 1) \ {b} : r[c] = t[c]
         /\ DOMAIN r[b] = 1..(Len(t[b]) + 1) /\ r[b][1] = x /\ t[b] \in Seq(Node)
         /\ \A i \in DOMAIN t[b] : i \in Nat /\ i + 1 \in DOMAIN r[b] /\ r[b][i + 1] = t[b][i]
<1> DEFINE l == Len(t[b])
<1>1. DOMAIN t = 0..(n - 1) /\ \A c \in 0..(n - 1) : t[c] \in Seq(Node)
  BY DEF Chains
<1>2. /\ r[b] \in Seq(Node) /\ DOMAIN t[b] = 1..l /\ l \in Nat /\ DOMAIN r[b] = 1..(l + 1)
      /\ \A i \in 1..(l + 1) : r[b][i] = IF i = 1 THEN x ELSE t[b][i - 1]
  <2>1. r[b] = <<x>> \o t[b]
    BY <1>1 DEF Put
  <2>2. QED BY <1>1, <2>1, HeadPut
<1>3. DOMAIN r = 0..(n - 1) /\ \A c \in 0..(n - 1) \ {b} : r[c] = t[c]
  BY <1>1 DEF Put
<1>4. r \in [0..(n - 1) -> Seq(Node)]
  <2>1. r = [c \in 0..(n - 1) |-> IF c = b THEN <<x>> \o t[b] ELSE t[c]]
    BY <1>1 DEF Put
  <2>2. <<x>> \o t[b] \in Seq(Node)
    BY <1>1, HeadPut
  <2>3. QED BY <1>1, <2>1, <2>2
<1> HIDE DEF l
<1>5. ASSUME NEW i \in DOMAIN t[b]
      PROVE  i \in Nat /\ i + 1 \in DOMAIN r[b] /\ r[b][i + 1] = t[b][i]
  <2>1. i \in Nat /\ i + 1 \in 1..(l + 1) /\ i + 1 # 1 /\ (i + 1) - 1 = i
    BY <1>2
  <2>2. QED BY <1>2, <2>1
<1>6. r[b][1] = x /\ 1 \in DOMAIN r[b]
  BY <1>2
<1>7. ASSUME NEW c \in 0..(n - 1), NEW i \in DOMAIN r[c]
      PROVE  \/ c = b /\ i = 1 /\ r[c][i] = x
             \/ c = b /\ i - 1 \in DOMAIN t[c] /\ i \in Nat /\ r[c][i] = t[c][i - 1]
             \/ c # b /\ i \in DOMAIN t[c] /\ r[c][i] = t[c][i]
  <2>1. CASE c # b
    BY <1>3, <1>7, <2>1
  <2>2. CASE c = b /\ i = 1
    BY <1>6, <2>2
  <2>3. CASE c = b /\ i # 1
    <3>1. i \in 1..(l + 1) /\ i - 1 \in 1..l
      BY <1>2, <1>7, <2>3
    <3>2. QED BY <1>2, <2>3, <3>1
  <2>4. QED BY <2>1, <2>2, <2>3
<1>8. ASSUME NEW c \in DOMAIN r, NEW d \in DOMAIN r, NEW i \in DOMAIN r[c], NEW j \in DOMAIN r[d],
             r[c][i] = r[d][j]
      PROVE  c = d /\ i = j
  <2>1. \A e \in DOMAIN t : \A k \in DOMAIN t[e] : t[e][k] # x
    BY InChain
  <2>2. c \in 0..(n - 1) /\ d \in 0..(n - 1)
    BY <1>3
  <2>3. \A e, f \in DOMAIN t : \A k \in DOMAIN t[e], m \in DOMAIN t[f] :
          t[e][k] = t[f][m] => e = f /\ k = m
    BY DEF Chains, Apart
  <2>4. CASE c = b /\ i = 1
    <3>1. r[d][j] = x
      BY <1>6, <1>8, <2>4
    <3>2. QED BY <1>1, <1>7, <2>1, <2>2, <2>4, <3>1
  <2>5. CASE c = b /\ i - 1 \in DOMAIN t[c] /\ i \in Nat /\ r[c][i] = t[c][i - 1]
    <3>1. r[d][j] # x
      BY <1>1, <1>8, <2>1, <2>2, <2>5
    <3>2. CASE d = b /\ j - 1 \in DOMAIN t[d] /\ j \in Nat /\ r[d][j] = t[d][j - 1]
      <4>1. i - 1 = j - 1
        BY <1>1, <1>8, <2>2, <2>3, <2>5, <3>2
      <4>2. QED BY <2>5, <3>2, <4>1
    <3>3. CASE d # b /\ j \in DOMAIN t[d] /\ r[d][j] = t[d][j]
      <4>1. t[c][i - 1] = t[d][j] /\ c # d
        BY <1>8, <2>5, <3>3
      <4>2. QED BY <1>1, <2>2, <2>3, <2>5, <3>3, <4>1
    <3>4. QED BY <1>7, <2>2, <3>1, <3>2, <3>3
  <2>6. CASE c # b /\ i \in DOMAIN t[c] /\ r[c][i] = t[c][i]
    <3>1. r[d][j] # x
      BY <1>1, <1>8, <2>1, <2>2, <2>6
    <3>2. CASE d = b /\ j - 1 \in DOMAIN t[d] /\ j \in Nat /\ r[d][j] = t[d][j - 1]
      BY <1>1, <1>8, <2>2, <2>3, <2>6, <3>2
    <3>3. CASE d # b /\ j \in DOMAIN t[d] /\ r[d][j] = t[d][j]
      <4>1. t[c][i] = t[d][j]
        BY <1>8, <2>6, <3>3
      <4>2. QED BY <1>1, <2>2, <2>3, <2>6, <3>3, <4>1
    <3>4. QED BY <1>7, <2>2, <3>1, <3>2, <3>3
  <2>7. QED BY <1>7, <2>2, <2>4, <2>5, <2>6
<1>9. Apart(r)
  BY <1>8 DEF Apart
<1>10. In(r) = In(t) \cup {x}
  <2>1. ASSUME NEW y \in In(r) PROVE y \in In(t) \cup {x}
    <3>1. PICK c \in DOMAIN r : \E i \in DOMAIN r[c] : r[c][i] = y
      BY <2>1, InChain
    <3>2. PICK i \in DOMAIN r[c] : r[c][i] = y
      BY <3>1
    <3>3. y = x \/ \E k \in DOMAIN t[c] : t[c][k] = y
      BY <1>3, <1>7, <3>2
    <3>4. QED BY <1>1, <1>3, <3>3, InChain
  <2>2. ASSUME NEW y \in In(t) PROVE y \in In(r)
    <3>1. PICK c \in DOMAIN t : \E i \in DOMAIN t[c] : t[c][i] = y
      BY <2>2, InChain
    <3>2. PICK i \in DOMAIN t[c] : t[c][i] = y
      BY <3>1
    <3>3. CASE c = b
      BY <1>1, <1>3, <1>5, <3>2, <3>3, InChain
    <3>4. CASE c # b
      BY <1>1, <1>3, <3>2, <3>4, InChain
    <3>5. QED BY <3>3, <3>4
  <2>3. x \in In(r)
    BY <1>3, <1>6, InChain
  <2>4. QED BY <2>1, <2>2, <2>3
<1>11. Chains(r, n)
  BY <1>4, <1>9 DEF Chains
<1>12. QED BY <1>1, <1>2, <1>3, <1>5, <1>6, <1>10, <1>11 DEF l

LEMMA PutHome ==
  ASSUME NEW n \in Nat, NEW t, Chains(t, n), NEW k, Home(t, n, k), NEW x \in Node, x \notin In(t),
         NEW b \in 0..(n - 1), b = Bucket(k[x], n), NEW r, r = Put(t, b, x)
  PROVE  Home(r, n, k)
<1>1. /\ Chains(r, n) /\ \A c \in 0..(n - 1) \ {b} : r[c] = t[c]
      /\ DOMAIN r[b] = 1..(Len(t[b]) + 1) /\ r[b][1] = x /\ t[b] \in Seq(Node)
      /\ \A i \in DOMAIN t[b] : i \in Nat /\ i + 1 \in DOMAIN r[b] /\ r[b][i + 1] = t[b][i]
  BY PutFirst
<1>2. DOMAIN r = 0..(n - 1) /\ DOMAIN t = 0..(n - 1)
  BY <1>1 DEF Chains
<1>3. ASSUME NEW c \in DOMAIN r, NEW i \in DOMAIN r[c] PROVE Bucket(k[r[c][i]], n) = c
  <2>1. CASE c # b
    BY <1>1, <1>2, <1>3, <2>1 DEF Home
  <2>2. CASE c = b /\ i = 1
    BY <1>1, <2>2
  <2>3. CASE c = b /\ i # 1
    <3>1. i - 1 \in DOMAIN t[b] /\ (i - 1) + 1 = i
      BY <1>1, <1>3, <2>3
    <3>2. r[b][i] = t[b][i - 1]
      BY <1>1, <3>1
    <3>3. Bucket(k[t[b][i - 1]], n) = b
      BY <1>2, <3>1 DEF Home
    <3>4. QED BY <2>3, <3>2, <3>3
  <2>4. QED BY <2>1, <2>2, <2>3
<1>4. QED BY <1>3 DEF Home

-----------------------------------------------------------------------------
(* rehash.                                                                  *)

Bare(n) == [b \in 0..(n - 1) |-> <<>>]
Moved(m, t, n) == [t EXCEPT ![Bucket(key[m], n)] = <<m>> \o @]
Moves(s, l, n, f) == [i \in 0..l |-> IF i = 0 THEN Bare(n) ELSE Moved(s[i], f[i - 1], n)]

LEMMA BareChains ==
  ASSUME NEW n \in Nat
  PROVE  Chains(Bare(n), n) /\ In(Bare(n)) = {} /\ Home(Bare(n), n, key)
<1>1. <<>> \in Seq(Node) /\ DOMAIN <<>> = {}
  OBVIOUS
<1>2. Bare(n) \in [0..(n - 1) -> Seq(Node)] /\ \A b \in DOMAIN Bare(n) : DOMAIN Bare(n)[b] = {}
  BY <1>1 DEF Bare
<1>3. QED BY <1>2, InChain DEF Chains, Apart, Home

LEMMA MovesExist ==
  ASSUME NEW s, NEW l \in Nat, NEW n
  PROVE  \E f : f = Moves(s, l, n, f)
<1> USE DEF Moves
<1> DEFINE Steps(f, m) == Moves(s, m, n, f)
           T == {m \in Nat : ~\E f : f = Steps(f, m)}
<1>1. SUFFICES ASSUME T # {} PROVE FALSE
  OBVIOUS
<1>2. PICK m \in T : \A k \in T : m <= k
  <2>1. T \subseteq Nat
    OBVIOUS
  <2> HIDE DEF T
  <2>2. QED BY <1>1, <2>1, LeastNat
<1>3. m \in Nat /\ ~\E f : f = Steps(f, m)
  BY <1>2
<1>4. CASE m = 0
  <2> DEFINE f == [i \in 0..0 |-> Bare(n)]
  <2>1. f = Steps(f, 0)
    OBVIOUS
  <2>2. QED BY <1>3, <1>4, <2>1
<1>5. CASE m > 0
  <2>1. m - 1 \in Nat /\ m - 1 \notin T
    <3> HIDE DEF T
    <3>1. m - 1 \in Nat /\ ~(m <= m - 1)
      BY <1>3, <1>5
    <3>2. QED BY <1>2, <3>1
  <2>2. PICK f : f = Steps(f, m - 1)
    BY <2>1
  <2> DEFINE g == [i \in 0..m |-> IF i = m THEN Moved(s[m], f[m - 1], n) ELSE f[i]]
  <2>3. ASSUME NEW i \in 0..m
        PROVE  g[i] = IF i = 0 THEN Bare(n) ELSE Moved(s[i], g[i - 1], n)
    <3>1. CASE i = m
      <4>1. m - 1 \in 0..m /\ m - 1 # m /\ i # 0
        BY <1>5, <2>1, <3>1
      <4>2. g[m - 1] = f[m - 1]
        BY <4>1
      <4>3. QED BY <3>1, <4>1, <4>2
    <3>2. CASE i # m
      <4>1. i \in 0..(m - 1) /\ (i # 0 => i - 1 \in 0..m /\ i - 1 # m)
        BY <1>3, <2>1, <3>2
      <4>2. g[i] = f[i] /\ (i # 0 => g[i - 1] = f[i - 1])
        BY <3>2, <4>1
      <4>3. f[i] = IF i = 0 THEN Bare(n) ELSE Moved(s[i], f[i - 1], n)
        BY <2>2, <4>1
      <4>4. QED BY <4>2, <4>3
    <3>3. QED BY <3>1, <3>2
  <2>4. g = Steps(g, m)
    BY <2>3
  <2> HIDE DEF g
  <2>5. QED BY <1>3, <2>4
<1>6. QED BY <1>3, <1>4, <1>5

\* Moving nodes, none of them twice, one after the other into an empty table.
LEMMA MovesKeep ==
  ASSUME NEW n \in Nat \ {0}, NEW s \in Seq(Node), IsInjective(s),
         \A x \in ToSet(s) : key[x] \in Nat,
         NEW f, f = Moves(s, Len(s), n, f)
  PROVE  Chains(f[Len(s)], n) /\ In(f[Len(s)]) = ToSet(s) /\ Home(f[Len(s)], n, key)
<1> DEFINE l == Len(s)
           P(m) == /\ Chains(f[m], n) /\ Home(f[m], n, key)
                   /\ In(f[m]) = {s[i] : i \in 1..m}
           T == {m \in 0..l : ~P(m)}
<1>1. l \in Nat /\ DOMAIN s = 1..l /\ \A i \in 1..l : s[i] \in Node /\ s[i] \in ToSet(s)
  <2>1. l \in Nat /\ DOMAIN s = 1..l /\ \A i \in 1..l : s[i] \in Node
    BY LenProperties, ElementOfSeq
  <2>2. QED BY <2>1 DEF ToSet
<1>2. f[0] = Bare(n)
  BY <1>1 DEF Moves
<1>3. \A m \in 1..l : f[m] = Moved(s[m], f[m - 1], n)
  BY <1>1 DEF Moves
<1> HIDE DEF l
<1>4. ASSUME T # {} PROVE FALSE
  <2>1. PICK m \in T : \A k \in T : m <= k
    <3>1. T \subseteq Nat
      BY <1>1
    <3> HIDE DEF T
    <3>2. QED BY <1>4, <3>1, LeastNat
  <2>2. m \in 0..l /\ ~P(m)
    BY <2>1
  <2>3. CASE m = 0
    BY <1>2, <2>2, <2>3, BareChains
  <2>4. CASE m > 0
    <3>1. m \in 1..l /\ m - 1 \in 0..l /\ ~(m <= m - 1)
      BY <1>1, <2>2, <2>4
    <3>2. P(m - 1)
      <4>1. m - 1 \notin T
        <5> HIDE DEF T
        <5>1. QED BY <2>1, <3>1
      <4>2. QED BY <3>1, <4>1
    <3> DEFINE t == f[m - 1]
               x == s[m]
               b == Bucket(key[x], n)
               r == Put(t, b, x)
    <3>3. f[m] = r
      BY <1>3, <3>1 DEF Moved, Put
    <3>4. x \in Node /\ b \in 0..(n - 1) /\ n \in Nat
      BY <1>1, <3>1 DEF Bucket
    <3>5. x \notin In(t)
      <4>1. \A i \in 1..(m - 1) : i \in 1..l /\ i # m
        BY <1>1, <3>1
      <4>2. \A i \in 1..(m - 1) : s[i] # x
        BY <1>1, <3>1, <4>1 DEF IsInjective
      <4>3. QED BY <3>2, <4>2
    <3>6. Chains(t, n) /\ Home(t, n, key) /\ In(t) = {s[i] : i \in 1..(m - 1)}
      BY <3>2
    <3> HIDE DEF t, x, b, r, P
    <3>7. /\ Chains(r, n) /\ In(r) = In(t) \cup {x}
          /\ \A c \in 0..(n - 1) \ {b} : r[c] = t[c]
          /\ DOMAIN r[b] = 1..(Len(t[b]) + 1) /\ r[b][1] = x /\ t[b] \in Seq(Node)
      BY <3>4, <3>5, <3>6, PutFirst DEF r
    <3>8. Home(r, n, key)
      BY <3>4, <3>5, <3>6, PutHome DEF b, r
    <3>9. In(r) = {s[i] : i \in 1..m}
      <4>1. 1..m = 1..(m - 1) \cup {m}
        BY <3>1
      <4>2. QED BY <3>6, <3>7, <4>1 DEF x
    <3>10. QED BY <2>2, <3>3, <3>7, <3>8, <3>9 DEF P
  <2>5. QED BY <1>1, <2>2, <2>3, <2>4
<1>5. P(l)
  <2>1. l \in 0..l /\ l \notin T
    <3> HIDE DEF T
    <3>1. QED BY <1>1, <1>4
  <2>2. QED BY <2>1
<1>6. {s[i] : i \in 1..l} = ToSet(s)
  BY <1>1 DEF ToSet
<1>7. QED BY <1>5, <1>6 DEF l

LEMMA SizeOf ==
  ASSUME NEW n \in Nat, NEW t, DOMAIN t = 0..(n - 1)
  PROVE  Cardinality(DOMAIN t) = n
<1>1. \A m \in Int : Cardinality(0..m) = IF 0 > m THEN 0 ELSE m - 0 + 1
  BY FS_Interval
<1>2. n - 1 \in Int
  OBVIOUS
<1>3. Cardinality(0..(n - 1)) = IF 0 > n - 1 THEN 0 ELSE (n - 1) - 0 + 1
  BY <1>1, <1>2
<1>4. QED BY <1>3

\* The table as one sequence.
LEMMA OrderOfTable ==
  ASSUME size \in Nat, Chains(table, size)
  PROVE  InOrder \in Seq(Node) /\ IsInjective(InOrder) /\ ToSet(InOrder) = Nodes
<1> DEFINE u == [i \in 1..size |-> table[i - 1]]
<1>1. DOMAIN table = 0..(size - 1) /\ \A b \in 0..(size - 1) : table[b] \in Seq(Node)
  BY DEF Chains
<1>2. u \in [1..size -> Seq(Node)] /\ DOMAIN u = 1..size
      /\ \A i \in 1..size : i - 1 \in 0..(size - 1) /\ u[i] = table[i - 1]
  BY <1>1
<1> HIDE DEF u
<1>3. Apart(u)
  <2>1. SUFFICES ASSUME NEW b \in 1..size, NEW c \in 1..size,
                        NEW i \in DOMAIN u[b], NEW j \in DOMAIN u[c], u[b][i] = u[c][j]
                 PROVE  b = c /\ i = j
    BY <1>2 DEF Apart
  <2>2. b - 1 = c - 1 /\ i = j
    <3>1. b - 1 \in DOMAIN table /\ c - 1 \in DOMAIN table /\ i \in DOMAIN table[b - 1]
          /\ j \in DOMAIN table[c - 1] /\ table[b - 1][i] = table[c - 1][j]
      BY <1>1, <1>2, <2>1
    <3>2. \A d, e \in DOMAIN table : \A k \in DOMAIN table[d], m \in DOMAIN table[e] :
            table[d][k] = table[e][m] => d = e /\ k = m
      BY DEF Chains, Apart
    <3>3. QED BY <3>1, <3>2
  <2>3. QED BY <2>2
<1>4. /\ FlattenSeq(u) \in Seq(Node) /\ IsInjective(FlattenSeq(u))
      /\ ToSet(FlattenSeq(u)) = UNION {ToSet(u[b]) : b \in 1..size}
  BY <1>2, <1>3, Flatten
<1>5. UNION {ToSet(u[b]) : b \in 1..size} = Nodes
  <2>1. ASSUME NEW b \in DOMAIN table PROVE b + 1 \in 1..size /\ u[b + 1] = table[b]
    <3>1. b + 1 \in 1..size /\ (b + 1) - 1 = b
      BY <1>1
    <3>2. QED BY <1>2, <3>1
  <2>2. UNION {ToSet(u[b]) : b \in 1..size} \subseteq Nodes
    BY <1>1, <1>2 DEF Nodes
  <2>3. Nodes \subseteq UNION {ToSet(u[b]) : b \in 1..size}
    BY <2>1 DEF Nodes
  <2>4. QED BY <2>2, <2>3
<1>6. InOrder = FlattenSeq(u)
  BY DEF InOrder, u
<1>7. QED BY <1>4, <1>5, <1>6

\* After rehash every node is in the table once, in the bucket of its key.
LEMMA RehashKeeps ==
  ASSUME size \in Nat, Chains(table, size), \A x \in Nodes : key[x] \in Nat, NEW n \in Nat \ {0}
  PROVE  Chains(Rehash(n), n) /\ In(Rehash(n)) = Nodes /\ Home(Rehash(n), n, key)
<1> DEFINE l == Len(InOrder)
           f == CHOOSE f : f = Moves(InOrder, l, n, f)
<1>1. Rehash(n) = f[l]
  BY DEF Rehash, Bare, Moved, Moves
<1>2. InOrder \in Seq(Node) /\ IsInjective(InOrder) /\ ToSet(InOrder) = Nodes
  BY OrderOfTable
<1>3. l \in Nat
  BY <1>2, LenProperties
<1>4. f = Moves(InOrder, l, n, f)
  <2>1. \E g : g = Moves(InOrder, l, n, g)
    BY <1>3, MovesExist
  <2>2. QED BY <2>1
<1> HIDE DEF f
<1>5. QED BY <1>1, <1>2, <1>4, MovesKeep

-----------------------------------------------------------------------------
(* hashmap_remove takes one node out of its chain.                          *)

LEMMA Without ==
  ASSUME NEW s \in Seq(Node), NEW i \in DOMAIN s
  PROVE  /\ RemoveAt(s, i) \in Seq(Node) /\ i \in Nat /\ DOMAIN s = 1..Len(s) /\ Len(s) \in Nat
         /\ DOMAIN RemoveAt(s, i) = 1..(Len(s) - 1)
         /\ \A k \in 1..(Len(s) - 1) : RemoveAt(s, i)[k] = IF k < i THEN s[k] ELSE s[k + 1]
<1> DEFINE l == Len(s)
           front == SubSeq(s, 1, i - 1)
           back == SubSeq(s, i + 1, l)
           r == front \o back
<1>1. l \in Nat /\ DOMAIN s = 1..l /\ i \in 1..l /\ \A k \in 1..l : s[k] \in Node
  BY LenProperties, ElementOfSeq
<1> HIDE DEF l
<1>2. front \in Seq(Node) /\ Len(front) = i - 1 /\ \A k \in 1..(i - 1) : front[k] = s[k]
  <2>1. 1 \in Int /\ i - 1 \in Int /\ \A k \in 1..(i - 1) : s[k] \in Node
    BY <1>1
  <2>2. /\ front \in Seq(Node) /\ Len(front) = IF 1 <= i - 1 THEN (i - 1) - 1 + 1 ELSE 0
        /\ \A k \in 1..((i - 1) - 1 + 1) : front[k] = s[1 + k - 1]
    BY <2>1, SubSeqProperties
  <2> HIDE DEF front
  <2>3. Len(front) = i - 1
    BY <1>1, <2>2
  <2>4. \A k \in 1..(i - 1) : k \in 1..((i - 1) - 1 + 1) /\ 1 + k - 1 = k
    BY <1>1
  <2>5. QED BY <2>2, <2>3, <2>4
<1>3. back \in Seq(Node) /\ Len(back) = l - i /\ \A k \in 1..(l - i) : back[k] = s[i + k]
  <2>1. i + 1 \in Int /\ l \in Int /\ \A k \in (i + 1)..l : s[k] \in Node
    BY <1>1
  <2>2. /\ back \in Seq(Node) /\ Len(back) = IF i + 1 <= l THEN l - (i + 1) + 1 ELSE 0
        /\ \A k \in 1..(l - (i + 1) + 1) : back[k] = s[(i + 1) + k - 1]
    BY <2>1, SubSeqProperties
  <2> HIDE DEF back
  <2>3. Len(back) = l - i
    BY <1>1, <2>2
  <2>4. \A k \in 1..(l - i) : k \in 1..(l - (i + 1) + 1) /\ (i + 1) + k - 1 = i + k
    BY <1>1
  <2>5. QED BY <2>2, <2>3, <2>4
<1> HIDE DEF front, back
<1>4. /\ r \in Seq(Node) /\ Len(r) = (i - 1) + (l - i)
      /\ \A k \in 1..((i - 1) + (l - i)) : r[k] = IF k <= i - 1 THEN front[k] ELSE back[k - (i - 1)]
  <2>1. /\ r \in Seq(Node) /\ Len(r) = Len(front) + Len(back)
        /\ \A k \in 1..(Len(front) + Len(back)) :
             r[k] = IF k <= Len(front) THEN front[k] ELSE back[k - Len(front)]
    BY <1>2, <1>3, ConcatProperties
  <2>2. QED BY <1>2, <1>3, <2>1
<1>5. RemoveAt(s, i) = r
  BY DEF RemoveAt, r, front, back, l
<1> HIDE DEF r
<1>6. (i - 1) + (l - i) = l - 1 /\ DOMAIN r = 1..(l - 1)
  BY <1>1, <1>4, LenProperties
<1>7. ASSUME NEW k \in 1..(l - 1) PROVE r[k] = IF k < i THEN s[k] ELSE s[k + 1]
  <2>1. CASE k < i
    <3>1. k \in 1..(i - 1) /\ k <= i - 1
      BY <1>1, <2>1
    <3>2. QED BY <1>2, <1>4, <1>6, <2>1, <3>1
  <2>2. CASE k >= i
    <3>1. k - (i - 1) \in 1..(l - i) /\ i + (k - (i - 1)) = k + 1 /\ ~(k <= i - 1)
      BY <1>1, <2>2
    <3>2. r[k] = back[k - (i - 1)]
      BY <1>4, <1>6, <3>1
    <3>3. back[k - (i - 1)] = s[k + 1]
      BY <1>3, <3>1
    <3>4. ~(k < i)
      BY <1>1, <2>2
    <3>5. QED BY <3>2, <3>3, <3>4
  <2>3. QED BY <1>1, <2>1, <2>2
<1>8. QED BY <1>1, <1>4, <1>5, <1>6, <1>7 DEF l

Drop(t, b, i) == [t EXCEPT ![b] = RemoveAt(@, i)]

LEMMA DropKeeps ==
  ASSUME NEW n \in Nat, NEW t, Chains(t, n), NEW b \in 0..(n - 1), NEW i \in DOMAIN t[b],
         NEW k, Home(t, n, k)
  PROVE  /\ Chains(Drop(t, b, i), n) /\ Home(Drop(t, b, i), n, k)
         /\ In(Drop(t, b, i)) = In(t) \ {t[b][i]}
<1> DEFINE r == Drop(t, b, i)
           s == t[b]
           l == Len(s)
<1>1. DOMAIN t = 0..(n - 1) /\ \A c \in 0..(n - 1) : t[c] \in Seq(Node)
  BY DEF Chains
<1>2. r[b] = RemoveAt(s, i) /\ DOMAIN r = 0..(n - 1) /\ \A c \in 0..(n - 1) \ {b} : r[c] = t[c]
  BY <1>1 DEF Drop
<1>3. /\ r[b] \in Seq(Node) /\ i \in 1..l /\ DOMAIN s = 1..l /\ l \in Nat /\ DOMAIN r[b] = 1..(l - 1)
      /\ \A m \in 1..(l - 1) : r[b][m] = IF m < i THEN s[m] ELSE s[m + 1]
  BY <1>1, <1>2, Without
<1>4. r \in [0..(n - 1) -> Seq(Node)]
  <2>1. r = [c \in 0..(n - 1) |-> IF c = b THEN RemoveAt(s, i) ELSE t[c]]
    BY <1>1 DEF Drop
  <2>2. RemoveAt(s, i) \in Seq(Node)
    BY <1>2, <1>3
  <2> HIDE DEF r, s
  <2>3. QED BY <1>1, <2>1, <2>2
<1> HIDE DEF r, l
\* Where each place of the new table comes from.
<1> DEFINE Old(c, j) == IF c = b /\ j >= i THEN j + 1 ELSE j
<1>5. ASSUME NEW c \in DOMAIN r, NEW j \in DOMAIN r[c]
      PROVE  Old(c, j) \in DOMAIN t[c] /\ r[c][j] = t[c][Old(c, j)] /\ (c = b => Old(c, j) # i)
  <2>1. CASE c # b
    BY <1>2, <2>1
  <2>2. CASE c = b
    <3>1. j \in 1..(l - 1)
      BY <1>3, <2>2
    <3>2. CASE j < i
      <4>1. Old(c, j) = j /\ j \in 1..l /\ j # i
        BY <1>3, <3>1, <3>2
      <4>2. QED BY <1>3, <2>2, <3>1, <3>2, <4>1
    <3>3. CASE j >= i
      <4>1. Old(c, j) = j + 1 /\ j + 1 \in 1..l /\ j + 1 # i /\ ~(j < i)
        BY <1>3, <2>2, <3>1, <3>3
      <4>2. QED BY <1>3, <2>2, <3>1, <4>1
    <3>4. QED BY <1>3, <3>1, <3>2, <3>3
  <2>3. QED BY <2>1, <2>2
<1>6. \A c, d \in DOMAIN t : \A j \in DOMAIN t[c], m \in DOMAIN t[d] :
        t[c][j] = t[d][m] => c = d /\ j = m
  BY DEF Chains, Apart
<1>7. ASSUME NEW c \in DOMAIN r, NEW d \in DOMAIN r, NEW j \in DOMAIN r[c], NEW m \in DOMAIN r[d],
             r[c][j] = r[d][m]
      PROVE  c = d /\ j = m
  <2>1. c = d /\ Old(c, j) = Old(d, m)
    <3>1. t[c][Old(c, j)] = t[d][Old(d, m)] /\ Old(c, j) \in DOMAIN t[c] /\ Old(d, m) \in DOMAIN t[d]
      BY <1>5, <1>7
    <3> HIDE DEF Old
    <3>2. QED BY <1>1, <1>2, <1>6, <3>1
  <2>2. CASE c = b
    BY <1>3, <1>7, <2>1, <2>2
  <2>3. CASE c # b
    BY <2>1, <2>3
  <2>4. QED BY <2>2, <2>3
<1>8. Chains(r, n)
  BY <1>4, <1>7 DEF Chains, Apart
<1>9. Home(r, n, k)
  <2> HIDE DEF Old
  <2>1. QED BY <1>1, <1>2, <1>5 DEF Home
<1>10. ASSUME NEW x \in In(r) PROVE x \in In(t) \ {s[i]}
  <2>1. PICK c \in DOMAIN r : \E j \in DOMAIN r[c] : r[c][j] = x
    BY <1>10, InChain
  <2>2. PICK j \in DOMAIN r[c] : r[c][j] = x
    BY <2>1
  <2> DEFINE o == Old(c, j)
  <2>3. o \in DOMAIN t[c] /\ t[c][o] = x /\ (c = b => o # i) /\ c \in DOMAIN t
    BY <1>1, <1>2, <1>5, <2>2
  <2> HIDE DEF o
  <2>4. x \in In(t)
    BY <2>3, InChain
  <2>5. x # s[i]
    BY <1>1, <1>6, <2>3
  <2>6. QED BY <2>4, <2>5
<1>11. ASSUME NEW x \in In(t), x # s[i] PROVE x \in In(r)
  <2>1. PICK c \in DOMAIN t : \E j \in DOMAIN t[c] : t[c][j] = x
    BY <1>11, InChain
  <2>2. PICK j \in DOMAIN t[c] : t[c][j] = x
    BY <2>1
  <2>3. CASE c # b
    BY <1>1, <1>2, <2>2, <2>3, InChain
  <2>4. CASE c = b /\ j < i
    <3>1. j \in 1..(l - 1)
      BY <1>3, <2>4
    <3>2. r[b][j] = x
      BY <1>3, <2>2, <2>4, <3>1
    <3>3. QED BY <1>2, <1>3, <3>1, <3>2, InChain
  <2>5. CASE c = b /\ j > i
    <3>1. j - 1 \in 1..(l - 1) /\ ~(j - 1 < i) /\ (j - 1) + 1 = j
      BY <1>3, <2>5
    <3>2. r[b][j - 1] = x
      BY <1>3, <2>2, <2>5, <3>1
    <3>3. QED BY <1>2, <1>3, <3>1, <3>2, InChain
  <2>6. c = b => j < i \/ j > i
    BY <1>3, <1>11, <2>2
  <2>7. QED BY <2>3, <2>4, <2>5, <2>6
<1>12. QED BY <1>8, <1>9, <1>10, <1>11 DEF r

-----------------------------------------------------------------------------
(* The table, the count and the collected nodes.                            *)

MapInv ==
  /\ size \in Primes \cup {0} /\ Chains(table, size) /\ Home(table, size, key)
  /\ collected \in Seq(Node) /\ IsInjective(collected) /\ ToSet(collected) \cap Nodes = {}
  /\ element_count = Cardinality(Nodes) /\ element_count <= size
  /\ key \in [Node -> Key \cup {-1}] /\ \A x \in Nodes : key[x] \in Key

LEMMA NodesIn == Nodes = In(table)
  BY DEF Nodes, In

LEMMA NodesFinite ==
  ASSUME NEW t, NEW n, Chains(t, n)
  PROVE  /\ In(t) \subseteq Node /\ IsFiniteSet(In(t)) /\ Cardinality(In(t)) \in Nat
         /\ \A x \in Node \ In(t) :
              /\ Cardinality(In(t) \cup {x}) = Cardinality(In(t)) + 1
              /\ Cardinality(In(t)) < Cardinality(Node) /\ Cardinality(Node) \in Nat
         /\ \A x \in In(t) : Cardinality(In(t) \ {x}) = Cardinality(In(t)) - 1
<1>1. In(t) \subseteq Node
  <2>1. SUFFICES ASSUME NEW x \in In(t) PROVE x \in Node
    OBVIOUS
  <2>2. PICK b \in DOMAIN t : \E i \in DOMAIN t[b] : t[b][i] = x
    BY <2>1, InChain
  <2>3. t[b] \in Seq(Node)
    BY DEF Chains
  <2>4. QED BY <2>2, <2>3
<1>2. IsFiniteSet(Node) /\ Cardinality(Node) \in Nat
  BY HashAssumption, FS_CardinalityType
<1>3. IsFiniteSet(In(t)) /\ Cardinality(In(t)) \in Nat
  BY <1>1, <1>2, FS_Subset, FS_CardinalityType
<1>4. ASSUME NEW x \in Node \ In(t)
      PROVE  /\ Cardinality(In(t) \cup {x}) = Cardinality(In(t)) + 1
             /\ Cardinality(In(t)) < Cardinality(Node)
  <2>1. Cardinality(In(t) \cup {x}) = Cardinality(In(t)) + 1
    BY <1>3, FS_AddElement
  <2>2. In(t) \cup {x} \subseteq Node
    BY <1>1
  <2>3. Cardinality(In(t) \cup {x}) <= Cardinality(Node)
    BY <1>2, <2>2, FS_Subset
  <2>4. QED BY <1>2, <1>3, <2>1, <2>3
<1>5. ASSUME NEW x \in In(t) PROVE Cardinality(In(t) \ {x}) = Cardinality(In(t)) - 1
  BY <1>3, FS_RemoveElement
<1>6. QED BY <1>1, <1>2, <1>3, <1>4, <1>5

LEMMA MapParts ==
  ASSUME MapInv
  PROVE  /\ size \in Nat /\ element_count \in Nat /\ DOMAIN table = 0..(size - 1)
         /\ Nodes \subseteq Node /\ \A x \in Nodes : key[x] \in Nat
<1>1. size \in Nat
  BY HashAssumption DEF MapInv
<1>2. DOMAIN table = 0..(size - 1) /\ Chains(table, size)
  BY DEF MapInv, Chains
<1>3. Nodes \subseteq Node /\ Cardinality(Nodes) \in Nat
  BY <1>2, NodesIn, NodesFinite
<1>4. QED BY <1>1, <1>2, <1>3, HashAssumption DEF MapInv

\* need_rehash finds a prime for one node more.
LEMMA GrowFits ==
  ASSUME MapInv, NEW x \in Node \ Nodes
  PROVE  /\ Grow(element_count) \in Primes /\ Grow(element_count) \in Nat \ {0}
         /\ Grow(element_count) >= element_count + 1
<1>1. size \in Nat /\ element_count \in Nat /\ element_count <= size
      /\ element_count < Cardinality(Node) /\ Cardinality(Node) \in Nat
  BY MapParts, NodesIn, NodesFinite DEF MapInv
<1>2. CASE element_count < size
  <2>1. Grow(element_count) = size
    BY <1>2 DEF Grow
  <2>2. size \in Primes
    BY <1>1, <1>2 DEF MapInv
  <2>3. QED BY <1>1, <1>2, <2>1, <2>2
<1>3. CASE element_count = size
  <2> DEFINE w == Wanted(element_count)
             T == {p \in Primes : p >= w}
  <2>1. w \in Nat /\ w >= element_count + 1 /\ w <= 2 * Cardinality(Node)
    BY <1>1, <1>3 DEF Wanted
  <2>2. Grow(element_count) = PrimeFrom(w)
    BY <1>1, <1>3 DEF Grow
  <2> HIDE DEF w
  <2>3. PICK q \in Primes : q >= 2 * Cardinality(Node)
    BY HashAssumption
  <2>4. Primes \subseteq Nat \ {0}
    BY HashAssumption
  <2>5. q \in T
    BY <1>1, <2>1, <2>3, <2>4
  <2>6. \E p \in T : \A r \in T : p <= r
    BY <2>4, <2>5, LeastNat
  <2>7. PrimeFrom(w) \in Primes /\ PrimeFrom(w) >= w
    <3>1. PICK p \in T : \A r \in T : p <= r
      BY <2>6
    <3>2. p \in Primes /\ p >= w /\ \A r \in Primes : r >= w => p <= r
      BY <3>1
    <3>3. QED BY <3>2 DEF PrimeFrom
  <2> DEFINE p == PrimeFrom(w)
  <2>8. p \in Nat \ {0} /\ p >= element_count + 1
    <3>1. p \in Nat \ {0} /\ p >= w
      BY <2>4, <2>7
    <3> HIDE DEF p
    <3>2. QED BY <1>1, <2>1, <3>1
  <2>9. QED BY <2>2, <2>7, <2>8
<1>4. QED BY <1>1, <1>2, <1>3

\* hashmap_new_at: one more node, that was in no chain, at the head of a chain; the
\* others stay where they are unless the table grows.
LEMMA NewStep ==
  ASSUME MapInv, NEW k \in Key, NewAt(k)
  PROVE  /\ MapInv'
         /\ \E n \in Node \ Nodes, b \in Nat :
              /\ Nodes' = Nodes \cup {n} /\ key' = [key EXCEPT ![n] = k]
              /\ Grow(element_count) = size => b \in DOMAIN table /\ table' = Put(table, b, n)
<1> DEFINE n == Allocated
           m == Grow(element_count)
           grown == IF m = size THEN table ELSE Rehash(m)
           b == Bucket(k, m)
<1>1. size \in Nat /\ element_count \in Nat /\ DOMAIN table = 0..(size - 1)
      /\ Nodes \subseteq Node /\ \A x \in Nodes : key[x] \in Nat
  BY MapParts
<1>2. n \in Node /\ n \notin Nodes
  <2>1. CASE collected # <<>>
    <3>1. n = Head(collected)
      BY <2>1 DEF Allocated
    <3>2. collected \in Seq(Node) /\ Head(collected) = collected[1] /\ 1 \in DOMAIN collected
      BY <2>1 DEF MapInv
    <3>3. QED BY <3>1, <3>2 DEF MapInv, ToSet
  <2>2. CASE collected = <<>>
    <3>1. Fresh # {}
      BY <2>2 DEF NewAt
    <3>2. n \in Fresh
      BY <2>2, <3>1 DEF Allocated
    <3>3. QED BY <3>2 DEF Fresh
  <2>3. QED BY <2>1, <2>2
<1>3. m \in Primes /\ m \in Nat \ {0} /\ m >= element_count + 1
  BY <1>2, GrowFits
<1>4. Chains(grown, m) /\ In(grown) = Nodes /\ Home(grown, m, key)
  <2>1. CASE m = size
    BY <2>1, NodesIn DEF MapInv
  <2>2. CASE m # size
    BY <1>1, <1>3, <2>2, RehashKeeps DEF MapInv
  <2>3. QED BY <2>1, <2>2
<1>5. Cardinality(DOMAIN grown) = m /\ DOMAIN grown = 0..(m - 1)
  BY <1>3, <1>4, SizeOf DEF Chains
<1>6. table' = Put(grown, b, n)
  BY <1>5 DEF NewAt, Inserted, Put
<1>7. m = size => table' = Put(table, b, n)
  BY <1>6
<1>8. element_count' = element_count + 1 /\ key' = [key EXCEPT ![n] = k]
  BY DEF NewAt
<1>9. collected' \in Seq(Node) /\ IsInjective(collected') /\ ToSet(collected') \cap (Nodes \cup {n}) = {}
  <2>1. CASE collected # <<>>
    <3> DEFINE c == Tail(collected)
               l == Len(collected)
    <3>1. collected' = c /\ n = Head(collected)
      BY <2>1 DEF NewAt, Allocated
    <3>2. /\ c \in Seq(Node) /\ l \in Nat \ {0} /\ DOMAIN collected = 1..l /\ DOMAIN c = 1..(l - 1)
          /\ n = collected[1] /\ \A i \in 1..(l - 1) : c[i] = collected[i + 1]
      BY <2>1, <3>1 DEF MapInv
    <3> HIDE DEF c, l, n
    <3>3. \A i \in 1..(l - 1) : i + 1 \in DOMAIN collected /\ i + 1 # 1 /\ c[i] = collected[i + 1]
      BY <3>2
    <3>4. 1 \in DOMAIN collected /\ \A i, j \in DOMAIN collected : collected[i] = collected[j] => i = j
      BY <3>2 DEF MapInv, IsInjective
    <3>5. IsInjective(c)
      <4>1. SUFFICES ASSUME NEW i \in 1..(l - 1), NEW j \in 1..(l - 1), c[i] = c[j] PROVE i = j
        BY <3>2 DEF IsInjective
      <4>2. i + 1 = j + 1
        BY <3>3, <3>4, <4>1
      <4>3. QED BY <4>2
    <3>6. ToSet(c) \cap (Nodes \cup {n}) = {}
      <4>1. SUFFICES ASSUME NEW i \in 1..(l - 1) PROVE c[i] \notin Nodes /\ c[i] # n
        BY <3>2 DEF ToSet
      <4>2. c[i] # n
        BY <3>2, <3>3, <3>4
      <4>3. c[i] \in ToSet(collected)
        BY <3>3 DEF ToSet
      <4>4. QED BY <4>2, <4>3 DEF MapInv
    <3>7. QED BY <3>1, <3>2, <3>5, <3>6
  <2>2. CASE collected = <<>>
    <3>1. collected' = <<>>
      BY <2>2 DEF NewAt
    <3>2. QED BY <3>1 DEF IsInjective, ToSet
  <2>3. QED BY <2>1, <2>2
<1>10. b \in 0..(m - 1)
  BY <1>3, HashAssumption DEF Bucket
<1> HIDE DEF n, m, grown, b
<1>11. Chains(table', m) /\ In(table') = Nodes \cup {n}
  BY <1>2, <1>3, <1>4, <1>6, <1>10, PutFirst
<1>12. key' \in [Node -> Key \cup {-1}] /\ key'[n] = k /\ \A x \in Nodes : key'[x] = key[x]
  BY <1>1, <1>2, <1>8 DEF MapInv
<1>13. Home(table', m, key')
  <2>1. Home(grown, m, key')
    <3>1. SUFFICES ASSUME NEW c \in DOMAIN grown, NEW i \in DOMAIN grown[c]
                   PROVE  Bucket(key'[grown[c][i]], m) = c
      BY DEF Home
    <3>2. grown[c][i] \in Nodes
      BY <1>4, InChain
    <3>3. QED BY <1>4, <1>12, <3>2 DEF Home
  <2>2. b = Bucket(key'[n], m)
    BY <1>12 DEF b
  <2>3. QED BY <1>2, <1>3, <1>4, <1>6, <1>10, <2>1, <2>2, PutHome
<1>14. size' = m
  BY <1>3, <1>11, SizeOf DEF size, Chains
<1>15. Nodes' = Nodes \cup {n}
  BY <1>11 DEF Nodes, In
<1>16. element_count' = Cardinality(Nodes')
  BY <1>2, <1>8, <1>15, NodesIn, NodesFinite DEF MapInv
<1>17. \A x \in Nodes' : key'[x] \in Key
  BY <1>12, <1>15 DEF MapInv
<1>18. MapInv'
  BY <1>1, <1>3, <1>8, <1>9, <1>11, <1>12, <1>13, <1>14, <1>15, <1>16, <1>17 DEF MapInv
<1>19. b \in Nat /\ (Grow(element_count) = size => b \in DOMAIN table)
  BY <1>1, <1>3, <1>10 DEF m
<1>20. QED BY <1>2, <1>7, <1>8, <1>15, <1>18, <1>19 DEF m

\* A key that is found: where its node is.
LEMMA Found ==
  ASSUME MapInv, NEW k, Hits(k) # {}
  PROVE  /\ Probed(k) \in DOMAIN table /\ FirstHit(k) \in DOMAIN table[Probed(k)]
         /\ Walk(k) = table[Probed(k)][FirstHit(k)] /\ Walk(k) \in Nodes /\ key[Walk(k)] = k
<1>1. Probed(k) \in DOMAIN table /\ Chain(k) = table[Probed(k)]
  <2>1. DOMAIN <<>> = {}
    OBVIOUS
  <2>2. QED BY <2>1 DEF Hits, Chain
<1>2. DOMAIN Chain(k) \subseteq Nat
  <2>1. table[Probed(k)] \in Seq(Node)
    BY <1>1, MapParts DEF MapInv, Chains
  <2>2. QED BY <1>1, <2>1, LenProperties
<1>3. FirstHit(k) \in Hits(k)
  <2>1. Hits(k) \subseteq Nat
    BY <1>2 DEF Hits
  <2>2. \E i \in Hits(k) : \A j \in Hits(k) : i <= j
    BY <2>1, LeastNat
  <2>3. QED BY <2>2 DEF FirstHit
<1>4. FirstHit(k) \in DOMAIN Chain(k) /\ key[Chain(k)[FirstHit(k)]] = k
  BY <1>3 DEF Hits
<1>5. Walk(k) = Chain(k)[FirstHit(k)]
  BY DEF Walk
<1>6. Walk(k) \in Nodes
  BY <1>1, <1>4, <1>5, NodesIn, InChain
<1>7. QED BY <1>1, <1>4, <1>5, <1>6

\* hashmap_remove: one node of the key is gone.
LEMMA RemoveStep ==
  ASSUME MapInv, NEW k \in Key, RemoveKey(k)
  PROVE  /\ MapInv'
         /\ \E x \in Nodes :
              key[x] = k /\ Nodes' = Nodes \ {x} /\ key' = [key EXCEPT ![x] = -1]
<1> DEFINE b == Probed(k)
           i == FirstHit(k)
           x == Walk(k)
<1>1. size \in Nat /\ element_count \in Nat /\ DOMAIN table = 0..(size - 1)
      /\ Nodes \subseteq Node /\ Chains(table, size) /\ Home(table, size, key)
  BY MapParts DEF MapInv
<1>2. b \in DOMAIN table /\ i \in DOMAIN table[b] /\ x = table[b][i] /\ x \in Nodes /\ key[x] = k
  <2>1. Hits(k) # {}
    BY DEF RemoveKey, Walk
  <2>2. QED BY <2>1, Found
<1>3. /\ table' = Drop(table, b, i) /\ element_count' = element_count - 1
      /\ key' = [key EXCEPT ![x] = -1] /\ collected' = collected
  BY DEF RemoveKey, Drop
<1> HIDE DEF b, i, x
<1>4. Chains(table', size) /\ Home(table', size, key) /\ In(table') = Nodes \ {x}
  BY <1>1, <1>2, <1>3, DropKeeps, NodesIn
<1>5. size' = size
  BY <1>1, <1>4, SizeOf DEF size, Chains
<1>6. Nodes' = Nodes \ {x}
  BY <1>4 DEF Nodes, In
<1>7. key' \in [Node -> Key \cup {-1}] /\ \A y \in Nodes \ {x} : key'[y] = key[y]
  BY <1>1, <1>3 DEF MapInv
<1>8. Home(table', size, key')
  <2>1. SUFFICES ASSUME NEW c \in DOMAIN table', NEW j \in DOMAIN table'[c]
                 PROVE  Bucket(key'[table'[c][j]], size) = c
    BY DEF Home
  <2>2. table'[c][j] \in Nodes \ {x}
    BY <1>4, InChain
  <2>3. QED BY <1>4, <1>7, <2>2 DEF Home
<1>9. Cardinality(Nodes') = Cardinality(Nodes) - 1
  BY <1>1, <1>2, <1>6, NodesIn, NodesFinite
<1>10. element_count' = Cardinality(Nodes') /\ element_count' <= size
  BY <1>1, <1>3, <1>9 DEF MapInv
<1>11. ToSet(collected) \cap Nodes' = {}
  BY <1>6 DEF MapInv
<1>12. \A y \in Nodes' : key'[y] \in Key
  BY <1>6, <1>7 DEF MapInv
<1>13. MapInv'
  BY <1>3, <1>4, <1>5, <1>7, <1>8, <1>10, <1>11, <1>12 DEF MapInv
<1>14. QED BY <1>2, <1>3, <1>6, <1>13

\* hashmap_clear: no node is left in a chain and every one of them is collected.
LEMMA ClearStep ==
  ASSUME MapInv, Clear
  PROVE  MapInv' /\ Nodes' = {}
<1>1. size \in Nat /\ DOMAIN table = 0..(size - 1) /\ Nodes \subseteq Node /\ Chains(table, size)
  BY MapParts DEF MapInv
<1>2. table' = Bare(size) /\ collected' = collected \o InOrder /\ element_count' = 0
  BY <1>1 DEF Clear, Emptied, Bare
<1>3. Chains(table', size) /\ In(table') = {} /\ Home(table', size, key')
  <2>1. Chains(table', size) /\ In(table') = {}
    <3>1. Chains(Bare(size), size) /\ In(Bare(size)) = {}
      BY <1>1, BareChains
    <3>2. QED BY <1>2, <3>1
  <2>2. \A b \in DOMAIN table' : DOMAIN table'[b] = {}
    <3>1. SUFFICES ASSUME NEW b \in DOMAIN table', NEW i \in DOMAIN table'[b] PROVE FALSE
      OBVIOUS
    <3>2. table'[b][i] \in In(table')
      BY <3>1, InChain
    <3>3. QED BY <2>1, <3>2
  <2>3. QED BY <2>1, <2>2 DEF Home
<1>4. size' = size
  BY <1>1, <1>3, SizeOf DEF size, Chains
<1>5. Nodes' = {}
  BY <1>3 DEF Nodes, In
<1>6. collected' \in Seq(Node) /\ IsInjective(collected')
  <2>1. InOrder \in Seq(Node) /\ IsInjective(InOrder) /\ ToSet(InOrder) = Nodes
    BY <1>1, OrderOfTable
  <2>2. QED BY <1>2, <2>1, Joined DEF MapInv
<1>7. key' \in [Node -> Key \cup {-1}]
  BY DEF Clear, MapInv
<1>8. Cardinality(Nodes') = 0
  BY <1>5, FS_EmptySet
<1>9. QED BY <1>1, <1>2, <1>3, <1>4, <1>5, <1>6, <1>7, <1>8 DEF MapInv

LEMMA MapAlways == Spec => []MapInv
<1>1. Init => MapInv
  <2>1. SUFFICES ASSUME Init PROVE MapInv
    OBVIOUS
  <2>2. DOMAIN table = {} /\ table = Bare(0)
    BY <2>1 DEF Init, Bare
  <2>3. size = 0
    BY <2>2, FS_EmptySet DEF size
  <2>4. Chains(table, 0) /\ In(table) = {} /\ Home(table, 0, key)
    BY <2>2, BareChains
  <2>5. Nodes = {} /\ Cardinality({}) = 0
    BY <2>4, NodesIn, FS_EmptySet
  <2>6. collected = <<>> /\ IsInjective(<<>>) /\ ToSet(<<>>) = {} /\ <<>> \in Seq(Node)
    BY <2>1 DEF Init, IsInjective, ToSet
  <2>7. key \in [Node -> Key \cup {-1}] /\ element_count = 0
    BY <2>1 DEF Init
  <2>8. QED BY <2>3, <2>4, <2>5, <2>6, <2>7 DEF MapInv
<1>2. MapInv /\ [Next]_vars => MapInv'
  <2>1. SUFFICES ASSUME MapInv, [Next]_vars PROVE MapInv'
    OBVIOUS
  <2>2. CASE UNCHANGED <<table, element_count, collected, key>>
    <3>1. size' = size /\ Nodes' = Nodes
      BY <2>2 DEF size, Nodes
    <3>2. QED BY <2>1, <2>2, <3>1 DEF MapInv, Chains, Home
  <2>3. CASE \E k \in Key : NewAt(k)
    BY <2>1, <2>3, NewStep
  <2>4. CASE \E k \in Key : RemoveKey(k)
    BY <2>1, <2>4, RemoveStep
  <2>5. CASE Clear
    BY <2>1, <2>5, ClearStep
  <2>6. CASE (\E k \in Key : HasKey(k)) \/ ForEach \/ NextNode \/ UNCHANGED vars
    BY <2>2, <2>6 DEF HasKey, ForEach, NextNode, vars
  <2>7. QED BY <2>1, <2>3, <2>4, <2>5, <2>6 DEF Next
<1>3. QED BY <1>1, <1>2, PTL DEF Spec

\* A node's memory is in one place only: in one chain, once, or among the collected.
THEOREM OneOwner == Spec => []OnePlace
<1>1. MapInv => OnePlace
  <2>1. SUFFICES ASSUME MapInv PROVE OnePlace
    OBVIOUS
  <2>2. InOrder \in Seq(Node) /\ IsInjective(InOrder) /\ ToSet(InOrder) = Nodes
    BY <2>1, MapParts, OrderOfTable DEF MapInv
  <2>3. QED BY <2>1, <2>2, Joined DEF MapInv, OnePlace
<1>2. QED BY <1>1, MapAlways, PTL

\* The count is that of the nodes in the table, and never more than its buckets.
THEOREM CountIsRight == Spec => []Loaded
<1>1. MapInv => Loaded
  BY DEF MapInv, Loaded
<1>2. QED BY <1>1, MapAlways, PTL

-----------------------------------------------------------------------------
(* foreach_hashmap.  While the table does not grow, the nodes still to be     *)
(* visited are behind the iterator and those already visited are not.        *)

Iterators ==
  [on : BOOLEAN, bucket : Nat, node : Node \cup {NoNode}, due : SUBSET Node,
   visited : SUBSET Node, twice : BOOLEAN, grown : BOOLEAN]

Ahead(t, b, i, x) ==
  \E c \in DOMAIN t : \E j \in DOMAIN t[c] : t[c][j] = x /\ (c > b \/ (c = b /\ j > i))

OnTrack(t, r) ==
  /\ r.bucket \in DOMAIN t
  /\ \E i \in DOMAIN t[r.bucket] :
       /\ t[r.bucket][i] = r.node
       /\ \A x \in r.due : Ahead(t, r.bucket, i, x)
       /\ \A x \in r.visited : ~Ahead(t, r.bucket, i, x)

\* The iterator r of the table.
Complete(r) ==
  /\ r \in Iterators
  /\ r.on => r.node \in Nodes /\ r.visited \subseteq Nodes
  /\ ~r.grown => /\ ~r.twice /\ (~r.on => r.due = {})
                 /\ r.on => OnTrack(table, r)

LEMMA VisitFields ==
  ASSUME NEW r \in Iterators, NEW b \in Nat, NEW n \in Node, NEW v, v = Visit(r, b, n)
  PROVE  /\ v \in Iterators /\ v.on /\ v.bucket = b /\ v.node = n /\ v.due = r.due \ {n}
         /\ v.visited = r.visited \cup {n} /\ v.grown = r.grown
         /\ v.twice = (r.twice \/ n \in r.visited)
<1>1. v = [on |-> TRUE, bucket |-> b, node |-> n, due |-> r.due \ {n},
           visited |-> r.visited \cup {n}, twice |-> r.twice \/ n \in r.visited,
           grown |-> r.grown]
  BY DEF Visit, Iterators
<1>2. r.due \ {n} \in SUBSET Node /\ r.visited \cup {n} \in SUBSET Node
      /\ (r.twice \/ n \in r.visited) \in BOOLEAN /\ r.grown \in BOOLEAN
  BY DEF Iterators
<1>3. QED BY <1>1, <1>2 DEF Iterators

\* The loop visits the node at place i of bucket b, when the due ones are there or
\* behind it and the visited ones are not.
LEMMA Visited ==
  ASSUME MapInv, NEW r \in Iterators, NEW b \in DOMAIN table, NEW i \in DOMAIN table[b],
         NEW v, v = Visit(r, b, table[b][i]), r.visited \subseteq Nodes,
         ~r.grown =>
           /\ ~r.twice
           /\ \A x \in r.due : x = table[b][i] \/ Ahead(table, b, i, x)
           /\ \A x \in r.visited : x # table[b][i] /\ ~Ahead(table, b, i, x)
  PROVE  Complete(v) /\ v.on
<1> DEFINE n == table[b][i]
<1>1. n \in Nodes /\ Nodes \subseteq Node /\ b \in Nat
  BY NodesIn, InChain, MapParts
<1>2. i \in Nat
  <2>1. table[b] \in Seq(Node)
    BY DEF MapInv, Chains
  <2>2. QED BY <2>1, LenProperties
<1>3. ~Ahead(table, b, i, n)
  <2>1. ASSUME NEW c \in DOMAIN table, NEW j \in DOMAIN table[c], table[c][j] = n
        PROVE  c = b /\ j = i
    BY <2>1 DEF MapInv, Chains, Apart
  <2>2. ASSUME NEW c \in DOMAIN table, NEW j \in DOMAIN table[c], table[c][j] = n,
               c > b \/ (c = b /\ j > i)
        PROVE  FALSE
    <3>1. c = b /\ j = i
      BY <2>1, <2>2
    <3>2. ~(b > b) /\ ~(i > i)
      BY <1>1, <1>2
    <3>3. QED BY <2>2, <3>1, <3>2
  <2>3. QED BY <2>2 DEF Ahead
<1> HIDE DEF n
<1>4. /\ v \in Iterators /\ v.on /\ v.bucket = b /\ v.node = n /\ v.due = r.due \ {n}
      /\ v.visited = r.visited \cup {n} /\ v.grown = r.grown
      /\ v.twice = (r.twice \/ n \in r.visited)
  BY <1>1, VisitFields DEF n
<1>5. ASSUME ~r.grown PROVE ~v.twice /\ OnTrack(table, v)
  <2>1. ~v.twice
    BY <1>4, <1>5 DEF n
  <2>2. \A x \in v.due : Ahead(table, b, i, x)
    BY <1>4, <1>5 DEF n
  <2>3. \A x \in v.visited : ~Ahead(table, b, i, x)
    BY <1>3, <1>4, <1>5
  <2>4. QED BY <1>4, <2>1, <2>2, <2>3 DEF OnTrack, n
<1>6. QED BY <1>1, <1>4, <1>5 DEF Complete

\* The loop goes on at bucket b or ends there.
LEMMA MovedTo ==
  ASSUME MapInv, NEW r \in Iterators, NEW b \in Nat, r.visited \subseteq Nodes,
         ~r.grown =>
           /\ ~r.twice
           /\ \A x \in r.due : \E c \in DOMAIN table : c >= b /\ x \in ToSet(table[c])
           /\ \A x \in r.visited : ~\E c \in DOMAIN table : c >= b /\ x \in ToSet(table[c])
  PROVE  Complete(MoveTo(r, b))
<1> DEFINE later == {c \in DOMAIN table : c >= b /\ table[c] # <<>>}
<1>1. DOMAIN table = 0..(size - 1) /\ size \in Nat
      /\ \A c \in DOMAIN table : table[c] \in Seq(Node)
  BY MapParts DEF MapInv, Chains
<1>2. CASE later = {}
  <2> DEFINE v == [r EXCEPT !.on = FALSE, !.node = NoNode, !.visited = {}]
  <2>1. MoveTo(r, b) = v
    BY <1>2 DEF MoveTo
  <2>2. v \in Iterators /\ ~v.on /\ v.due = r.due /\ v.twice = r.twice /\ v.grown = r.grown
    BY DEF Iterators
  <2>3. ~r.grown => r.due = {}
    <3>1. SUFFICES ASSUME ~r.grown, NEW x \in r.due PROVE FALSE
      OBVIOUS
    <3>2. PICK c \in DOMAIN table : c >= b /\ x \in ToSet(table[c])
      BY <3>1
    <3>3. table[c] # <<>>
      BY <3>2 DEF ToSet
    <3>4. QED BY <1>2, <3>2, <3>3
  <2> HIDE DEF v
  <2>4. QED BY <2>1, <2>2, <2>3 DEF Complete
<1>3. CASE later # {}
  <2> DEFINE c == CHOOSE c \in later : \A d \in later : c <= d
  <2>1. c \in later /\ \A d \in later : c <= d
    <3>1. later \subseteq Nat
      BY <1>1
    <3> HIDE DEF later
    <3>2. \E d \in later : \A e \in later : d <= e
      BY <1>3, <3>1, LeastNat
    <3>3. QED BY <3>2
  <2>2. MoveTo(r, b) = Visit(r, c, table[c][1])
    BY <1>3 DEF MoveTo
  <2> HIDE DEF c
  <2>3. c \in DOMAIN table /\ c >= b /\ 1 \in DOMAIN table[c] /\ c \in Nat
    <3>1. c \in DOMAIN table /\ c >= b /\ table[c] # <<>> /\ c \in Nat
      BY <1>1, <2>1
    <3>2. 1 \in DOMAIN table[c]
      BY <1>1, <3>1
    <3>3. QED BY <3>1, <3>2
  <2> DEFINE n == table[c][1]
  <2>4. ASSUME NEW x, NEW d \in DOMAIN table, d >= b, x \in ToSet(table[d])
        PROVE  x = n \/ Ahead(table, c, 1, x)
    <3>1. PICK j \in DOMAIN table[d] : table[d][j] = x
      BY <2>4 DEF ToSet
    <3>2. table[d] # <<>>
      BY <2>4 DEF ToSet
    <3>3. d \in later
      BY <2>4, <3>2
    <3>4. c <= d /\ d \in Nat
      <4>1. d \in Nat
        BY <1>1
      <4> HIDE DEF later
      <4>2. QED BY <2>1, <3>3, <4>1
    <3>5. j \in Nat \ {0}
      <4>1. table[d] \in Seq(Node)
        BY <1>1
      <4>2. DOMAIN table[d] = 1..Len(table[d]) /\ Len(table[d]) \in Nat
        BY <4>1, LenProperties
      <4>3. QED BY <4>2
    <3>6. (c = d /\ j = 1) \/ d > c \/ (d = c /\ j > 1)
      BY <2>3, <3>4, <3>5
    <3>7. QED BY <3>1, <3>6 DEF Ahead
  <2>5. ASSUME NEW x, x = n \/ Ahead(table, c, 1, x)
        PROVE  \E d \in DOMAIN table : d >= b /\ x \in ToSet(table[d])
    <3>1. CASE x = n
      BY <2>3, <3>1 DEF ToSet
    <3>2. CASE Ahead(table, c, 1, x)
      <4>1. PICK d \in DOMAIN table : \E j \in DOMAIN table[d] : table[d][j] = x /\ (d > c \/ d = c)
        BY <3>2 DEF Ahead
      <4>2. d \in Nat
        BY <1>1
      <4>3. d >= b /\ x \in ToSet(table[d])
        BY <2>3, <4>1, <4>2 DEF ToSet
      <4>4. QED BY <4>3
    <3>3. QED BY <2>5, <3>1, <3>2
  <2>6. ASSUME ~r.grown
        PROVE  /\ ~r.twice
               /\ \A x \in r.due : x = n \/ Ahead(table, c, 1, x)
               /\ \A x \in r.visited : x # n /\ ~Ahead(table, c, 1, x)
    <3>1. \A x \in r.due : x = n \/ Ahead(table, c, 1, x)
      BY <2>4, <2>6
    <3>2. \A x \in r.visited : ~(x = n \/ Ahead(table, c, 1, x))
      BY <2>5, <2>6
    <3>3. QED BY <2>6, <3>1, <3>2
  <2> HIDE DEF n
  <2>7. Complete(Visit(r, c, table[c][1]))
    BY <2>3, <2>6, Visited DEF n
  <2>8. QED BY <2>2, <2>7
<1>4. QED BY <1>2, <1>3

\* What follows a node in its chain.
LEMMA AfterPlace ==
  ASSUME MapInv, NEW b \in DOMAIN table, NEW i \in DOMAIN table[b],
         NEW s, s = After(table[b][i])
  PROVE  IF i + 1 \in DOMAIN table[b] THEN s # <<>> /\ Head(s) = table[b][i + 1]
                                      ELSE s = <<>>
<1> DEFINE n == table[b][i]
           c == CHOOSE c \in DOMAIN table : n \in ToSet(table[c])
           j == CHOOSE j \in DOMAIN table[c] : table[c][j] = n
           l == Len(table[b])
<1>1. c = b /\ j = i
  <2>1. n \in ToSet(table[b])
    BY DEF ToSet
  <2>2. c \in DOMAIN table /\ n \in ToSet(table[c])
    BY <2>1
  <2> HIDE DEF c
  <2>3. j \in DOMAIN table[c] /\ table[c][j] = n
    BY <2>2 DEF ToSet
  <2> HIDE DEF j
  <2>4. QED BY <2>2, <2>3 DEF MapInv, Chains, Apart
<1>2. s = SubSeq(table[b], i + 1, l)
  BY <1>1 DEF After
<1>3. table[b] \in Seq(Node)
  BY DEF MapInv, Chains
<1>4. l \in Nat /\ DOMAIN table[b] = 1..l /\ i \in Nat /\ i + 1 \in 1..(l + 1)
  <2>1. l \in Nat /\ DOMAIN table[b] = 1..l
    BY <1>3, LenProperties
  <2> HIDE DEF l
  <2>2. QED BY <2>1
<1>5. \A k \in (i + 1)..l : table[b][k] \in Node
  <2>1. \A k \in 1..l : table[b][k] \in Node
    BY <1>3, ElementOfSeq
  <2>2. (i + 1)..l \subseteq 1..l
    BY <1>4
  <2>3. QED BY <2>1, <2>2
<1>6. /\ s \in Seq(Node) /\ Len(s) = IF i + 1 <= l THEN l - (i + 1) + 1 ELSE 0
      /\ \A k \in 1..(l - (i + 1) + 1) : s[k] = table[b][(i + 1) + k - 1]
  BY <1>2, <1>4, <1>5, SubSeqProperties
<1> HIDE DEF l
<1>7. CASE i + 1 <= l
  <2>1. i + 1 \in 1..l /\ Len(s) > 0 /\ 1 \in 1..(l - (i + 1) + 1) /\ (i + 1) + 1 - 1 = i + 1
    BY <1>4, <1>6, <1>7
  <2>2. s[1] = table[b][i + 1] /\ s # <<>>
    BY <1>6, <2>1
  <2>3. QED BY <1>4, <1>6, <2>1, <2>2
<1>8. CASE ~(i + 1 <= l)
  <2>1. i + 1 \notin DOMAIN table[b] /\ Len(s) = 0
    BY <1>4, <1>6, <1>8
  <2>2. QED BY <1>6, <2>1
<1>9. QED BY <1>7, <1>8

LEMMA NextStep ==
  ASSUME MapInv, Complete(iter), NextNode
  PROVE  Complete(iter')
<1>1. /\ iter.on /\ iter \in Iterators /\ iter.node \in Nodes /\ iter.visited \subseteq Nodes
      /\ iter.bucket \in Nat
      /\ ~iter.grown => ~iter.twice /\ OnTrack(table, iter)
  BY DEF NextNode, Complete, Iterators
<1>2. iter' = IF After(iter.node) # <<>>
                THEN Visit(iter, iter.bucket, Head(After(iter.node)))
                ELSE MoveTo(iter, iter.bucket + 1)
  BY DEF NextNode
<1>3. \A d \in DOMAIN table : d \in Nat /\ \A j \in DOMAIN table[d] : j \in Nat
  <2>1. \A d \in DOMAIN table : d \in Nat /\ table[d] \in Seq(Node)
    BY MapParts DEF MapInv, Chains
  <2>2. QED BY <2>1, LenProperties
<1>4. \A d, e \in DOMAIN table : \A j \in DOMAIN table[d], k \in DOMAIN table[e] :
        table[d][j] = table[e][k] => d = e /\ j = k
  BY DEF MapInv, Chains, Apart
<1>5. CASE iter.grown
  <2>1. PICK b \in DOMAIN table : \E i \in DOMAIN table[b] : table[b][i] = iter.node
    BY <1>1, NodesIn, InChain
  <2>2. PICK i \in DOMAIN table[b] : table[b][i] = iter.node
    BY <2>1
  <2>3. CASE After(iter.node) # <<>>
    <3> DEFINE m == table[b][i + 1]
               v == Visit(iter, iter.bucket, m)
    <3>1. i + 1 \in DOMAIN table[b] /\ Head(After(iter.node)) = m
      BY <2>2, <2>3, AfterPlace
    <3>2. m \in Nodes /\ Nodes \subseteq Node
      BY <3>1, NodesIn, InChain, MapParts
    <3> HIDE DEF m
    <3>3. v \in Iterators /\ v.on /\ v.node = m /\ v.visited = iter.visited \cup {m} /\ v.grown
      BY <1>1, <1>5, <3>2, VisitFields
    <3>4. iter' = v
      BY <1>2, <2>3, <3>1
    <3> HIDE DEF v
    <3>5. QED BY <1>1, <3>2, <3>3, <3>4 DEF Complete
  <2>4. CASE After(iter.node) = <<>>
    <3>1. iter' = MoveTo(iter, iter.bucket + 1) /\ iter.bucket + 1 \in Nat
      BY <1>1, <1>2, <2>4
    <3>2. QED BY <1>1, <1>5, <3>1, MovedTo
  <2>5. QED BY <2>3, <2>4
<1>6. CASE ~iter.grown
  <2> DEFINE b == iter.bucket
  <2>1. /\ b \in DOMAIN table
        /\ \E i \in DOMAIN table[b] :
             /\ table[b][i] = iter.node
             /\ \A x \in iter.due : Ahead(table, b, i, x)
             /\ \A x \in iter.visited : ~Ahead(table, b, i, x)
    BY <1>1, <1>6 DEF OnTrack
  <2>2. PICK i \in DOMAIN table[b] :
             /\ table[b][i] = iter.node
             /\ \A x \in iter.due : Ahead(table, b, i, x)
             /\ \A x \in iter.visited : ~Ahead(table, b, i, x)
    BY <2>1
  <2>3. b \in Nat /\ i \in Nat
    BY <1>3, <2>1
  <2> HIDE DEF b
  <2>4. CASE i + 1 \in DOMAIN table[b]
    <3>1. iter' = Visit(iter, b, table[b][i + 1])
      <4>1. After(iter.node) # <<>> /\ Head(After(iter.node)) = table[b][i + 1]
        BY <2>1, <2>2, <2>4, AfterPlace
      <4>2. QED BY <1>2, <4>1 DEF b
    <3>2. ASSUME NEW x \in iter.due PROVE x = table[b][i + 1] \/ Ahead(table, b, i + 1, x)
      <4>1. PICK c \in DOMAIN table : \E j \in DOMAIN table[c] : table[c][j] = x /\ (c > b \/ (c = b /\ j > i))
        BY <2>2 DEF Ahead
      <4>2. PICK j \in DOMAIN table[c] : table[c][j] = x /\ (c > b \/ (c = b /\ j > i))
        BY <4>1
      <4>3. j \in Nat
        BY <1>3
      <4>4. c > b \/ (c = b /\ j > i + 1) \/ (c = b /\ j = i + 1)
        BY <2>3, <4>2, <4>3
      <4>5. QED BY <4>2, <4>4 DEF Ahead
    <3>3. ASSUME NEW x \in iter.visited PROVE x # table[b][i + 1] /\ ~Ahead(table, b, i + 1, x)
      <4>1. ~Ahead(table, b, i, x)
        BY <2>2
      <4>2. i + 1 > i
        BY <2>3
      <4>3. x # table[b][i + 1]
        BY <2>1, <2>4, <4>1, <4>2 DEF Ahead
      <4>4. ASSUME Ahead(table, b, i + 1, x) PROVE FALSE
        <5>1. PICK c \in DOMAIN table : \E j \in DOMAIN table[c] : table[c][j] = x /\ (c > b \/ (c = b /\ j > i + 1))
          BY <4>4 DEF Ahead
        <5>2. PICK j \in DOMAIN table[c] : table[c][j] = x /\ (c > b \/ (c = b /\ j > i + 1))
          BY <5>1
        <5>3. j \in Nat
          BY <1>3
        <5>4. c > b \/ (c = b /\ j > i)
          BY <2>3, <5>2, <5>3
        <5>5. QED BY <4>1, <5>2, <5>4 DEF Ahead
      <4>5. QED BY <4>3, <4>4
    <3>4. QED BY <1>1, <1>6, <2>1, <2>4, <3>1, <3>2, <3>3, Visited
  <2>5. CASE i + 1 \notin DOMAIN table[b]
    <3>1. iter' = MoveTo(iter, b + 1) /\ b + 1 \in Nat
      <4>1. After(iter.node) = <<>>
        BY <2>1, <2>2, <2>5, AfterPlace
      <4>2. QED BY <1>2, <2>3, <4>1 DEF b
    <3>2. ASSUME NEW j \in DOMAIN table[b] PROVE ~(j > i)
      <4>1. table[b] \in Seq(Node)
        BY <2>1 DEF MapInv, Chains
      <4>2. DOMAIN table[b] = 1..Len(table[b]) /\ Len(table[b]) \in Nat
        BY <4>1, LenProperties
      <4>3. QED BY <2>2, <2>5, <4>2
    <3>3. ASSUME NEW x \in iter.due
          PROVE  \E c \in DOMAIN table : c >= b + 1 /\ x \in ToSet(table[c])
      <4>1. PICK c \in DOMAIN table : \E j \in DOMAIN table[c] : table[c][j] = x /\ (c > b \/ (c = b /\ j > i))
        BY <2>2 DEF Ahead
      <4>2. PICK j \in DOMAIN table[c] : table[c][j] = x /\ (c > b \/ (c = b /\ j > i))
        BY <4>1
      <4>3. c > b /\ c \in Nat
        BY <1>3, <3>2, <4>2
      <4>4. c >= b + 1
        BY <2>3, <4>3
      <4>5. QED BY <4>2, <4>4 DEF ToSet
    <3>4. ASSUME NEW x \in iter.visited, NEW c \in DOMAIN table, c >= b + 1, x \in ToSet(table[c])
          PROVE  FALSE
      <4>1. PICK j \in DOMAIN table[c] : table[c][j] = x
        BY <3>4 DEF ToSet
      <4>2. c > b
        BY <1>3, <2>3, <3>4
      <4>3. QED BY <2>2, <4>1, <4>2 DEF Ahead
    <3>5. QED BY <1>1, <1>6, <3>1, <3>3, <3>4, MovedTo
  <2>6. QED BY <2>4, <2>5
<1>7. QED BY <1>5, <1>6

LEMMA StartStep ==
  ASSUME MapInv, ForEach
  PROVE  Complete(iter')
<1> DEFINE r == [Idle EXCEPT !.due = Nodes]
<1>1. iter' = MoveTo(r, 0)
  BY DEF ForEach
<1>2. r \in Iterators /\ r.visited = {} /\ ~r.twice /\ r.due = Nodes
  BY MapParts DEF Idle, Iterators
<1> HIDE DEF r
<1>3. ASSUME NEW x \in Nodes PROVE \E c \in DOMAIN table : c >= 0 /\ x \in ToSet(table[c])
  <2>1. PICK c \in DOMAIN table : x \in ToSet(table[c])
    BY DEF Nodes
  <2>2. c >= 0
    BY MapParts
  <2>3. QED BY <2>1, <2>2
<1>4. QED BY <1>1, <1>2, <1>3, MovedTo

\* A node put at the head of a chain does not get between the iterator and the nodes
\* it has yet to visit.
LEMMA PutOnTrack ==
  ASSUME MapInv, NEW r \in Iterators, OnTrack(table, r), r.visited \subseteq Nodes,
         NEW n \in Node \ Nodes, NEW b \in DOMAIN table, NEW t, t = Put(table, b, n)
  PROVE  OnTrack(t, r)
<1> DEFINE o == r.bucket
           Place(c, j) == IF c = b THEN j + 1 ELSE j
<1>1. size \in Nat /\ DOMAIN table = 0..(size - 1) /\ Chains(table, size)
      /\ n \notin In(table)
  BY MapParts, NodesIn DEF MapInv
<1>2. /\ Chains(t, size) /\ \A c \in 0..(size - 1) \ {b} : t[c] = table[c]
      /\ DOMAIN t[b] = 1..(Len(table[b]) + 1) /\ t[b][1] = n /\ table[b] \in Seq(Node)
      /\ \A i \in DOMAIN table[b] : i \in Nat /\ i + 1 \in DOMAIN t[b] /\ t[b][i + 1] = table[b][i]
  BY <1>1, PutFirst
<1>3. DOMAIN t = DOMAIN table
  BY <1>1, <1>2 DEF Chains
<1>4. \A c \in DOMAIN table : c \in Nat /\ \A j \in DOMAIN table[c] : j \in Nat
  <2>1. \A c \in DOMAIN table : c \in Nat /\ table[c] \in Seq(Node)
    BY <1>1 DEF Chains
  <2>2. QED BY <2>1, LenProperties
<1>5. ASSUME NEW c \in DOMAIN table, NEW j \in DOMAIN table[c]
      PROVE  Place(c, j) \in DOMAIN t[c] /\ t[c][Place(c, j)] = table[c][j]
  BY <1>1, <1>2, <1>5
<1>6. ASSUME NEW c \in DOMAIN table, NEW k \in DOMAIN t[c], t[c][k] # n
      PROVE  \E j \in DOMAIN table[c] : k = Place(c, j) /\ table[c][j] = t[c][k]
  <2>1. CASE c # b
    <3>1. k \in DOMAIN table[c] /\ Place(c, k) = k /\ table[c][k] = t[c][k]
      BY <1>1, <1>2, <1>6, <2>1
    <3>2. QED BY <3>1
  <2>2. CASE c = b
    <3>1. Len(table[b]) \in Nat /\ DOMAIN table[b] = 1..Len(table[b])
      BY <1>2, LenProperties
    <3>2. k \in 1..(Len(table[b]) + 1) /\ k # 1
      BY <1>2, <1>6, <2>2
    <3>3. k - 1 \in DOMAIN table[b] /\ (k - 1) + 1 = k
      BY <3>1, <3>2
    <3>4. t[b][(k - 1) + 1] = table[b][k - 1]
      BY <1>2, <3>3
    <3>5. k = Place(c, k - 1) /\ table[c][k - 1] = t[c][k]
      BY <2>2, <3>3, <3>4
    <3>6. QED BY <2>2, <3>3, <3>5
  <2>3. QED BY <2>1, <2>2
<1>7. PICK i \in DOMAIN table[o] :
        /\ table[o][i] = r.node
        /\ \A x \in r.due : Ahead(table, o, i, x)
        /\ \A x \in r.visited : ~Ahead(table, o, i, x)
  BY DEF OnTrack
<1>8. o \in DOMAIN table
  BY DEF OnTrack
<1>9. ASSUME NEW c \in DOMAIN table, NEW j \in DOMAIN table[c]
      PROVE  c > o \/ (c = o /\ j > i) <=> c > o \/ (c = o /\ Place(c, j) > Place(o, i))
  <2>1. c \in Nat /\ o \in Nat /\ j \in Nat /\ i \in Nat
    BY <1>4, <1>7, <1>8
  <2>2. QED BY <2>1
<1> HIDE DEF o, Place
<1>10. ASSUME NEW x \in r.due PROVE Ahead(t, o, Place(o, i), x)
  <2>1. PICK c \in DOMAIN table : \E j \in DOMAIN table[c] : table[c][j] = x /\ (c > o \/ (c = o /\ j > i))
    BY <1>7 DEF Ahead
  <2>2. PICK j \in DOMAIN table[c] : table[c][j] = x /\ (c > o \/ (c = o /\ j > i))
    BY <2>1
  <2>3. Place(c, j) \in DOMAIN t[c] /\ t[c][Place(c, j)] = x
    BY <1>5, <2>2
  <2>4. c > o \/ (c = o /\ Place(c, j) > Place(o, i))
    BY <1>9, <2>2
  <2>5. QED BY <1>3, <2>3, <2>4 DEF Ahead
<1>11. ASSUME NEW x \in r.visited, Ahead(t, o, Place(o, i), x) PROVE FALSE
  <2>1. PICK c \in DOMAIN table :
          \E k \in DOMAIN t[c] : t[c][k] = x /\ (c > o \/ (c = o /\ k > Place(o, i)))
    BY <1>3, <1>11 DEF Ahead
  <2>2. PICK k \in DOMAIN t[c] : t[c][k] = x /\ (c > o \/ (c = o /\ k > Place(o, i)))
    BY <2>1
  <2>3. x # n
    OBVIOUS
  <2>4. PICK j \in DOMAIN table[c] : k = Place(c, j) /\ table[c][j] = x
    BY <1>6, <2>2, <2>3
  <2>5. c > o \/ (c = o /\ j > i)
    BY <1>9, <2>2, <2>4
  <2>6. Ahead(table, o, i, x)
    BY <2>4, <2>5 DEF Ahead
  <2>7. QED BY <1>7, <2>6
<1>12. Place(o, i) \in DOMAIN t[o] /\ t[o][Place(o, i)] = r.node
  BY <1>5, <1>7, <1>8
<1>13. QED BY <1>3, <1>8, <1>10, <1>11, <1>12 DEF OnTrack, o

LEMMA AddStep ==
  ASSUME MapInv, Complete(iter), NEW k \in Key, NewAt(k)
  PROVE  Complete(iter)'
<1>1. PICK n \in Node \ Nodes, b \in Nat :
        /\ Nodes' = Nodes \cup {n}
        /\ Grow(element_count) = size => b \in DOMAIN table /\ table' = Put(table, b, n)
  BY NewStep
<1> DEFINE g == iter.grown \/ (iter.on /\ Grow(element_count) # size)
<1>2. iter \in Iterators /\ iter' = [iter EXCEPT !.grown = g]
  BY DEF NewAt, Complete
<1>3. g \in BOOLEAN /\ (~g => ~iter.grown /\ (iter.on => Grow(element_count) = size))
  BY <1>2 DEF Iterators
<1> HIDE DEF g
<1>4. /\ iter' \in Iterators /\ iter'.grown = g /\ iter'.on = iter.on /\ iter'.node = iter.node
      /\ iter'.bucket = iter.bucket /\ iter'.due = iter.due /\ iter'.visited = iter.visited
      /\ iter'.twice = iter.twice
  BY <1>2, <1>3 DEF Iterators
<1>5. ASSUME ~g, iter.on PROVE OnTrack(table', iter')
  <2>1. OnTrack(table, iter) /\ iter.visited \subseteq Nodes /\ b \in DOMAIN table
        /\ table' = Put(table, b, n)
    BY <1>1, <1>3, <1>5 DEF Complete
  <2>2. OnTrack(table', iter)
    BY <1>2, <2>1, PutOnTrack
  <2>3. QED BY <1>4, <2>2 DEF OnTrack
<1>6. QED BY <1>1, <1>3, <1>4, <1>5 DEF Complete

LEMMA IterAlways == Spec => [](MapInv /\ Complete(iter))
<1>1. Init => Complete(iter)
  BY DEF Init, Idle, Complete, Iterators
<1>2. MapInv /\ Complete(iter) /\ [Next]_vars => Complete(iter)'
  <2>1. SUFFICES ASSUME MapInv, Complete(iter), [Next]_vars PROVE Complete(iter)'
    OBVIOUS
  <2>2. CASE \E k \in Key : NewAt(k)
    BY <2>1, <2>2, AddStep
  <2>3. CASE \E k \in Key : RemoveKey(k)
    <3>1. iter' = iter /\ ~iter.on
      BY <2>3 DEF RemoveKey
    <3>2. QED BY <2>1, <3>1 DEF Complete
  <2>4. CASE Clear
    <3>1. iter' = iter /\ ~iter.on
      BY <2>4 DEF Clear
    <3>2. QED BY <2>1, <3>1 DEF Complete
  <2>5. CASE UNCHANGED table /\ Complete(iter')
    <3>1. Nodes' = Nodes
      BY <2>5 DEF Nodes
    <3>2. QED BY <2>5, <3>1 DEF Complete, OnTrack
  <2>6. CASE (\E k \in Key : HasKey(k)) \/ UNCHANGED vars
    <3>1. UNCHANGED <<table, iter>>
      BY <2>6 DEF HasKey, vars
    <3>2. QED BY <2>1, <2>5, <3>1
  <2>7. CASE ForEach \/ NextNode
    <3>1. UNCHANGED table
      BY <2>7 DEF ForEach, NextNode
    <3>2. QED BY <2>1, <2>5, <2>7, <3>1, StartStep, NextStep
  <2>8. QED BY <2>1, <2>2, <2>3, <2>4, <2>6, <2>7 DEF Next
<1>3. QED BY <1>1, <1>2, MapAlways, PTL DEF Spec

\* An iteration under which the table does not grow meets every node it began with,
\* and none twice, whatever is added behind it or in front of it.
THEOREM IterationsComplete == Spec => []IterationComplete
<1>1. MapInv /\ Complete(iter) => IterationComplete
  BY DEF Complete, IterationComplete
<1>2. QED BY <1>1, IterAlways, PTL

\* The type invariant of the map, its collected nodes and its iterator.
THEOREM TypeCorrect == Spec => []TypeOK
<1> DEFINE Answered == answer \in BOOLEAN
<1>1. Init => Answered
  BY DEF Init
<1>2. Answered /\ [Next]_vars => Answered'
  BY DEF Next, NewAt, HasKey, RemoveKey, Clear, ForEach, NextNode, vars
<1>3. MapInv /\ Complete(iter) /\ Answered => TypeOK
  BY MapParts DEF MapInv, Chains, Complete, Iterators, TypeOK
<1> HIDE DEF Answered
<1>4. QED BY <1>1, <1>2, <1>3, IterAlways, PTL DEF Spec

-----------------------------------------------------------------------------
(* The map as a set of keys, for keys that survive the conversion to int of  *)
(* hashmap_at and hashmap_remove.  Of other keys it is false.              *)

KeysFit == Key \subseteq 0..IntMax

LEMMA ProbedIsBucket ==
  ASSUME MapInv, KeysFit, NEW k \in Key
  PROVE  Probed(k) = Bucket(k, size)
<1>1. k \in Nat /\ k <= IntMax /\ IntMax \in Nat /\ size \in Nat
  BY HashAssumption, MapParts DEF KeysFit
<1>2. k % (2 * (IntMax + 1)) = k
  <2>1. 2 * (IntMax + 1) \in Nat \ {0} /\ k < 2 * (IntMax + 1)
    BY <1>1
  <2> DEFINE w == 2 * (IntMax + 1)
  <2> HIDE DEF w
  <2>2. k % w = k
    BY <1>1, <2>1 DEF w
  <2>3. QED BY <2>2 DEF w
<1>3. ToInt(k) = k
  BY <1>1, <1>2 DEF ToInt
<1>4. QED BY <1>1, <1>3 DEF Probed, Rem, Bucket

\* hashmap_at finds a key that is in the table, and none that is not.
LEMMA LookUp ==
  ASSUME MapInv, KeysFit, NEW k \in Key
  PROVE  /\ (\E x \in Nodes : key[x] = k) <=> At(k) # NoNode
         /\ At(k) # NoNode => At(k) \in Nodes /\ key[At(k)] = k
<1>1. ASSUME NEW x \in Nodes, key[x] = k PROVE Hits(k) # {} /\ element_count # 0
  <2>1. PICK b \in DOMAIN table : \E i \in DOMAIN table[b] : table[b][i] = x
    BY NodesIn, InChain
  <2>2. PICK i \in DOMAIN table[b] : table[b][i] = x
    BY <2>1
  <2>3. Bucket(k, size) = b
    BY <1>1, <2>2 DEF MapInv, Home
  <2>4. Chain(k) = table[b]
    BY <2>3, ProbedIsBucket DEF Chain
  <2>5. i \in Hits(k)
    BY <1>1, <2>2, <2>4 DEF Hits
  <2>6. Cardinality(Nodes) # 0
    <3>1. IsFiniteSet(Nodes)
      BY NodesIn, NodesFinite DEF MapInv
    <3>2. QED BY <1>1, <3>1, FS_EmptySet
  <2>7. QED BY <2>5, <2>6 DEF MapInv
<1>2. ASSUME Hits(k) # {} PROVE Walk(k) \in Nodes /\ key[Walk(k)] = k /\ Walk(k) # NoNode
  <2>1. Walk(k) \in Nodes /\ key[Walk(k)] = k
    BY <1>2, Found
  <2>2. QED BY <2>1, HashAssumption, MapParts
<1>3. Hits(k) = {} => Walk(k) = NoNode
  BY DEF Walk
<1>4. QED BY <1>1, <1>2, <1>3 DEF At

\* No key is in the table twice.
Distinct == \A x, y \in Nodes : key[x] = key[y] => x = y

LEMMA AddKey ==
  ASSUME MapInv, KeysFit, Distinct, NEW k \in Key, NewAt(k)
  PROVE  Distinct' /\ {key[x] : x \in Nodes}' = {key[x] : x \in Nodes} \cup {k}
<1>1. PICK n \in Node \ Nodes : Nodes' = Nodes \cup {n} /\ key' = [key EXCEPT ![n] = k]
  BY NewStep
<1>2. key'[n] = k /\ \A x \in Nodes : key'[x] = key[x]
  BY <1>1, MapParts DEF MapInv
<1>3. \A x \in Nodes : key[x] # k
  BY LookUp DEF NewAt
<1>4. Distinct'
  BY <1>1, <1>2, <1>3 DEF Distinct
<1>5. {key'[x] : x \in Nodes'} = {key[x] : x \in Nodes} \cup {k}
  BY <1>1, <1>2
<1>6. QED BY <1>4, <1>5

LEMMA RemovedKey ==
  ASSUME MapInv, Distinct, NEW k \in Key, RemoveKey(k)
  PROVE  Distinct' /\ {key[x] : x \in Nodes}' = {key[x] : x \in Nodes} \ {k}
<1>1. PICK n \in Nodes : key[n] = k /\ Nodes' = Nodes \ {n} /\ key' = [key EXCEPT ![n] = -1]
  BY RemoveStep
<1>2. \A x \in Nodes \ {n} : key'[x] = key[x] /\ key[x] # k
  BY <1>1, MapParts DEF MapInv, Distinct
<1>3. Distinct'
  BY <1>1, <1>2 DEF Distinct
<1>4. {key'[x] : x \in Nodes'} = {key[x] : x \in Nodes} \ {k}
  BY <1>1, <1>2
<1>5. QED BY <1>3, <1>4

LEMMA DistinctAlways ==
  ASSUME KeysFit
  PROVE  Spec => [](MapInv /\ Distinct)
<1>1. Init => Distinct
  <2>1. SUFFICES ASSUME Init PROVE Distinct
    OBVIOUS
  <2>2. Nodes = {}
    BY <2>1 DEF Init, Nodes
  <2>3. QED BY <2>2 DEF Distinct
<1>2. MapInv /\ Distinct /\ [Next]_vars => Distinct'
  <2>1. SUFFICES ASSUME MapInv, Distinct, [Next]_vars PROVE Distinct'
    OBVIOUS
  <2>2. CASE UNCHANGED <<table, key>>
    <3>1. Nodes' = Nodes
      BY <2>2 DEF Nodes
    <3>2. QED BY <2>1, <2>2, <3>1 DEF Distinct
  <2>3. CASE \E k \in Key : NewAt(k)
    BY <2>1, <2>3, AddKey
  <2>4. CASE \E k \in Key : RemoveKey(k)
    BY <2>1, <2>4, RemovedKey
  <2>5. CASE Clear
    <3>1. Nodes' = {}
      BY <2>1, <2>5, ClearStep
    <3>2. QED BY <3>1 DEF Distinct
  <2>6. CASE (\E k \in Key : HasKey(k)) \/ ForEach \/ NextNode \/ UNCHANGED vars
    BY <2>2, <2>6 DEF HasKey, ForEach, NextNode, vars
  <2>7. QED BY <2>1, <2>3, <2>4, <2>5, <2>6 DEF Next
<1>3. QED BY <1>1, <1>2, MapAlways, PTL DEF Spec

\* Every node in the table is the one its key is found at, if keys fit an int.
THEOREM KeysAreFound ==
  ASSUME KeysFit
  PROVE  Spec => []Findable
<1>1. MapInv /\ Distinct => Findable
  <2>1. SUFFICES ASSUME MapInv, Distinct, NEW n \in Nodes PROVE At(key[n]) = n
    BY DEF Findable
  <2>2. key[n] \in Key
    BY <2>1 DEF MapInv
  <2>3. At(key[n]) \in Nodes /\ key[At(key[n])] = key[n]
    BY <2>1, <2>2, LookUp
  <2>4. QED BY <2>1, <2>3 DEF Distinct
<1>2. QED BY <1>1, DistinctAlways, PTL

\* The map implements a set of keys, if they fit an int: hashmap_new_at after
\* hashmap_contains adds one, hashmap_remove removes it, an iteration changes nothing.
THEOREM MapIsSet ==
  ASSUME KeysFit
  PROVE  Spec => ImplementsKeySet
<1> DEFINE members == {key[x] : x \in Nodes}
<1>1. Init => Keys!Init
  <2>1. SUFFICES ASSUME Init PROVE Keys!Init
    OBVIOUS
  <2>2. Nodes = {}
    BY <2>1 DEF Init, Nodes
  <2>3. QED BY <2>1, <2>2 DEF Init, Keys!Init
<1>2. MapInv /\ Distinct /\ [Next]_vars => [Keys!Next]_(Keys!vars)
  <2>1. SUFFICES ASSUME MapInv, Distinct, [Next]_vars PROVE [Keys!Next]_(Keys!vars)
    OBVIOUS
  <2>2. ASSUME NEW k \in Key, NewAt(k) PROVE Keys!Add(k)
    <3>1. members' = members \cup {k}
      BY <2>1, <2>2, AddKey
    <3>2. answer' = answer
      BY <2>2 DEF NewAt
    <3>3. QED BY <3>1, <3>2 DEF Keys!Add
  <2>3. ASSUME NEW k \in Key, RemoveKey(k) PROVE Keys!Remove(k)
    <3>1. members' = members \ {k}
      BY <2>1, <2>3, RemovedKey
    <3>2. answer' = answer
      BY <2>3 DEF RemoveKey
    <3>3. QED BY <3>1, <3>2 DEF Keys!Remove
  <2>4. ASSUME Clear PROVE Keys!Clear
    <3>1. Nodes' = {}
      BY <2>1, <2>4, ClearStep
    <3>2. answer' = answer
      BY <2>4 DEF Clear
    <3>3. QED BY <3>1, <3>2 DEF Keys!Clear
  <2>5. ASSUME NEW k \in Key, HasKey(k) PROVE Keys!Contains(k)
    <3>1. UNCHANGED <<table, key>> /\ answer' = (At(k) # NoNode)
      BY <2>5 DEF HasKey
    <3>2. Nodes' = Nodes
      BY <3>1 DEF Nodes
    <3>3. answer' = (k \in members)
      <4>1. k \in members <=> At(k) # NoNode
        BY <2>1, LookUp
      <4>2. QED BY <3>1, <4>1
    <3>4. QED BY <3>1, <3>2, <3>3 DEF Keys!Contains
  <2>6. CASE ForEach \/ NextNode \/ UNCHANGED vars
    <3>1. UNCHANGED <<table, key, answer>>
      BY <2>6 DEF ForEach, NextNode, vars
    <3>2. Nodes' = Nodes
      BY <3>1 DEF Nodes
    <3>3. QED BY <3>1, <3>2 DEF Keys!vars
  <2>7. QED BY <2>1, <2>2, <2>3, <2>4, <2>5, <2>6 DEF Next, Keys!Next
<1>3. QED BY <1>1, <1>2, DistinctAlways, PTL DEF Spec, ImplementsKeySet, Keys!Spec
=============================================================================
