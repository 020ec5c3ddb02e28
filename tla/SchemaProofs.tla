---------------------------- MODULE SchemaProofs ----------------------------
(***************************************************************************)
(* Proofs about Schema: for all symbols and any number of components and     *)
(* edits the links of the wire graph agree, because wires and joints form a  *)
(* forest whose leaves are pins, and a view that is closed is empty.         *)
(*                                                                         *)
(* It extends Netlist for the operators that the folds there are made of.    *)
(***************************************************************************)
EXTENDS Netlist, FiniteSetTheorems, SequenceTheorems, WellFoundedInduction, TLAPS

-----------------------------------------------------------------------------
(* Inductions over a count are arguments about a least counterexample.       *)

LEMMA LeastNat ==
  ASSUME NEW T, T \subseteq Nat, T # {}
  PROVE  \E x \in T : \A y \in T : x <= y
<1> DEFINE R == OpToRel(<, Nat)
<1>1. IsWellFoundedOn(R, Nat)
  BY NatLessThanWellFounded
<1> HIDE DEF R
<1>2. PICK x \in T : \A y \in T : <<y, x>> \notin R
  BY <1>1, WFMin
<1>3. ASSUME NEW y \in T, y < x PROVE FALSE
  <2>1. <<y, x>> \in R
    BY <1>3 DEF R, OpToRel
  <2>2. QED BY <1>2, <2>1
<1>4. QED BY <1>3

-----------------------------------------------------------------------------
(* The folds of Schema and Netlist.  They differ in the step, so they are      *)
(* proved to be sequences of steps at once: k names the fold, a is what its    *)
(* step refers to.                                                            *)

Unwired(x, p) == IF x.wire[p] = None THEN x ELSE ReleaseWire(x, x.wire[p])
Released(d, x, e) == IF d.cls[e] = "component" THEN ReleaseComponent(x, e) ELSE x
Resolved(d, x, e) ==
  IF d.cls[e] = "wire"
    THEN ConnectEndPort(ConnectStartPort(x, e, d.ends[e][1]), e, d.ends[e][2]) ELSE x
Added(ps, p) == IF p \in ToSet(ps) THEN ps ELSE Append(ps, p)
PortsAdded(d, ps, e) == FoldLeft(Added, ps, PortsOf(d, e))
IndexIn(ports, p) == CHOOSE i \in 1..Len(ports) : ports[i] = p
LinkMerged(d, ports, u, e) ==
  LET q == [k \in DOMAIN PortsOf(d, e) |-> IndexIn(ports, PortsOf(d, e)[k])]
  IN  CASE d.cls[e] = "wire"  -> UnionSets(u, q[2], q[1])
        [] d.cls[e] = "joint" ->
             UnionSets(UnionSets(UnionSets(u, q[1], q[2]), q[1], q[3]), q[2], q[3])
        [] OTHER              -> u

Step(k, a, d, x) ==
  CASE k = "create"  -> CreatePort(d, a[1], a[2])
    [] k = "erase"   -> ErasePort(d, x)
    [] k = "unwire"  -> Unwired(d, x)
    [] k = "release" -> Released(a, d, x)
    [] k = "edit"    -> ReleaseComponent(d, x)
    [] k = "resolve" -> Resolved(a, d, x)
    [] k = "add"     -> Added(d, x)
    [] k = "extract" -> PortsAdded(a, d, x)
    [] k = "merge"   -> LinkMerged(a[1], a[2], d, x)

Folding(k, a, d, s, n, f) ==
  f = [t \in SUBSET (1..n) |-> IF t = {} THEN d ELSE Step(k, a, f[t \ {Max(t)}], s[Max(t)])]

LEMMA MaxIs ==
  ASSUME NEW m \in Nat \ {0}, NEW t \in SUBSET (1..m), m \in t
  PROVE  Max(t) = m
<1>1. \A y \in t : y \in 1..m /\ m >= y
  OBVIOUS
<1>2. Max(t) \in t /\ \A y \in t : Max(t) >= y
  <2>1. \E x \in t : \A y \in t : x >= y
    BY <1>1
  <2>2. QED BY <2>1 DEF Max
<1>3. PICK i : i = Max(t)
  OBVIOUS
<1>4. i \in 1..m /\ m >= i /\ i >= m
  BY <1>1, <1>2, <1>3
<1>5. i = m
  BY <1>4
<1>6. QED BY <1>3, <1>5

LEMMA FoldExists ==
  ASSUME NEW k, NEW a, NEW d, NEW s, NEW n \in Nat
  PROVE  \E f : Folding(k, a, d, s, n, f)
<1> DEFINE T == {m \in Nat : ~\E f : Folding(k, a, d, s, m, f)}
<1>1. SUFFICES ASSUME T # {} PROVE FALSE
  OBVIOUS
<1>2. PICK m \in T : \A i \in T : m <= i
  <2>1. T \subseteq Nat
    OBVIOUS
  <2> HIDE DEF T
  <2>2. QED BY <1>1, <2>1, LeastNat
<1>3. m \in Nat /\ ~\E f : Folding(k, a, d, s, m, f)
  BY <1>2
<1>4. CASE m = 0
  <2> DEFINE f == [t \in SUBSET (1..0) |-> d]
  <2>1. \A t \in SUBSET (1..0) : t = {}
    OBVIOUS
  <2>2. f = [t \in SUBSET (1..0) |->
               IF t = {} THEN d ELSE Step(k, a, f[t \ {Max(t)}], s[Max(t)])]
    BY <2>1
  <2> HIDE DEF f
  <2>3. QED BY <1>3, <1>4, <2>2 DEF Folding
<1>5. CASE m > 0
  <2>1. m - 1 \in Nat /\ m - 1 \notin T
    <3> HIDE DEF T
    <3>1. m - 1 \in Nat /\ ~(m <= m - 1)
      BY <1>3, <1>5
    <3>2. QED BY <1>2, <3>1
  <2>2. PICK f : Folding(k, a, d, s, m - 1, f)
    BY <2>1
  <2> DEFINE g == [t \in SUBSET (1..m) |->
                     IF m \in t THEN Step(k, a, f[t \ {m}], s[m]) ELSE f[t]]
  <2>3. ASSUME NEW t \in SUBSET (1..m)
        PROVE  g[t] = IF t = {} THEN d ELSE Step(k, a, g[t \ {Max(t)}], s[Max(t)])
    <3>1. CASE m \in t
      <4>1. Max(t) = m
        BY <1>3, <1>5, <3>1, MaxIs
      <4>2. t \ {m} \in SUBSET (1..m) /\ m \notin t \ {m}
        OBVIOUS
      <4>3. g[t \ {m}] = f[t \ {m}]
        BY <4>2
      <4>4. g[t] = Step(k, a, f[t \ {m}], s[m])
        BY <3>1
      <4> HIDE DEF g
      <4>5. QED BY <3>1, <4>1, <4>3, <4>4
    <3>2. CASE m \notin t
      <4> DEFINE r == t \ {Max(t)}
      <4>1. t \in SUBSET (1..(m - 1))
        <5>1. \A i \in 1..m : i # m => i \in 1..(m - 1)
          BY <1>3
        <5>2. QED BY <3>2, <5>1
      <4>2. r \in SUBSET (1..m) /\ m \notin r
        BY <3>2
      <4>3. g[t] = f[t] /\ g[r] = f[r]
        BY <3>2, <4>2
      <4>4. f[t] = IF t = {} THEN d ELSE Step(k, a, f[r], s[Max(t)])
        BY <2>2, <4>1 DEF Folding
      <4> HIDE DEF g, r
      <4>5. QED BY <4>3, <4>4 DEF r
    <3>3. QED BY <3>1, <3>2
  <2>4. Folding(k, a, d, s, m, g)
    BY <2>3 DEF Folding
  <2>5. QED BY <1>3, <2>4
<1>6. QED BY <1>3, <1>4, <1>5

\* A fold is a sequence of documents.
Sequel(k, a, d, s, g) ==
  g[0] = d /\ \A i \in 1..Len(s) : g[i] = Step(k, a, g[i - 1], s[i])

LEMMA FoldSteps ==
  ASSUME NEW k, NEW a, NEW d, NEW s, Len(s) \in Nat, DOMAIN s = 1..Len(s),
         NEW f, Folding(k, a, d, s, Len(s), f)
  PROVE  \E g : Sequel(k, a, d, s, g) /\ f[DOMAIN s] = g[Len(s)]
<1> DEFINE n == Len(s)
           g == [i \in 0..n |-> f[1..i]]
<1>1. ASSUME NEW i \in 1..n PROVE g[i] = Step(k, a, g[i - 1], s[i])
  <2>1. i \in Nat \ {0} /\ i - 1 \in 0..n /\ i \in 0..n
    OBVIOUS
  <2>2. 1..i \in SUBSET (1..n) /\ i \in 1..i /\ (1..i) \ {i} = 1..(i - 1)
    BY <2>1
  <2>3. Max(1..i) = i
    BY <2>1, <2>2, MaxIs
  <2>4. f[1..i] = Step(k, a, f[1..(i - 1)], s[i])
    <3>1. f[1..i] = Step(k, a, f[(1..i) \ {Max(1..i)}], s[Max(1..i)])
      BY <2>2 DEF Folding
    <3>2. QED BY <2>2, <2>3, <3>1
  <2>5. g[i] = f[1..i] /\ g[i - 1] = f[1..(i - 1)]
    BY <2>1
  <2> HIDE DEF g
  <2>6. QED BY <2>4, <2>5
<1>2. g[0] = d
  <2>1. 1..0 = {} /\ {} \in SUBSET (1..n) /\ 0 \in 0..n
    OBVIOUS
  <2>2. f[{}] = d
    BY <2>1 DEF Folding
  <2>3. QED BY <2>1, <2>2
<1>3. g[n] = f[DOMAIN s]
  OBVIOUS
<1> HIDE DEF g
<1>4. QED BY <1>1, <1>2, <1>3 DEF Sequel

LEMMA ErasesFold ==
  ASSUME NEW d, NEW s, Len(s) \in Nat, DOMAIN s = 1..Len(s)
  PROVE  \E g : Sequel("erase", 0, d, s, g) /\ FoldLeft(ErasePort, d, s) = g[Len(s)]
<1> DEFINE f == CHOOSE f : f = [t \in SUBSET DOMAIN s |->
                  IF t = {} THEN d ELSE ErasePort(f[t \ {Max(t)}], s[Max(t)])]
<1>1. FoldLeft(ErasePort, d, s) = f[DOMAIN s]
  BY DEF FoldLeft, MapThenFoldSet
<1>2. f = [t \in SUBSET DOMAIN s |-> IF t = {} THEN d ELSE ErasePort(f[t \ {Max(t)}], s[Max(t)])]
  <2>1. PICK g : Folding("erase", 0, d, s, Len(s), g)
    BY FoldExists
  <2>2. g = [t \in SUBSET DOMAIN s |-> IF t = {} THEN d ELSE ErasePort(g[t \ {Max(t)}], s[Max(t)])]
    BY <2>1 DEF Folding, Step
  <2>3. QED BY <2>2
<1> HIDE DEF f
<1>3. Folding("erase", 0, d, s, Len(s), f)
  BY <1>2 DEF Folding, Step
<1>4. QED BY <1>1, <1>3, FoldSteps

-----------------------------------------------------------------------------
(* The document as a record, its list of elements and its identifiers.      *)

IsDoc(d) ==
  d = [elements |-> d.elements, ids |-> d.ids, cls |-> d.cls, ends |-> d.ends,
       wire |-> d.wire, opp |-> d.opp, owner |-> d.owner, subs |-> d.subs]

Listing(d) ==
  /\ IsDoc(d)
  /\ IsFiniteSet(d.ids) /\ d.ids \subseteq Nat \ {0}
  /\ d.elements \in Seq(d.ids) /\ IsInjective(d.elements)
  /\ \A e \in d.ids : \E i \in 1..Len(d.elements) : d.elements[i] = e

LEMMA SameListing ==
  ASSUME NEW d, Listing(d), NEW r, IsDoc(r), r.elements = d.elements, r.ids = d.ids
  PROVE  Listing(r)
<1>1. IsFiniteSet(r.ids) /\ r.ids \subseteq Nat \ {0} /\ r.elements \in Seq(r.ids)
      /\ IsInjective(r.elements)
  BY DEF Listing
<1>2. \A e \in d.ids : \E i \in 1..Len(d.elements) : d.elements[i] = e
  BY DEF Listing
<1>3. \A e \in r.ids : \E i \in 1..Len(r.elements) : r.elements[i] = e
  BY <1>2
<1>4. QED BY <1>1, <1>3 DEF Listing

LEMMA AllocFresh ==
  ASSUME NEW d, Listing(d)
  PROVE  Alloc(d) \in Nat \ {0} /\ Alloc(d) \notin d.ids
<1> DEFINE n == Cardinality(d.ids) + 1
           T == {i \in 1..n : i \notin d.ids}
<1>1. n \in Nat \ {0}
  BY FS_CardinalityType DEF Listing
<1>2. T # {}
  <2>1. SUFFICES ASSUME 1..n \subseteq d.ids PROVE FALSE
    OBVIOUS
  <2>2. Cardinality(1..n) = n /\ Cardinality(1..n) <= Cardinality(d.ids)
    <3>1. Cardinality(1..n) = n
      BY <1>1, FS_Interval
    <3>2. QED BY <2>1, <3>1, FS_Subset DEF Listing
  <2>3. QED BY <1>1, <2>2, FS_CardinalityType DEF Listing
<1>3. PICK i \in T : \A j \in T : i <= j
  <2>1. T \subseteq Nat
    OBVIOUS
  <2> HIDE DEF T
  <2>2. QED BY <1>2, <2>1, LeastNat
<1>4. i \in 1..n /\ i \notin d.ids /\ \A j \in 1..(i - 1) : j \in d.ids
  <2>1. i \in 1..n /\ i \notin d.ids
    OBVIOUS
  <2>2. ASSUME NEW j \in 1..(i - 1), j \notin d.ids PROVE FALSE
    <3>1. j \in 1..n /\ ~(i <= j)
      BY <1>1, <2>1
    <3>2. QED BY <1>3, <2>2, <3>1
  <2>3. QED BY <2>1, <2>2
<1>5. Alloc(d) \in 1..n /\ Alloc(d) \notin d.ids
  BY <1>4 DEF Alloc
<1>6. QED BY <1>1, <1>5

\* An element joins the list.
LEMMA ListedIs ==
  ASSUME NEW d, Listing(d), NEW e \in Nat \ {0}, e \notin d.ids, NEW class, NEW r,
         r = Listed(d, e, class)
  PROVE  /\ Listing(r)
         /\ r.ids = d.ids \cup {e} /\ r.cls = Put(d.cls, e, class)
         /\ r.ends = d.ends /\ r.wire = d.wire /\ r.opp = d.opp
         /\ r.owner = d.owner /\ r.subs = d.subs
<1>1. /\ r.ids = d.ids \cup {e} /\ r.cls = Put(d.cls, e, class)
      /\ r.ends = d.ends /\ r.wire = d.wire /\ r.opp = d.opp
      /\ r.owner = d.owner /\ r.subs = d.subs /\ r.elements = Append(d.elements, e)
      /\ IsDoc(r)
  <2>1. IsDoc(d)
    BY DEF Listing
  <2>2. /\ r.ids = d.ids \cup {e} /\ r.cls = Put(d.cls, e, class)
        /\ r.elements = Append(d.elements, e)
    BY <2>1 DEF IsDoc, Listed
  <2>3. /\ r.ends = d.ends /\ r.wire = d.wire /\ r.opp = d.opp
        /\ r.owner = d.owner /\ r.subs = d.subs
    BY <2>1 DEF IsDoc, Listed
  <2>4. IsDoc(r)
    BY <2>1 DEF IsDoc, Listed
  <2>5. QED BY <2>2, <2>3, <2>4
<1>2. IsFiniteSet(r.ids) /\ r.ids \subseteq Nat \ {0}
  <2>1. IsFiniteSet(d.ids) /\ d.ids \subseteq Nat \ {0}
    BY DEF Listing
  <2>2. IsFiniteSet(d.ids \cup {e})
    BY <2>1, FS_AddElement
  <2>3. QED BY <1>1, <2>1, <2>2
<1>3. r.elements \in Seq(r.ids) /\ IsInjective(r.elements)
      /\ \A x \in r.ids : \E i \in 1..Len(r.elements) : r.elements[i] = x
  <2> DEFINE s == d.elements
             t == r.elements
  <2>1. s \in Seq(d.ids) /\ s \in Seq(r.ids) /\ Len(s) \in Nat /\ DOMAIN s = 1..Len(s)
    BY <1>1, LenProperties, SeqMonotonic DEF Listing
  <2>2. t \in Seq(r.ids) /\ Len(t) = Len(s) + 1 /\ DOMAIN t = 1..(Len(s) + 1)
        /\ t[Len(s) + 1] = e /\ \A i \in 1..Len(s) : t[i] = s[i] /\ t[i] \in d.ids
    BY <1>1, <2>1
  <2>3. IsInjective(s) /\ \A x \in d.ids : \E i \in 1..Len(s) : s[i] = x
    BY DEF Listing
  <2> HIDE DEF s, t
  <2>4. IsInjective(t)
    <3>1. \A i \in 1..(Len(s) + 1) : i \in 1..Len(s) \/ i = Len(s) + 1
      BY <2>1
    <3>2. QED BY <2>1, <2>2, <2>3, <3>1 DEF IsInjective
  <2>5. ASSUME NEW x \in r.ids PROVE \E i \in 1..Len(t) : t[i] = x
    <3>1. CASE x = e
      <4>1. Len(s) + 1 \in 1..Len(t)
        BY <2>1, <2>2
      <4>2. QED BY <2>2, <3>1, <4>1
    <3>2. CASE x \in d.ids
      <4>1. \A i \in 1..Len(s) : i \in 1..Len(t)
        BY <2>1, <2>2
      <4>2. QED BY <2>2, <2>3, <3>2, <4>1
    <3>3. QED BY <1>1, <3>1, <3>2
  <2>6. QED BY <2>2, <2>4, <2>5 DEF t
<1>4. QED BY <1>1, <1>2, <1>3 DEF Listing

LEMMA Part ==
  ASSUME NEW S, NEW s, NEW m \in Int, NEW n \in Int, m <= n + 1, \A i \in m..n : s[i] \in S
  PROVE  /\ SubSeq(s, m, n) \in Seq(S) /\ Len(SubSeq(s, m, n)) = n - m + 1
         /\ \A i \in 1..(n - m + 1) : SubSeq(s, m, n)[i] = s[m + i - 1]
<1>1. SubSeq(s, m, n) \in Seq(S)
      /\ Len(SubSeq(s, m, n)) = IF m <= n THEN n - m + 1 ELSE 0
  BY SubSeqProperties
<1>2. \A i \in 1..(n - m + 1) : SubSeq(s, m, n)[i] = s[m + i - 1]
  BY SubSeqProperties
<1>3. (IF m <= n THEN n - m + 1 ELSE 0) = n - m + 1
  OBVIOUS
<1>4. QED BY <1>1, <1>2, <1>3

\* An element leaves the list.
LEMMA EraseIs ==
  ASSUME NEW d, Listing(d), NEW e, NEW r, r = Erase(d, e)
  PROVE  /\ Listing(r)
         /\ r.ids = d.ids \ {e} /\ r.cls = Without(d.cls, e)
         /\ r.ends = Without(d.ends, e) /\ r.wire = Without(d.wire, e)
         /\ r.opp = Without(d.opp, e) /\ r.owner = Without(d.owner, e)
         /\ r.subs = Without(d.subs, e)
<1>1. /\ r.ids = d.ids \ {e} /\ r.cls = Without(d.cls, e)
      /\ r.ends = Without(d.ends, e) /\ r.wire = Without(d.wire, e)
      /\ r.opp = Without(d.opp, e) /\ r.owner = Without(d.owner, e)
      /\ r.subs = Without(d.subs, e) /\ r.elements = RemoveFirst(d.elements, e)
      /\ IsDoc(r)
  <2>1. /\ r.ids = d.ids \ {e} /\ r.cls = Without(d.cls, e)
        /\ r.ends = Without(d.ends, e) /\ r.wire = Without(d.wire, e)
        /\ r.opp = Without(d.opp, e) /\ r.owner = Without(d.owner, e)
    BY DEF Erase
  <2>2. r.subs = Without(d.subs, e) /\ r.elements = RemoveFirst(d.elements, e)
    BY DEF Erase
  <2>3. IsDoc(r)
    BY DEF Erase, IsDoc
  <2>4. QED BY <2>1, <2>2, <2>3
<1>2. IsFiniteSet(r.ids) /\ r.ids \subseteq Nat \ {0}
  <2>1. IsFiniteSet(d.ids) /\ d.ids \subseteq Nat \ {0}
    BY DEF Listing
  <2>2. IsFiniteSet(d.ids \ {e})
    BY <2>1, FS_RemoveElement
  <2>3. QED BY <1>1, <2>1, <2>2
<1>3. r.elements \in Seq(r.ids) /\ IsInjective(r.elements)
      /\ \A x \in r.ids : \E i \in 1..Len(r.elements) : r.elements[i] = x
  <2> DEFINE s == d.elements
             t == r.elements
  <2>1. s \in Seq(d.ids) /\ Len(s) \in Nat /\ DOMAIN s = 1..Len(s)
        /\ \A i \in 1..Len(s) : s[i] \in d.ids
    BY LenProperties, ElementOfSeq DEF Listing
  <2>2. IsInjective(s) /\ \A x \in d.ids : \E i \in 1..Len(s) : s[i] = x
    BY DEF Listing
  <2>3. CASE ~\E i \in 1..Len(s) : s[i] = e
    <3>1. r.ids = d.ids /\ t = s
      BY <1>1, <2>2, <2>3 DEF RemoveFirst
    <3>2. QED BY <2>1, <2>2, <3>1
  <2>4. ASSUME NEW k \in 1..Len(s), s[k] = e
        PROVE  t \in Seq(r.ids) /\ IsInjective(t)
               /\ \A x \in r.ids : \E i \in 1..Len(t) : t[i] = x
    <3>1. {i \in 1..Len(s) : s[i] = e} = {k}
      <4>1. \A i \in 1..Len(s) : s[i] = s[k] => i = k
        BY <2>1, <2>2, <2>4 DEF IsInjective
      <4>2. \A i \in 1..Len(s) : s[i] = e <=> i = k
        BY <2>4, <4>1
      <4>3. QED BY <2>4, <4>2
    <3>2. Min({k}) = k
      BY DEF Min
    <3>3. t = SubSeq(s, 1, k - 1) \o SubSeq(s, k + 1, Len(s))
      BY <1>1, <2>4, <3>1, <3>2 DEF RemoveFirst, RemoveAt, SelectInSeq
    <3> DEFINE u == SubSeq(s, 1, k - 1)
               v == SubSeq(s, k + 1, Len(s))
    <3>4. \A i \in 1..Len(s) : i # k => s[i] \in r.ids
      BY <1>1, <2>1, <2>2, <2>4 DEF IsInjective
    <3>5. u \in Seq(r.ids) /\ Len(u) = k - 1 /\ \A i \in 1..(k - 1) : u[i] = s[i]
      <4>1. PICK n \in Int : n = k - 1
        BY <2>1
      <4>2. \A i \in 1..n : s[i] \in r.ids
        BY <2>1, <3>4, <4>1
      <4>3. 1 \in Int /\ 1 <= n + 1
        BY <2>1, <4>1
      <4> HIDE DEF s
      <4>4. SubSeq(s, 1, n) \in Seq(r.ids) /\ Len(SubSeq(s, 1, n)) = n - 1 + 1
            /\ \A i \in 1..(n - 1 + 1) : SubSeq(s, 1, n)[i] = s[1 + i - 1]
        <5>1. SubSeq(s, 1, n) \in Seq(r.ids)
          BY <4>2, <4>3, Part
        <5>2. Len(SubSeq(s, 1, n)) = n - 1 + 1
          BY <4>2, <4>3, Part
        <5>3. \A i \in 1..(n - 1 + 1) : SubSeq(s, 1, n)[i] = s[1 + i - 1]
          BY <4>2, <4>3, Part
        <5>4. QED BY <5>1, <5>2, <5>3
      <4>5. u = SubSeq(s, 1, n)
        BY <4>1
      <4> HIDE DEF u
      <4>6. QED BY <4>1, <4>4, <4>5
    <3>6. v \in Seq(r.ids) /\ Len(v) = Len(s) - k /\ \A i \in 1..(Len(s) - k) : v[i] = s[k + i]
      <4>1. PICK m \in Int : m = k + 1
        BY <2>1
      <4>2. PICK n \in Int : n = Len(s)
        BY <2>1
      <4>3. \A i \in m..n : s[i] \in r.ids
        BY <2>1, <3>4, <4>1, <4>2
      <4>4. m <= n + 1
        BY <2>1, <4>1, <4>2
      <4> HIDE DEF s
      <4>5. SubSeq(s, m, n) \in Seq(r.ids) /\ Len(SubSeq(s, m, n)) = n - m + 1
            /\ \A i \in 1..(n - m + 1) : SubSeq(s, m, n)[i] = s[m + i - 1]
        <5>1. SubSeq(s, m, n) \in Seq(r.ids)
          BY <4>3, <4>4, Part
        <5>2. Len(SubSeq(s, m, n)) = n - m + 1
          BY <4>3, <4>4, Part
        <5>3. \A i \in 1..(n - m + 1) : SubSeq(s, m, n)[i] = s[m + i - 1]
          BY <4>3, <4>4, Part
        <5>4. QED BY <5>1, <5>2, <5>3
      <4>6. v = SubSeq(s, m, n)
        BY <4>1, <4>2
      <4> HIDE DEF v
      <4>7. \A i \in 1..(Len(s) - k) : v[i] = s[k + i]
        <5>1. n - m + 1 = Len(s) - k /\ \A i \in 1..(Len(s) - k) : m + i - 1 = k + i
          BY <4>1, <4>2
        <5>2. QED BY <4>5, <4>6, <5>1
      <4>8. QED BY <4>1, <4>2, <4>5, <4>6, <4>7
    <3> HIDE DEF u, v
    <3>7. t \in Seq(r.ids) /\ Len(t) = Len(s) - 1 /\ DOMAIN t = 1..(Len(s) - 1)
          /\ \A i \in 1..(Len(s) - 1) : t[i] = IF i < k THEN s[i] ELSE s[i + 1]
      <4>1. t = u \o v
        BY <3>3 DEF u, v
      <4>2. t \in Seq(r.ids) /\ Len(t) = Len(u) + Len(v)
            /\ \A i \in 1..(Len(u) + Len(v)) : t[i] = IF i <= Len(u) THEN u[i] ELSE v[i - Len(u)]
        <5>1. u \in Seq(r.ids) /\ v \in Seq(r.ids)
          BY <3>5, <3>6
        <5> HIDE DEF t
        <5>2. QED BY <4>1, <5>1, ConcatProperties, Zenon
      <4>3. Len(t) = Len(s) - 1 /\ DOMAIN t = 1..(Len(s) - 1)
        BY <2>1, <3>5, <3>6, <4>2, LenProperties
      <4>4. ASSUME NEW i \in 1..(Len(s) - 1) PROVE t[i] = IF i < k THEN s[i] ELSE s[i + 1]
        <5>1. CASE i < k
          <6>1. i <= k - 1 /\ i \in 1..(k - 1) /\ i \in 1..((k - 1) + (Len(s) - k))
            BY <2>1, <5>1
          <6>2. QED BY <3>5, <3>6, <4>2, <5>1, <6>1
        <5>2. CASE ~(i < k)
          <6>1. ~(i <= k - 1) /\ i - (k - 1) \in 1..(Len(s) - k)
                /\ i \in 1..((k - 1) + (Len(s) - k)) /\ k + (i - (k - 1)) = i + 1
            BY <2>1, <5>2
          <6>2. QED BY <3>5, <3>6, <4>2, <5>2, <6>1
        <5>3. QED BY <5>1, <5>2
      <4>5. QED BY <4>2, <4>3, <4>4
    <3>8. IsInjective(t)
      <4>1. SUFFICES ASSUME NEW i \in 1..(Len(s) - 1), NEW j \in 1..(Len(s) - 1), t[i] = t[j]
                     PROVE  i = j
        BY <3>7 DEF IsInjective
      <4>a. /\ (IF i < k THEN i ELSE i + 1) \in 1..Len(s)
            /\ (IF j < k THEN j ELSE j + 1) \in 1..Len(s)
        BY <2>1
      <4>b. /\ t[i] = s[IF i < k THEN i ELSE i + 1]
            /\ t[j] = s[IF j < k THEN j ELSE j + 1]
        BY <3>7
      <4>2. PICK x \in 1..Len(s) : x = (IF i < k THEN i ELSE i + 1) /\ t[i] = s[x]
        BY <4>a, <4>b
      <4>3. PICK y \in 1..Len(s) : y = (IF j < k THEN j ELSE j + 1) /\ t[j] = s[y]
        BY <4>a, <4>b
      <4>4. x = y
        <5>1. s[x] = s[y]
          BY <4>1, <4>2, <4>3
        <5>2. \A m, l \in 1..Len(s) : s[m] = s[l] => m = l
          BY <2>1, <2>2 DEF IsInjective
        <5>3. QED BY <5>1, <5>2
      <4>5. QED BY <2>1, <4>2, <4>3, <4>4
    <3>9. ASSUME NEW x \in r.ids PROVE \E i \in 1..Len(t) : t[i] = x
      <4>1. PICK j \in 1..Len(s) : s[j] = x
        BY <1>1, <2>2
      <4>2. j # k
        BY <1>1, <2>4, <4>1
      <4>3. PICK i \in 1..(Len(s) - 1) : (IF i < k THEN i ELSE i + 1) = j
        <5>1. CASE j < k
          <6>1. j \in 1..(Len(s) - 1)
            BY <2>1, <5>1
          <6>2. QED BY <5>1, <6>1
        <5>2. CASE j > k
          <6>1. j - 1 \in 1..(Len(s) - 1) /\ ~(j - 1 < k) /\ (j - 1) + 1 = j
            BY <2>1, <5>2
          <6>2. QED BY <6>1
        <5>3. QED BY <2>1, <4>2, <5>1, <5>2
      <4>4. QED BY <3>7, <4>1, <4>3
    <3>10. QED BY <3>7, <3>8, <3>9
  <2>5. QED BY <2>3, <2>4
<1>4. QED BY <1>1, <1>2, <1>3 DEF Listing

-----------------------------------------------------------------------------
(* The shape of a document, and that every function the editor is built from  *)
(* keeps it.                                                                 *)

Owners(d) == Components(d) \cup Joints(d)

Typed(d) ==
  /\ d.cls \in [d.ids -> Classes]
  /\ d.ends \in [Wires(d) -> Nat \X Nat]
  /\ d.wire \in [Ports(d) -> Nat]
  /\ d.opp \in [Ports(d) -> Nat]
  /\ d.owner \in [Ports(d) -> Nat]
  /\ d.subs \in [Owners(d) -> Seq(Nat)]

Shape(d) == Listing(d) /\ Typed(d)

\* The kinds of elements are disjoint.
LEMMA Kinds ==
  ASSUME NEW d, Typed(d)
  PROVE  /\ DOMAIN d.cls = d.ids
         /\ \A x \in d.ids : d.cls[x] \in Classes
         /\ \A x : x \in Wires(d) <=> x \in d.ids /\ d.cls[x] = "wire"
         /\ \A x : x \in Ports(d) <=> x \in d.ids /\ d.cls[x] \in {"pin", "jointport"}
         /\ \A x : x \in Joints(d) <=> x \in d.ids /\ d.cls[x] = "joint"
         /\ \A x : x \in Components(d) <=> x \in d.ids /\ d.cls[x] = "component"
         /\ \A x : x \in Owners(d) <=> x \in d.ids /\ d.cls[x] \in {"component", "joint"}
<1>1. DOMAIN d.cls = d.ids /\ \A x \in d.ids : d.cls[x] \in Classes
  BY DEF Typed
<1>2. QED BY <1>1 DEF Of, Wires, Ports, Joints, Components, Owners

LEMMA EraseShape ==
  ASSUME NEW d, Shape(d), NEW e, NEW r, r = Erase(d, e)
  PROVE  /\ Shape(r) /\ r.ids = d.ids \ {e}
         /\ \A x \in r.ids : r.cls[x] = d.cls[x]
         /\ \A x \in Wires(r) : r.ends[x] = d.ends[x]
         /\ \A x \in Ports(r) : r.wire[x] = d.wire[x] /\ r.opp[x] = d.opp[x]
                                /\ r.owner[x] = d.owner[x]
         /\ \A x \in Owners(r) : r.subs[x] = d.subs[x]
<1>1. /\ Listing(r) /\ r.ids = d.ids \ {e} /\ r.cls = Without(d.cls, e)
      /\ r.ends = Without(d.ends, e) /\ r.wire = Without(d.wire, e)
      /\ r.opp = Without(d.opp, e) /\ r.owner = Without(d.owner, e)
      /\ r.subs = Without(d.subs, e)
  BY EraseIs DEF Shape
<1>2. Typed(d) /\ DOMAIN d.cls = d.ids
  BY DEF Shape, Typed
<1>3. r.cls \in [r.ids -> Classes] /\ \A x \in r.ids : r.cls[x] = d.cls[x]
  BY <1>1, <1>2 DEF Typed, Without
<1>4. /\ Wires(r) = Wires(d) \ {e} /\ Ports(r) = Ports(d) \ {e}
      /\ Owners(r) = Owners(d) \ {e}
  BY <1>1, <1>2, <1>3 DEF Of, Wires, Ports, Joints, Components, Owners
<1>5. r.ends \in [Wires(r) -> Nat \X Nat] /\ \A x \in Wires(r) : r.ends[x] = d.ends[x]
  BY <1>1, <1>2, <1>4 DEF Typed, Without
<1>6. r.wire \in [Ports(r) -> Nat] /\ \A x \in Ports(r) : r.wire[x] = d.wire[x]
  BY <1>1, <1>2, <1>4 DEF Typed, Without
<1>7. r.opp \in [Ports(r) -> Nat] /\ \A x \in Ports(r) : r.opp[x] = d.opp[x]
  BY <1>1, <1>2, <1>4 DEF Typed, Without
<1>8. r.owner \in [Ports(r) -> Nat] /\ \A x \in Ports(r) : r.owner[x] = d.owner[x]
  BY <1>1, <1>2, <1>4 DEF Typed, Without
<1>9. r.subs \in [Owners(r) -> Seq(Nat)] /\ \A x \in Owners(r) : r.subs[x] = d.subs[x]
  BY <1>1, <1>2, <1>4 DEF Typed, Without
<1>10. QED BY <1>1, <1>3, <1>5, <1>6, <1>7, <1>8, <1>9 DEF Shape, Typed

LEMMA CreateWireIs ==
  ASSUME NEW d, Shape(d), NEW r, r = CreateWire(d), NEW w, w = Alloc(d)
  PROVE  /\ Shape(r) /\ w \in Nat \ {0} /\ w \notin d.ids /\ r.ids = d.ids \cup {w}
         /\ r.cls[w] = "wire" /\ \A x \in d.ids : r.cls[x] = d.cls[x]
         /\ r.ends[w] = <<None, None>> /\ \A x \in Wires(d) : r.ends[x] = d.ends[x]
         /\ r.wire = d.wire /\ r.opp = d.opp /\ r.owner = d.owner /\ r.subs = d.subs
<1> DEFINE l == Listed(d, w, "wire")
<1>1. w \in Nat \ {0} /\ w \notin d.ids
  BY AllocFresh DEF Shape
<1>2. /\ Listing(l) /\ l.ids = d.ids \cup {w} /\ l.cls = Put(d.cls, w, "wire")
      /\ l.ends = d.ends /\ l.wire = d.wire /\ l.opp = d.opp
      /\ l.owner = d.owner /\ l.subs = d.subs
  BY <1>1, ListedIs DEF Shape
<1>3. r = [l EXCEPT !.ends = Put(@, w, <<None, None>>)]
  BY DEF CreateWire
<1> HIDE DEF l
<1>4. IsDoc(l)
  BY <1>2 DEF Listing
<1>5. r.elements = l.elements /\ r.ids = l.ids /\ r.cls = l.cls
      /\ r.ends = Put(l.ends, w, <<None, None>>)
  BY <1>3, <1>4 DEF IsDoc
<1>6. r.wire = l.wire /\ r.opp = l.opp /\ r.owner = l.owner /\ r.subs = l.subs
  BY <1>3, <1>4 DEF IsDoc
<1>7. IsDoc(r)
  BY <1>3, <1>4 DEF IsDoc
<1>8. Listing(r)
  BY <1>2, <1>5, <1>7 DEF Listing
<1>9. Typed(d) /\ DOMAIN d.cls = d.ids
  BY DEF Shape, Typed
<1>10. r.cls \in [r.ids -> Classes] /\ r.cls[w] = "wire" /\ \A x \in d.ids : r.cls[x] = d.cls[x]
  BY <1>1, <1>2, <1>5, <1>9 DEF Typed, Put, Classes
<1>11. Wires(r) = Wires(d) \cup {w} /\ Ports(r) = Ports(d) /\ Owners(r) = Owners(d)
  BY <1>1, <1>2, <1>5, <1>9, <1>10 DEF Of, Wires, Ports, Joints, Components, Owners
<1>12. r.ends \in [Wires(r) -> Nat \X Nat] /\ r.ends[w] = <<None, None>>
       /\ \A x \in Wires(d) : r.ends[x] = d.ends[x]
  <2>1. w \notin Wires(d)
    BY <1>1, <1>9, Kinds
  <2>2. <<None, None>> \in Nat \X Nat
    BY DEF None
  <2>3. d.ends \in [Wires(d) -> Nat \X Nat] /\ DOMAIN d.ends = Wires(d)
    BY <1>9 DEF Typed
  <2>4. QED BY <1>2, <1>5, <1>11, <2>1, <2>2, <2>3 DEF Put
<1>13. QED BY <1>1, <1>2, <1>5, <1>6, <1>8, <1>9, <1>10, <1>11, <1>12 DEF Shape, Typed

\* The functions that plug and unplug change only the three fields of the links.
Replugged(r, d) ==
  /\ Shape(r) /\ r.ids = d.ids /\ r.cls = d.cls /\ r.owner = d.owner /\ r.subs = d.subs

LEMMA Replug ==
  ASSUME NEW d, Shape(d), NEW ends \in [Wires(d) -> Nat \X Nat],
         NEW wire \in [Ports(d) -> Nat], NEW opp \in [Ports(d) -> Nat], NEW r,
         r = [elements |-> d.elements, ids |-> d.ids, cls |-> d.cls, ends |-> ends,
              wire |-> wire, opp |-> opp, owner |-> d.owner, subs |-> d.subs]
  PROVE  Replugged(r, d) /\ r.ends = ends /\ r.wire = wire /\ r.opp = opp
<1>1. r.elements = d.elements /\ r.ids = d.ids /\ r.cls = d.cls /\ r.owner = d.owner
  OBVIOUS
<1>2. r.subs = d.subs /\ r.ends = ends /\ r.wire = wire /\ r.opp = opp
  OBVIOUS
<1>3. IsDoc(r)
  BY DEF IsDoc
<1>4. Listing(r)
  BY <1>1, <1>3 DEF Shape, Listing
<1>5. Wires(r) = Wires(d) /\ Ports(r) = Ports(d) /\ Owners(r) = Owners(d)
  BY <1>1 DEF Of, Wires, Ports, Joints, Components, Owners
<1>6. Typed(r)
  BY <1>1, <1>2, <1>5 DEF Shape, Typed
<1>7. QED BY <1>1, <1>2, <1>4, <1>6 DEF Shape, Replugged

LEMMA ConnectStartIs ==
  ASSUME NEW d, Shape(d), NEW w \in Wires(d), NEW p \in Ports(d), NEW r,
         r = ConnectStartPort(d, w, p)
  PROVE  /\ Replugged(r, d)
         /\ r.ends = [d.ends EXCEPT ![w] = <<p, @[2]>>]
         /\ r.wire = [d.wire EXCEPT ![p] = w]
         /\ r.opp = [d.opp EXCEPT ![p] = None]
<1> DEFINE ends == [d.ends EXCEPT ![w] = <<p, @[2]>>]
           wire == [d.wire EXCEPT ![p] = w]
           opp == [d.opp EXCEPT ![p] = None]
<1>1. IsDoc(d) /\ Typed(d)
  BY DEF Shape, Listing
<1>2. w \in Nat /\ p \in Nat
  BY Kinds DEF Shape, Listing
<1>3. ends \in [Wires(d) -> Nat \X Nat]
  BY <1>1, <1>2 DEF Typed
<1>4. wire \in [Ports(d) -> Nat] /\ opp \in [Ports(d) -> Nat]
  BY <1>1, <1>2 DEF Typed, None
<1>5. r = [elements |-> d.elements, ids |-> d.ids, cls |-> d.cls, ends |-> ends,
           wire |-> wire, opp |-> opp, owner |-> d.owner, subs |-> d.subs]
  BY <1>1 DEF ConnectStartPort, IsDoc
<1> HIDE DEF ends, wire, opp
<1>6. Replugged(r, d) /\ r.ends = ends /\ r.wire = wire /\ r.opp = opp
  BY <1>3, <1>4, <1>5, Replug
<1>7. QED BY <1>6 DEF ends, wire, opp

LEMMA ConnectEndIs ==
  ASSUME NEW d, Shape(d), NEW w \in Wires(d), NEW p \in Ports(d), NEW s, s = d.ends[w][1],
         NEW r, r = ConnectEndPort(d, w, p)
  PROVE  /\ Replugged(r, d)
         /\ r.ends = [d.ends EXCEPT ![w] = <<s, p>>]
         /\ r.wire = [d.wire EXCEPT ![p] = w]
         /\ r.opp = [d.opp EXCEPT ![s] = p, ![p] = s]
<1> DEFINE ends == [d.ends EXCEPT ![w] = <<s, p>>]
           wire == [d.wire EXCEPT ![p] = w]
           opp == [d.opp EXCEPT ![s] = p, ![p] = s]
<1>1. IsDoc(d) /\ Typed(d)
  BY DEF Shape, Listing
<1>2. w \in Nat /\ p \in Nat /\ s \in Nat
  <2>1. w \in Nat /\ p \in Nat
    BY Kinds DEF Shape, Listing
  <2>2. d.ends[w] \in Nat \X Nat
    BY <1>1 DEF Typed
  <2>3. QED BY <2>1, <2>2
<1>3. ends \in [Wires(d) -> Nat \X Nat]
  BY <1>1, <1>2 DEF Typed
<1>4. wire \in [Ports(d) -> Nat]
  BY <1>1, <1>2 DEF Typed
<1>5. opp \in [Ports(d) -> Nat]
  BY <1>1, <1>2 DEF Typed
<1>6. r = [elements |-> d.elements, ids |-> d.ids, cls |-> d.cls, ends |-> ends,
           wire |-> wire, opp |-> opp, owner |-> d.owner, subs |-> d.subs]
  BY <1>1 DEF ConnectEndPort, IsDoc
<1> HIDE DEF ends, wire, opp
<1>7. Replugged(r, d) /\ r.ends = ends /\ r.wire = wire /\ r.opp = opp
  BY <1>3, <1>4, <1>5, <1>6, Replug
<1>8. QED BY <1>7 DEF ends, wire, opp

LEMMA UnplugIs ==
  ASSUME NEW d, Shape(d), NEW w \in Wires(d), NEW s, s = d.ends[w][1], NEW e, e = d.ends[w][2],
         NEW r, r = Unplug(d, w)
  PROVE  /\ Replugged(r, d)
         /\ r.ends = [d.ends EXCEPT ![w] = <<None, None>>]
         /\ r.wire = [d.wire EXCEPT ![s] = None, ![e] = None]
         /\ r.opp = [d.opp EXCEPT ![s] = None, ![e] = None]
<1> DEFINE ends == [d.ends EXCEPT ![w] = <<None, None>>]
           wire == [d.wire EXCEPT ![s] = None, ![e] = None]
           opp == [d.opp EXCEPT ![s] = None, ![e] = None]
<1>1. IsDoc(d) /\ Typed(d)
  BY DEF Shape, Listing
<1>2. ends \in [Wires(d) -> Nat \X Nat]
  BY <1>1 DEF Typed, None
<1>3. wire \in [Ports(d) -> Nat]
  BY <1>1 DEF Typed, None
<1>4. opp \in [Ports(d) -> Nat]
  BY <1>1 DEF Typed, None
<1>5. r = [elements |-> d.elements, ids |-> d.ids, cls |-> d.cls, ends |-> ends,
           wire |-> wire, opp |-> opp, owner |-> d.owner, subs |-> d.subs]
  BY <1>1 DEF Unplug, IsDoc
<1> HIDE DEF ends, wire, opp
<1>6. Replugged(r, d) /\ r.ends = ends /\ r.wire = wire /\ r.opp = opp
  BY <1>2, <1>3, <1>4, <1>5, Replug
<1>7. QED BY <1>6 DEF ends, wire, opp

\* The same three, seen at each wire and port.
Unplugged(r, d, w) ==
  /\ Replugged(r, d)
  /\ \A v \in Wires(d) \ {w} : r.ends[v] = d.ends[v]
  /\ \A q \in Ports(d) : r.wire[q] = IF q \in {d.ends[w][1], d.ends[w][2]} THEN None ELSE d.wire[q]
  /\ \A q \in Ports(d) : r.opp[q] = IF q \in {d.ends[w][1], d.ends[w][2]} THEN None ELSE d.opp[q]

StartConnected(r, d, w, p) ==
  /\ Replugged(r, d)
  /\ r.ends[w] = <<p, d.ends[w][2]>> /\ \A v \in Wires(d) \ {w} : r.ends[v] = d.ends[v]
  /\ \A q \in Ports(d) : r.wire[q] = IF q = p THEN w ELSE d.wire[q]
  /\ \A q \in Ports(d) : r.opp[q] = IF q = p THEN None ELSE d.opp[q]

EndConnected(r, d, w, p) ==
  /\ Replugged(r, d)
  /\ r.ends[w] = <<d.ends[w][1], p>> /\ \A v \in Wires(d) \ {w} : r.ends[v] = d.ends[v]
  /\ \A q \in Ports(d) : r.wire[q] = IF q = p THEN w ELSE d.wire[q]
  /\ \A q \in Ports(d) : r.opp[q] = IF q = p THEN d.ends[w][1]
                                     ELSE IF q = d.ends[w][1] THEN p ELSE d.opp[q]

LEMMA PlugDomains ==
  ASSUME NEW d, Shape(d)
  PROVE  /\ DOMAIN d.ends = Wires(d) /\ DOMAIN d.wire = Ports(d) /\ DOMAIN d.opp = Ports(d)
         /\ DOMAIN d.owner = Ports(d) /\ DOMAIN d.subs = Owners(d) /\ DOMAIN d.cls = d.ids
BY DEF Shape, Typed

LEMMA ReplugKinds ==
  ASSUME NEW d, NEW r, Replugged(r, d)
  PROVE  /\ Shape(r) /\ Wires(r) = Wires(d) /\ Ports(r) = Ports(d) /\ Owners(r) = Owners(d)
         /\ Joints(r) = Joints(d) /\ Components(r) = Components(d)
BY DEF Replugged, Wires, Ports, Owners, Components, Joints, Of

LEMMA UnplugAt ==
  ASSUME NEW d, Shape(d), NEW w \in Wires(d)
  PROVE  Unplugged(Unplug(d, w), d, w)
<1> DEFINE r == Unplug(d, w)
           s == d.ends[w][1]
           e == d.ends[w][2]
<1>1. /\ Replugged(r, d)
      /\ r.ends = [d.ends EXCEPT ![w] = <<None, None>>]
      /\ r.wire = [d.wire EXCEPT ![s] = None, ![e] = None]
      /\ r.opp = [d.opp EXCEPT ![s] = None, ![e] = None]
  <2>1. s = d.ends[w][1] /\ e = d.ends[w][2] /\ r = Unplug(d, w)
    OBVIOUS
  <2> HIDE DEF r, s, e
  <2>2. QED BY <2>1, UnplugIs
<1>2. DOMAIN d.ends = Wires(d) /\ DOMAIN d.wire = Ports(d) /\ DOMAIN d.opp = Ports(d)
  BY PlugDomains
<1> HIDE DEF r
<1>3. QED BY <1>1, <1>2 DEF Unplugged, r

LEMMA ConnectStartAt ==
  ASSUME NEW d, Shape(d), NEW w \in Wires(d), NEW p \in Ports(d)
  PROVE  StartConnected(ConnectStartPort(d, w, p), d, w, p)
<1> DEFINE r == ConnectStartPort(d, w, p)
<1>1. /\ Replugged(r, d)
      /\ r.ends = [d.ends EXCEPT ![w] = <<p, @[2]>>]
      /\ r.wire = [d.wire EXCEPT ![p] = w]
      /\ r.opp = [d.opp EXCEPT ![p] = None]
  <2>1. r = ConnectStartPort(d, w, p)
    OBVIOUS
  <2> HIDE DEF r
  <2>2. QED BY <2>1, ConnectStartIs
<1>2. DOMAIN d.ends = Wires(d) /\ DOMAIN d.wire = Ports(d) /\ DOMAIN d.opp = Ports(d)
  BY PlugDomains
<1> HIDE DEF r
<1>3. QED BY <1>1, <1>2 DEF StartConnected, r

LEMMA ConnectEndAt ==
  ASSUME NEW d, Shape(d), NEW w \in Wires(d), NEW p \in Ports(d)
  PROVE  EndConnected(ConnectEndPort(d, w, p), d, w, p)
<1> DEFINE r == ConnectEndPort(d, w, p)
           s == d.ends[w][1]
<1>1. /\ Replugged(r, d)
      /\ r.ends = [d.ends EXCEPT ![w] = <<s, p>>]
      /\ r.wire = [d.wire EXCEPT ![p] = w]
      /\ r.opp = [d.opp EXCEPT ![s] = p, ![p] = s]
  <2>1. r = ConnectEndPort(d, w, p) /\ s = d.ends[w][1]
    OBVIOUS
  <2> HIDE DEF r, s
  <2>2. QED BY <2>1, ConnectEndIs
<1>2. DOMAIN d.ends = Wires(d) /\ DOMAIN d.wire = Ports(d) /\ DOMAIN d.opp = Ports(d)
  BY PlugDomains
<1> HIDE DEF r
<1>3. QED BY <1>1, <1>2 DEF EndConnected, r

-----------------------------------------------------------------------------
(* What makes a document sound while the ports X are loose: their fields of   *)
(* the links mean nothing, because the wire they name is just being deleted.  *)

\* Ports and the components and joints that they are part of name each other.
Owned(d) ==
  /\ \A o \in Owners(d) : \A k \in 1..Len(d.subs[o]) :
       d.subs[o][k] \in Ports(d) /\ d.owner[d.subs[o][k]] = o
  /\ \A o \in Owners(d) : IsInjective(d.subs[o])
  /\ \A p \in Ports(d) : d.owner[p] \in Owners(d)
                         /\ \E k \in 1..Len(d.subs[d.owner[p]]) : d.subs[d.owner[p]][k] = p
  /\ \A p \in Ports(d) : d.cls[p] = "pin" <=> d.cls[d.owner[p]] = "component"
  /\ \A j \in Joints(d) : Len(d.subs[j]) = 3

\* Wires and their ends name each other, a wire without an end starts at a pin, and
\* no port of a joint is free.
Plugged(d, X) ==
  /\ \A w \in Wires(d) :
       LET s == d.ends[w][1]
           e == d.ends[w][2]
       IN  /\ s \in Ports(d) \ X /\ d.wire[s] = w
           /\ e = None => d.cls[s] = "pin"
           /\ e # None => /\ e \in Ports(d) \ X /\ e # s /\ d.wire[e] = w
                          /\ d.opp[s] = e /\ d.opp[e] = s
  /\ \A p \in Ports(d) \ X :
       d.wire[p] # None => /\ d.wire[p] \in Wires(d)
                           /\ p \in {d.ends[d.wire[p]][1], d.ends[d.wire[p]][2]}
  /\ \A p \in Ports(d) \ X : d.cls[p] = "jointport" => d.wire[p] # None

\* Wires and joints form a forest: among any joints there is one with at most one
\* wire to another one of them.
Leaf(d, X, J, j) ==
  \A p, q \in Ports(d) \ X :
    d.owner[p] = j /\ d.owner[q] = j /\ d.owner[d.opp[p]] \in J /\ d.owner[d.opp[q]] \in J
      => p = q
Forest(d, X) == \A J \in SUBSET Joints(d) : J # {} => \E j \in J : Leaf(d, X, J, j)

Sound(d, X) == Shape(d) /\ Owned(d) /\ Plugged(d, X) /\ Forest(d, X)

\* A port of a joint is wired to another port, which is not of the same joint.
LEMMA Partner ==
  ASSUME NEW d, NEW X, Sound(d, X), NEW p \in Ports(d) \ X, d.cls[p] = "jointport",
         NEW w, w = d.wire[p], NEW a, a = d.opp[p]
  PROVE  /\ w \in Wires(d) /\ w # None /\ a \in Ports(d) \ X /\ a # p
         /\ d.wire[a] = w /\ d.opp[a] = p /\ d.owner[a] # d.owner[p]
         /\ \/ d.ends[w][1] = p /\ d.ends[w][2] = a
            \/ d.ends[w][1] = a /\ d.ends[w][2] = p
<1> DEFINE s == d.ends[w][1]
           e == d.ends[w][2]
<1>1. w # None /\ w \in Wires(d) /\ (p = s \/ p = e)
  BY DEF Sound, Plugged
<1>2. s \in Ports(d) \ X /\ d.wire[s] = w /\ (e = None => d.cls[s] = "pin")
      /\ (e # None => e \in Ports(d) \ X /\ e # s /\ d.wire[e] = w /\ d.opp[s] = e /\ d.opp[e] = s)
  BY <1>1 DEF Sound, Plugged
<1>3. None \notin Ports(d)
  BY Kinds DEF Sound, Shape, Listing, None
<1> HIDE DEF s, e
<1>4. e # None
  BY <1>1, <1>2, <1>3
<1>5. (s = p /\ e = a) \/ (s = a /\ e = p)
  BY <1>1, <1>2, <1>4
<1>6. a \in Ports(d) \ X /\ a # p /\ d.wire[a] = w /\ d.opp[a] = p
  BY <1>2, <1>4, <1>5
<1>7. ASSUME d.owner[a] = d.owner[p] PROVE FALSE
  <2> DEFINE j == d.owner[p]
  <2>1. j \in Joints(d)
    <3>1. j \in Owners(d) /\ d.cls[j] # "component"
      BY DEF Sound, Owned
    <3>2. QED BY <3>1, Kinds DEF Sound, Shape
  <2>2. PICK i \in {j} : Leaf(d, X, {j}, i)
    BY <2>1 DEF Sound, Forest
  <2>3. QED BY <1>6, <1>7, <2>2 DEF Leaf
<1>8. QED BY <1>1, <1>5, <1>6, <1>7 DEF s, e

\* The joint j with the ports p, x and y gives way to one wire between the ports that
\* x and y are wired to.
Spliced(r, d, j, p, x, y, new) ==
  LET a == d.opp[x]
      b == d.opp[y]
      u == d.wire[x]
      v == d.wire[y]
  IN  /\ Shape(r) /\ new \in Nat \ {0} /\ new \notin d.ids
      /\ r.ids = (d.ids \cup {new}) \ {u, v, j, p, x, y}
      /\ r.cls[new] = "wire" /\ \A i \in r.ids \ {new} : r.cls[i] = d.cls[i]
      /\ r.ends[new] = <<a, b>> /\ \A w \in Wires(r) \ {new} : r.ends[w] = d.ends[w]
      /\ \A q \in Ports(r) : r.wire[q] = IF q \in {a, b} THEN new ELSE d.wire[q]
      /\ \A q \in Ports(r) : r.opp[q] = IF q = a THEN b ELSE IF q = b THEN a ELSE d.opp[q]
      /\ \A q \in Ports(r) : r.owner[q] = d.owner[q]
      /\ \A o \in Owners(r) : r.subs[o] = d.subs[o]

\* A loose port p of the joint j, and its other ports x and y.
Loosened(d, X, j, p, x, y) ==
  /\ Sound(d, X) /\ j \in Joints(d)
  /\ x \in Ports(d) \ X /\ y \in Ports(d) \ X /\ x # y /\ p \in Ports(d) \cap X
  /\ \A q \in Ports(d) : d.owner[q] = j <=> q \in {p, x, y}

LEMMA SplicedIs ==
  ASSUME NEW d, NEW X, NEW j, NEW p, NEW x, NEW y, NEW new, NEW r,
         Loosened(d, X, j, p, x, y), Spliced(r, d, j, p, x, y, new),
         NEW a, a = d.opp[x], NEW b, b = d.opp[y], NEW u, u = d.wire[x], NEW v, v = d.wire[y]
  PROVE  /\ a \in Ports(r) \ X /\ b \in Ports(r) \ X /\ a # b
         /\ a \notin {p, x, y} /\ b \notin {p, x, y}
         /\ d.wire[a] = u /\ d.wire[b] = v /\ d.opp[a] = x /\ d.opp[b] = y
         /\ u \in Wires(d) /\ v \in Wires(d) /\ u # v
         /\ {d.ends[u][1], d.ends[u][2]} = {a, x} /\ {d.ends[v][1], d.ends[v][2]} = {b, y}
         /\ Wires(r) = (Wires(d) \cup {new}) \ {u, v} /\ Ports(r) = Ports(d) \ {p, x, y}
         /\ Joints(r) = Joints(d) \ {j} /\ Components(r) = Components(d)
         /\ Owners(r) = Owners(d) \ {j}
<1>1. Shape(d) /\ Shape(r) /\ Typed(d) /\ Typed(r)
  BY DEF Loosened, Sound, Spliced, Shape
<1>2. j \in d.ids /\ d.cls[j] = "joint"
  BY <1>1, Kinds DEF Loosened
<1>3. d.cls[x] = "jointport" /\ d.cls[y] = "jointport" /\ d.cls[p] = "jointport"
  <2>1. ASSUME NEW q \in Ports(d), d.owner[q] = j PROVE d.cls[q] = "jointport"
    <3>1. d.cls[q] # "pin"
      BY <1>2, <2>1 DEF Loosened, Sound, Owned
    <3>2. QED BY <1>1, <3>1, Kinds
  <2>2. QED BY <2>1 DEF Loosened
<1>4. /\ u \in Wires(d) /\ a \in Ports(d) \ X /\ a # x
      /\ d.wire[a] = u /\ d.opp[a] = x /\ d.owner[a] # d.owner[x]
      /\ {d.ends[u][1], d.ends[u][2]} = {a, x}
  BY <1>3, Partner DEF Loosened
<1>5. /\ v \in Wires(d) /\ b \in Ports(d) \ X /\ b # y
      /\ d.wire[b] = v /\ d.opp[b] = y /\ d.owner[b] # d.owner[y]
      /\ {d.ends[v][1], d.ends[v][2]} = {b, y}
  BY <1>3, Partner DEF Loosened
<1>6. d.owner[x] = j /\ d.owner[y] = j /\ d.owner[p] = j /\ x # y /\ x \in Ports(d) /\ y \in Ports(d)
      /\ p \in Ports(d)
  BY DEF Loosened
<1>7. a \notin {p, x, y} /\ b \notin {p, x, y} /\ a # b
  BY <1>4, <1>5, <1>6
<1>8. u # v
  <2>1. SUFFICES ASSUME u = v PROVE FALSE
    OBVIOUS
  <2>2. {a, x} = {b, y}
    BY <1>4, <1>5, <2>1
  <2>3. QED BY <1>6, <1>7, <2>2
<1>9. /\ new \notin d.ids /\ r.ids = (d.ids \cup {new}) \ {u, v, j, p, x, y}
      /\ r.cls[new] = "wire" /\ \A i \in r.ids \ {new} : r.cls[i] = d.cls[i]
  BY DEF Spliced
<1>10. /\ d.cls[u] = "wire" /\ d.cls[v] = "wire" /\ u \in d.ids /\ v \in d.ids
       /\ x \in d.ids /\ y \in d.ids /\ p \in d.ids
  BY <1>1, <1>4, <1>5, <1>6, Kinds
<1>11. \A i : i \in r.ids <=> i = new \/ (i \in d.ids /\ i \notin {u, v, j, p, x, y})
  BY <1>2, <1>9, <1>10
<1>12. Wires(r) = (Wires(d) \cup {new}) \ {u, v}
  <2>1. ASSUME NEW i PROVE i \in Wires(r) <=> i \in (Wires(d) \cup {new}) \ {u, v}
    BY <1>1, <1>2, <1>3, <1>9, <1>10, <1>11, Kinds
  <2>2. QED BY <2>1
<1>13. Ports(r) = Ports(d) \ {p, x, y}
  <2>1. ASSUME NEW i PROVE i \in Ports(r) <=> i \in Ports(d) \ {p, x, y}
    BY <1>1, <1>2, <1>3, <1>9, <1>10, <1>11, Kinds
  <2>2. QED BY <2>1
<1>14. Joints(r) = Joints(d) \ {j}
  <2>1. ASSUME NEW i PROVE i \in Joints(r) <=> i \in Joints(d) \ {j}
    BY <1>1, <1>2, <1>3, <1>9, <1>10, <1>11, Kinds
  <2>2. QED BY <2>1
<1>15. Components(r) = Components(d)
  <2>1. ASSUME NEW i PROVE i \in Components(r) <=> i \in Components(d)
    BY <1>1, <1>2, <1>3, <1>9, <1>10, <1>11, Kinds
  <2>2. QED BY <2>1
<1>16. Owners(r) = Owners(d) \ {j}
  <2>1. j \notin Components(d)
    BY <1>1, <1>2, Kinds
  <2>2. QED BY <1>14, <1>15, <2>1 DEF Owners
<1>17. QED
  BY <1>4, <1>5, <1>7, <1>8, <1>12, <1>13, <1>14, <1>15, <1>16

LEMMA SpliceSound ==
  ASSUME NEW d, NEW X, NEW j, NEW p, NEW x, NEW y, NEW new, NEW r,
         Loosened(d, X, j, p, x, y), Spliced(r, d, j, p, x, y, new)
  PROVE  Sound(r, X \ {p})
<1> DEFINE a == d.opp[x]
           b == d.opp[y]
           u == d.wire[x]
           v == d.wire[y]
           Y == X \ {p}
<1>1. /\ a \in Ports(r) \ X /\ b \in Ports(r) \ X /\ a # b
      /\ a \notin {p, x, y} /\ b \notin {p, x, y}
      /\ d.wire[a] = u /\ d.wire[b] = v /\ d.opp[a] = x /\ d.opp[b] = y
      /\ u \in Wires(d) /\ v \in Wires(d) /\ u # v
      /\ {d.ends[u][1], d.ends[u][2]} = {a, x} /\ {d.ends[v][1], d.ends[v][2]} = {b, y}
      /\ Wires(r) = (Wires(d) \cup {new}) \ {u, v} /\ Ports(r) = Ports(d) \ {p, x, y}
      /\ Joints(r) = Joints(d) \ {j} /\ Components(r) = Components(d)
      /\ Owners(r) = Owners(d) \ {j}
  BY SplicedIs
<1>2. /\ r.ends[new] = <<a, b>> /\ \A w \in Wires(r) \ {new} : r.ends[w] = d.ends[w]
      /\ \A q \in Ports(r) : r.wire[q] = IF q \in {a, b} THEN new ELSE d.wire[q]
      /\ \A q \in Ports(r) : r.opp[q] = IF q = a THEN b ELSE IF q = b THEN a ELSE d.opp[q]
      /\ \A q \in Ports(r) : r.owner[q] = d.owner[q]
      /\ \A o \in Owners(r) : r.subs[o] = d.subs[o]
  BY DEF Spliced
<1>3. /\ Shape(r) /\ Shape(d) /\ Typed(d) /\ Typed(r) /\ new # None /\ new \notin Wires(d)
      /\ \A i \in r.ids \ {new} : r.cls[i] = d.cls[i]
      /\ Owned(d) /\ Plugged(d, X) /\ Forest(d, X)
  <2>1. Shape(r) /\ Shape(d) /\ Typed(d) /\ Typed(r)
    BY DEF Spliced, Loosened, Sound, Shape
  <2>2. new \notin Wires(d) /\ new # None
    BY <2>1, Kinds DEF Spliced, None
  <2>3. QED BY <2>1, <2>2 DEF Spliced, Loosened, Sound
<1>4. /\ \A q \in Ports(d) : d.owner[q] = j <=> q \in {p, x, y}
      /\ j \in Joints(d) /\ x \in Ports(d) \ X /\ y \in Ports(d) \ X /\ x # y
  BY DEF Loosened
<1>5. \A q \in Ports(r) : q \in Ports(d) /\ q \notin {p, x, y} /\ r.cls[q] = d.cls[q] /\ q # new
  <2>1. new \notin d.ids
    BY DEF Spliced
  <2>2. QED BY <1>1, <1>3, <2>1, Kinds
<1> HIDE DEF a, b, u, v
<1>6. Owned(r)
  <2>1. ASSUME NEW o \in Owners(r)
        PROVE  /\ o \in Owners(d) /\ o # j /\ r.subs[o] = d.subs[o] /\ IsInjective(r.subs[o])
               /\ \A k \in 1..Len(r.subs[o]) : r.subs[o][k] \in Ports(r) /\ r.owner[r.subs[o][k]] = o
    <3>1. o \in Owners(d) /\ o # j /\ r.subs[o] = d.subs[o] /\ IsInjective(r.subs[o])
      BY <1>1, <1>2, <1>3 DEF Owned
    <3>2. ASSUME NEW k \in 1..Len(d.subs[o])
          PROVE  d.subs[o][k] \in Ports(r) /\ r.owner[d.subs[o][k]] = o
      <4>1. d.subs[o][k] \in Ports(d) /\ d.owner[d.subs[o][k]] = o
        BY <1>3, <3>1 DEF Owned
      <4>2. QED BY <1>1, <1>2, <1>4, <3>1, <4>1
    <3>3. QED BY <3>1, <3>2
  <2>2. ASSUME NEW q \in Ports(r)
        PROVE  /\ r.owner[q] \in Owners(r)
               /\ \E k \in 1..Len(r.subs[r.owner[q]]) : r.subs[r.owner[q]][k] = q
               /\ r.cls[q] = "pin" <=> r.cls[r.owner[q]] = "component"
    <3>1. q \in Ports(d) /\ r.owner[q] = d.owner[q] /\ d.owner[q] # j /\ r.cls[q] = d.cls[q]
      BY <1>2, <1>4, <1>5
    <3>2. d.owner[q] \in Owners(d) /\ \E k \in 1..Len(d.subs[d.owner[q]]) : d.subs[d.owner[q]][k] = q
      BY <1>3, <3>1 DEF Owned
    <3>3. d.owner[q] \in Owners(r) /\ r.subs[d.owner[q]] = d.subs[d.owner[q]]
      BY <1>1, <1>2, <3>1, <3>2
    <3>4. d.cls[q] = "pin" <=> d.cls[d.owner[q]] = "component"
      BY <1>3, <3>1 DEF Owned
    <3>5. r.cls[d.owner[q]] = d.cls[d.owner[q]]
      <4>1. d.owner[q] \in r.ids /\ r.cls[d.owner[q]] \in {"component", "joint"}
        BY <1>3, <3>3, Kinds
      <4>2. d.owner[q] # new
        BY <4>1 DEF Spliced
      <4>3. QED BY <1>3, <4>1, <4>2
    <3>6. QED BY <3>1, <3>2, <3>3, <3>4, <3>5
  <2>3. ASSUME NEW i \in Joints(r) PROVE Len(r.subs[i]) = 3
    <3>1. i \in Joints(d) /\ i \in Owners(r)
      BY <1>1 DEF Owners
    <3>2. QED BY <1>2, <1>3, <3>1 DEF Owned
  <2>4. QED BY <2>1, <2>2, <2>3 DEF Owned
<1>7. Plugged(r, Y)
  <2>1. ASSUME NEW w \in Wires(r), NEW s, s = r.ends[w][1], NEW e, e = r.ends[w][2]
        PROVE  /\ s \in Ports(r) \ Y /\ r.wire[s] = w
               /\ e = None => r.cls[s] = "pin"
               /\ e # None => /\ e \in Ports(r) \ Y /\ e # s /\ r.wire[e] = w
                              /\ r.opp[s] = e /\ r.opp[e] = s
    <3>1. CASE w = new
      <4>1. s = a /\ e = b
        BY <1>2, <2>1, <3>1
      <4>2. None \notin Ports(r)
        BY <1>3, Kinds DEF Shape, Listing, None
      <4>3. QED BY <1>1, <1>2, <3>1, <4>1, <4>2
    <3>2. CASE w # new
      <4>1. w \in Wires(d) /\ w # u /\ w # v /\ s = d.ends[w][1] /\ e = d.ends[w][2]
        BY <1>1, <1>2, <2>1, <3>2
      <4>2. /\ s \in Ports(d) \ X /\ d.wire[s] = w
            /\ e = None => d.cls[s] = "pin"
            /\ e # None => /\ e \in Ports(d) \ X /\ e # s /\ d.wire[e] = w
                           /\ d.opp[s] = e /\ d.opp[e] = s
        BY <1>3, <4>1 DEF Plugged
      <4>3. s \notin {a, b, p, x, y} /\ s \in Ports(r)
        BY <1>1, <4>1, <4>2 DEF u, v, Loosened
      <4>4. e # None => e \notin {a, b, p, x, y} /\ e \in Ports(r)
        BY <1>1, <4>1, <4>2 DEF u, v, Loosened
      <4>5. r.wire[s] = w /\ r.opp[s] = d.opp[s] /\ r.cls[s] = d.cls[s]
        BY <1>2, <1>5, <4>2, <4>3
      <4>6. e # None => r.wire[e] = w /\ r.opp[e] = d.opp[e]
        BY <1>2, <4>2, <4>4
      <4>7. QED BY <4>2, <4>3, <4>4, <4>5, <4>6
    <3>3. QED BY <3>1, <3>2
  <2>2. ASSUME NEW q \in Ports(r) \ Y
        PROVE  /\ r.wire[q] # None => /\ r.wire[q] \in Wires(r)
                                      /\ q \in {r.ends[r.wire[q]][1], r.ends[r.wire[q]][2]}
               /\ r.cls[q] = "jointport" => r.wire[q] # None
    <3>1. q \in Ports(d) \ X /\ q \notin {p, x, y} /\ r.cls[q] = d.cls[q]
      BY <1>5, <2>2
    <3>2. CASE q \in {a, b}
      <4>1. r.wire[q] = new /\ new \in Wires(r)
        BY <1>1, <1>2, <1>3, <2>2, <3>2
      <4>2. q \in {r.ends[new][1], r.ends[new][2]}
        BY <1>2, <3>2
      <4>3. QED BY <1>3, <4>1, <4>2
    <3>3. CASE q \notin {a, b}
      <4>1. r.wire[q] = d.wire[q]
        BY <1>2, <2>2, <3>3
      <4>2. d.cls[q] = "jointport" => d.wire[q] # None
        BY <1>3, <3>1 DEF Plugged
      <4>3. ASSUME d.wire[q] # None
            PROVE  d.wire[q] \in Wires(r) \ {new} /\ q \in {r.ends[d.wire[q]][1], r.ends[d.wire[q]][2]}
        <5>1. d.wire[q] \in Wires(d) /\ q \in {d.ends[d.wire[q]][1], d.ends[d.wire[q]][2]}
          BY <1>3, <3>1, <4>3 DEF Plugged
        <5>2. d.wire[q] # u /\ d.wire[q] # v
          BY <1>1, <3>1, <3>3, <5>1
        <5>3. d.wire[q] \in Wires(r) \ {new}
          BY <1>1, <1>3, <5>1, <5>2
        <5>4. QED BY <1>2, <5>1, <5>3
      <4>4. QED BY <3>1, <4>1, <4>2, <4>3
    <3>4. QED BY <3>2, <3>3
  <2>3. QED BY <2>1, <2>2 DEF Plugged
<1>8. Forest(r, Y)
  <2>1. SUFFICES ASSUME NEW J \in SUBSET Joints(r), J # {} PROVE \E i \in J : Leaf(r, Y, J, i)
    BY DEF Forest
  <2>2. J \in SUBSET Joints(d) /\ j \notin J
    BY <1>1, <2>1
  <2>3. ASSUME NEW q \in Ports(r) \ Y
        PROVE  /\ q \in Ports(d) \ X /\ r.owner[q] = d.owner[q] /\ q \notin {p, x, y}
               /\ r.opp[q] = IF q = a THEN b ELSE IF q = b THEN a ELSE d.opp[q]
    BY <1>2, <1>5, <2>3
  <2>4. d.owner[x] = j /\ d.owner[y] = j
    BY <1>4
  <2>5. ASSUME NEW q \in Ports(r) \ Y, r.owner[q] \in J, q # a, q # b
        PROVE  r.owner[r.opp[q]] = d.owner[d.opp[q]]
    <3>1. q \in Ports(d) \ X /\ d.owner[q] \in J /\ q \notin {p, x, y} /\ r.opp[q] = d.opp[q]
      BY <2>3, <2>5
    <3>2. d.cls[q] = "jointport"
      <4>1. d.cls[d.owner[q]] = "joint"
        BY <1>3, <2>2, <3>1, Kinds
      <4>2. d.cls[q] # "pin"
        BY <1>3, <3>1, <4>1 DEF Owned
      <4>3. QED BY <1>3, <3>1, <4>2, Kinds
    <3>3. d.opp[q] \in Ports(d) \ X /\ d.opp[d.opp[q]] = q
      BY <3>1, <3>2, Partner DEF Loosened
    <3>4. d.opp[q] \notin {x, y, p}
      BY <2>5, <3>3 DEF a, b, Loosened
    <3>5. d.opp[q] \in Ports(r)
      BY <1>1, <3>3, <3>4
    <3>6. QED BY <1>2, <3>1, <3>5
  <2>6. r.owner[a] = d.owner[a] /\ r.owner[b] = d.owner[b]
    BY <1>1, <1>2
  <2>7. CASE d.owner[a] \in J /\ d.owner[b] \in J
    <3>1. PICK i \in J \cup {j} : Leaf(d, X, J \cup {j}, i)
      <4>1. J \cup {j} \in SUBSET Joints(d) /\ J \cup {j} # {}
        BY <1>4, <2>2
      <4>2. QED BY <1>3, <4>1 DEF Forest
    <3>2. i # j
      <4>1. d.owner[d.opp[x]] \in J \cup {j} /\ d.owner[d.opp[y]] \in J \cup {j}
        BY <2>7 DEF a, b
      <4>2. QED BY <1>4, <2>4, <3>1, <4>1 DEF Leaf
    <3>3. ASSUME NEW q \in Ports(r) \ Y, r.owner[q] = i, r.owner[r.opp[q]] \in J
          PROVE  q \in Ports(d) \ X /\ d.owner[q] = i /\ d.owner[d.opp[q]] \in J \cup {j}
      <4>1. q \in Ports(d) \ X /\ d.owner[q] = i
        BY <2>3, <3>3
      <4>2. CASE q # a /\ q # b
        BY <2>5, <3>1, <3>2, <3>3, <4>1, <4>2
      <4>3. CASE q = a \/ q = b
        BY <1>1, <2>4, <4>1, <4>3
      <4>4. QED BY <4>1, <4>2, <4>3
    <3>4. Leaf(r, Y, J, i)
      BY <3>1, <3>3 DEF Leaf
    <3>5. QED BY <3>1, <3>2, <3>4
  <2>8. CASE ~(d.owner[a] \in J /\ d.owner[b] \in J)
    <3>1. PICK i \in J : Leaf(d, X, J, i)
      BY <1>3, <2>1, <2>2 DEF Forest
    <3>2. ASSUME NEW q \in Ports(r) \ Y, r.owner[q] = i, r.owner[r.opp[q]] \in J
          PROVE  q \in Ports(d) \ X /\ d.owner[q] = i /\ d.owner[d.opp[q]] \in J
      <4>1. q \in Ports(d) \ X /\ d.owner[q] = i
        BY <2>3, <3>2
      <4>2. q # a /\ q # b
        BY <1>1, <2>3, <2>6, <2>8, <3>1, <3>2, <4>1
      <4>3. QED BY <2>5, <3>1, <3>2, <4>1, <4>2
    <3>3. Leaf(r, Y, J, i)
      BY <3>1, <3>2 DEF Leaf
    <3>4. QED BY <3>1, <3>3
  <2>9. QED BY <2>7, <2>8
<1>9. QED BY <1>3, <1>6, <1>7, <1>8 DEF Sound

-----------------------------------------------------------------------------
(* What the functions that delete make of a document.                       *)

LEMMA CountUp ==
  ASSUME NEW n \in Nat, NEW T, 0 \in T, \A i \in 1..n : i - 1 \in T => i \in T
  PROVE  \A i \in 0..n : i \in T
<1> DEFINE U == {i \in 0..n : i \notin T}
<1>1. SUFFICES ASSUME U # {} PROVE FALSE
  OBVIOUS
<1>2. PICK m \in U : \A i \in U : m <= i
  <2>1. U \subseteq Nat
    OBVIOUS
  <2> HIDE DEF U
  <2>2. QED BY <1>1, <2>1, LeastNat
<1>3. m \in 0..n /\ m \notin T
  OBVIOUS
<1>4. m \in 1..n
  <2>1. m # 0
    BY <1>3
  <2>2. QED BY <1>3, <2>1
<1>5. m - 1 \notin U
  <2>1. ~(m <= m - 1)
    BY <1>4
  <2> HIDE DEF U
  <2>2. QED BY <1>2, <2>1
<1>6. m - 1 \in 0..n
  BY <1>4
<1>7. QED BY <1>3, <1>4, <1>5, <1>6

\* The elements S are gone and nothing else is changed.
Pruned(r, d, S) ==
  /\ Shape(r) /\ r.ids = d.ids \ S
  /\ \A x \in r.ids : r.cls[x] = d.cls[x]
  /\ \A x \in Wires(r) : r.ends[x] = d.ends[x]
  /\ \A x \in Ports(r) : r.wire[x] = d.wire[x] /\ r.opp[x] = d.opp[x] /\ r.owner[x] = d.owner[x]
  /\ \A x \in Owners(r) : r.subs[x] = d.subs[x]

LEMMA PrunedKinds ==
  ASSUME NEW d, Shape(d), NEW S, NEW r, Pruned(r, d, S)
  PROVE  /\ Wires(r) = Wires(d) \ S /\ Ports(r) = Ports(d) \ S /\ Owners(r) = Owners(d) \ S
         /\ Joints(r) = Joints(d) \ S /\ Components(r) = Components(d) \ S
<1>1. Typed(d) /\ Typed(r) /\ r.ids = d.ids \ S /\ \A x \in r.ids : r.cls[x] = d.cls[x]
  BY DEF Shape, Pruned
<1>2. \A x : x \in Wires(r) <=> x \in Wires(d) \ S
  BY <1>1, Kinds
<1>3. \A x : x \in Ports(r) <=> x \in Ports(d) \ S
  BY <1>1, Kinds
<1>4. \A x : x \in Owners(r) <=> x \in Owners(d) \ S
  BY <1>1, Kinds
<1>5. \A x : x \in Joints(r) <=> x \in Joints(d) \ S
  BY <1>1, Kinds
<1>6. \A x : x \in Components(r) <=> x \in Components(d) \ S
  BY <1>1, Kinds
<1>7. QED BY <1>2, <1>3, <1>4, <1>5, <1>6

LEMMA PrunedTwice ==
  ASSUME NEW d, Shape(d), NEW S, NEW T, NEW q, NEW r, Pruned(q, d, S), Pruned(r, q, T)
  PROVE  Pruned(r, d, S \cup T)
<1>1. Shape(q) /\ r.ids = d.ids \ (S \cup T) /\ r.ids \subseteq q.ids
  BY DEF Pruned
<1>2. Wires(r) \subseteq Wires(q) /\ Ports(r) \subseteq Ports(q) /\ Owners(r) \subseteq Owners(q)
  BY <1>1, PrunedKinds
<1>3. QED BY <1>1, <1>2 DEF Pruned

LEMMA Erased ==
  ASSUME NEW d, Shape(d), NEW e, NEW r, r = Erase(d, e)
  PROVE  Pruned(r, d, {e})
BY EraseShape DEF Pruned

\* An element goes with its ports, none of which is wired.
Bare(d, o) ==
  /\ IsInjective(d.subs[o])
  /\ \A k \in 1..Len(d.subs[o]) : d.subs[o][k] \in Ports(d) /\ d.wire[d.subs[o][k]] = None

LEMMA EraseOwnerIs ==
  ASSUME NEW d, Shape(d), NEW o \in Owners(d), Bare(d, o)
  PROVE  Pruned(EraseOwner(d, o), d, ToSet(d.subs[o]) \cup {o})
<1>0. SUFFICES
        ASSUME NEW s, s = d.subs[o], IsInjective(s),
               \A k \in 1..Len(s) : s[k] \in Ports(d) /\ d.wire[s[k]] = None,
               NEW r, r = EraseOwner(d, o)
        PROVE  Pruned(r, d, ToSet(s) \cup {o})
  BY DEF Bare
<1> USE <1>0
<1>1. s \in Seq(Nat) /\ Len(s) \in Nat /\ DOMAIN s = 1..Len(s)
  <2>1. s \in Seq(Nat)
    BY DEF Shape, Typed
  <2>2. QED BY <2>1, LenProperties
<1>2. PICK g : Sequel("erase", 0, d, s, g) /\ FoldLeft(ErasePort, d, s) = g[Len(s)]
  BY <1>1, ErasesFold
<1>3. g[0] = d /\ \A i \in 1..Len(s) : g[i] = ErasePort(g[i - 1], s[i])
  BY <1>2 DEF Sequel, Step
<1> DEFINE Gone(i) == {s[k] : k \in 1..i}
           T == {i \in 0..Len(s) : Pruned(g[i], d, Gone(i))}
<1>4. 0 \in T
  <2>1. Gone(0) = {} /\ 0 \in 0..Len(s)
    BY <1>1
  <2>2. Pruned(g[0], d, {})
    <3>1. d.ids = d.ids \ {}
      OBVIOUS
    <3>2. QED BY <1>3, <3>1 DEF Pruned
  <2> HIDE DEF Gone
  <2>3. QED BY <2>1, <2>2
<1>5. ASSUME NEW i \in 1..Len(s), i - 1 \in T PROVE i \in T
  <2> DEFINE h == g[i - 1]
  <2>1. Pruned(h, d, Gone(i - 1)) /\ Shape(h)
    BY <1>5 DEF Pruned
  <2>2. s[i] \notin Gone(i - 1)
    <3>1. SUFFICES ASSUME NEW k \in 1..(i - 1), s[k] = s[i] PROVE FALSE
      OBVIOUS
    <3>2. k \in 1..Len(s) /\ k # i
      BY <1>1
    <3>3. QED BY <1>1, <3>1, <3>2 DEF IsInjective
  <2>3. Gone(i) = Gone(i - 1) \cup {s[i]}
    <3>1. \A k \in 1..i : k \in 1..(i - 1) \/ k = i
      OBVIOUS
    <3>2. \A k \in 1..(i - 1) : k \in 1..i
      OBVIOUS
    <3>3. i \in 1..i
      OBVIOUS
    <3>4. QED BY <3>1, <3>2, <3>3
  <2> HIDE DEF Gone
  <2>4. s[i] \in Ports(h) /\ h.wire[s[i]] = None
    <3>1. s[i] \in Ports(h)
      BY <2>1, <2>2, PrunedKinds
    <3>2. QED BY <2>1, <3>1 DEF Pruned
  <2>5. g[i] = Erase(h, s[i])
    BY <1>3, <2>4 DEF ErasePort
  <2> HIDE DEF h
  <2>6. Pruned(g[i], d, Gone(i - 1) \cup {s[i]})
    <3>1. Pruned(g[i], h, {s[i]})
      BY <2>1, <2>5, Erased
    <3>2. QED BY <2>1, <3>1, PrunedTwice
  <2>7. i \in 0..Len(s)
    OBVIOUS
  <2>8. QED BY <2>3, <2>6, <2>7
<1>6. Pruned(g[Len(s)], d, Gone(Len(s)))
  <2> HIDE DEF T
  <2>1. \A i \in 0..Len(s) : i \in T
    BY <1>1, <1>4, <1>5, CountUp
  <2>2. Len(s) \in T
    BY <1>1, <2>1
  <2>3. QED BY <2>2 DEF T
<1>7. Pruned(r, g[Len(s)], {o})
  <2>1. r = Erase(g[Len(s)], o)
    BY <1>2 DEF EraseOwner
  <2>2. Shape(g[Len(s)])
    BY <1>6 DEF Pruned
  <2>3. QED BY <2>1, <2>2, Erased
<1>8. ToSet(s) = Gone(Len(s))
  BY <1>1 DEF ToSet
<1> HIDE DEF Gone
<1>9. QED BY <1>6, <1>7, <1>8, PrunedTwice

\* joinWires: the wires u and v give way to a wire between their other ends.
Joined(r, d, x, y, new) ==
  LET a == d.opp[x]
      b == d.opp[y]
      u == d.wire[x]
      v == d.wire[y]
  IN  /\ Shape(r) /\ new \in Nat \ {0} /\ new \notin d.ids
      /\ r.ids = (d.ids \cup {new}) \ {u, v}
      /\ r.cls[new] = "wire" /\ \A i \in r.ids \ {new} : r.cls[i] = d.cls[i]
      /\ r.ends[new] = <<a, b>> /\ \A w \in Wires(r) \ {new} : r.ends[w] = d.ends[w]
      /\ Ports(r) = Ports(d) /\ Owners(r) = Owners(d)
      /\ \A q \in Ports(r) : r.wire[q] = IF q \in {a, b} THEN new
                                         ELSE IF q \in {x, y} THEN None ELSE d.wire[q]
      /\ \A q \in Ports(r) \ {x, y} : r.opp[q] = IF q = a THEN b ELSE IF q = b THEN a ELSE d.opp[q]
      /\ r.owner = d.owner /\ r.subs = d.subs

\* What joinWires relies on: x and y are wired to two other ports by two wires.
Joinable(d, x, y) ==
  LET a == d.opp[x]
      b == d.opp[y]
      u == d.wire[x]
      v == d.wire[y]
  IN  /\ x # y /\ a \in Ports(d) /\ b \in Ports(d) /\ a # b /\ a \notin {x, y} /\ b \notin {x, y}
      /\ u \in Wires(d) /\ v \in Wires(d) /\ u # v
      /\ {d.ends[u][1], d.ends[u][2]} = {a, x} /\ {d.ends[v][1], d.ends[v][2]} = {b, y}

LEMMA JoinWiresIs ==
  ASSUME NEW d, Shape(d), NEW x \in Ports(d), NEW y \in Ports(d), Joinable(d, x, y)
  PROVE  \E new : Joined(JoinWires(d, x, y), d, x, y, new)
<1>0. SUFFICES
        ASSUME NEW a, NEW b, a = d.opp[x], b = d.opp[y],
               NEW u, NEW v, u = d.wire[x], v = d.wire[y],
               x # y, a \in Ports(d), b \in Ports(d), a # b, a \notin {x, y}, b \notin {x, y},
               u \in Wires(d), v \in Wires(d), u # v,
               {d.ends[u][1], d.ends[u][2]} = {a, x}, {d.ends[v][1], d.ends[v][2]} = {b, y},
               NEW r, r = JoinWires(d, x, y)
        PROVE  \E new : Joined(r, d, x, y, new)
  BY DEF Joinable
<1> USE <1>0
<1> DEFINE one == Unplug(d, u)
           two == Unplug(one, v)
           new == Alloc(two)
           made == CreateWire(two)
           half == ConnectStartPort(made, new, a)
           full == ConnectEndPort(half, new, b)
           less == Erase(full, u)
<1>1. r = Erase(less, v)
  BY DEF JoinWires
<1>2. Unplugged(one, d, u)
  BY UnplugAt
<1> HIDE DEF one
<1>3. Shape(one) /\ Wires(one) = Wires(d) /\ Ports(one) = Ports(d) /\ Owners(one) = Owners(d)
      /\ one.ends[v] = d.ends[v]
  BY <1>2, ReplugKinds DEF Unplugged
<1>4. Unplugged(two, one, v)
  BY <1>3, UnplugAt
<1> HIDE DEF two
<1>5. Shape(two) /\ Wires(two) = Wires(d) /\ Ports(two) = Ports(d) /\ Owners(two) = Owners(d)
  BY <1>3, <1>4, ReplugKinds DEF Unplugged
<1>6. two.ids = d.ids /\ two.cls = d.cls /\ two.owner = d.owner /\ two.subs = d.subs
  BY <1>2, <1>4 DEF Unplugged, Replugged
<1>7. /\ Shape(made) /\ new \in Nat \ {0} /\ new \notin two.ids /\ made.ids = two.ids \cup {new}
      /\ made.cls[new] = "wire" /\ \A i \in two.ids : made.cls[i] = two.cls[i]
      /\ \A w \in Wires(two) : made.ends[w] = two.ends[w]
      /\ made.wire = two.wire /\ made.opp = two.opp /\ made.owner = two.owner /\ made.subs = two.subs
  BY <1>5, CreateWireIs
<1> HIDE DEF new, made
<1>8. /\ Wires(made) = Wires(d) \cup {new} /\ Ports(made) = Ports(d) /\ Owners(made) = Owners(d)
      /\ new \notin Wires(d) /\ new \notin Ports(d)
  <2>1. Typed(made) /\ Typed(d)
    BY <1>7 DEF Shape
  <2>2. \A i : i \in Wires(made) <=> i \in Wires(d) \cup {new}
    BY <1>6, <1>7, <2>1, Kinds
  <2>3. \A i : i \in Ports(made) <=> i \in Ports(d)
    BY <1>6, <1>7, <2>1, Kinds
  <2>4. \A i : i \in Owners(made) <=> i \in Owners(d)
    BY <1>6, <1>7, <2>1, Kinds
  <2>5. new \notin Wires(d) /\ new \notin Ports(d)
    BY <1>6, <1>7, <2>1, Kinds
  <2>6. QED BY <2>2, <2>3, <2>4, <2>5
<1>9. StartConnected(half, made, new, a)
  BY <1>7, <1>8, ConnectStartAt
<1> HIDE DEF half
<1>10. Shape(half) /\ Wires(half) = Wires(made) /\ Ports(half) = Ports(made) /\ Owners(half) = Owners(made)
       /\ half.ends[new][1] = a /\ \A w \in Wires(d) : half.ends[w] = made.ends[w]
  BY <1>8, <1>9, ReplugKinds DEF StartConnected
<1>11. EndConnected(full, half, new, b)
  BY <1>8, <1>10, ConnectEndAt
<1> HIDE DEF full
<1>15. /\ Shape(full) /\ full.ids = d.ids \cup {new} /\ full.cls[new] = "wire"
       /\ \A i \in d.ids : full.cls[i] = d.cls[i]
       /\ full.owner = d.owner /\ full.subs = d.subs
       /\ Wires(full) = Wires(d) \cup {new} /\ Ports(full) = Ports(d) /\ Owners(full) = Owners(d)
  <2>1. full.cls = made.cls /\ full.ids = made.ids
    BY <1>9, <1>11 DEF StartConnected, EndConnected, Replugged
  <2>2. Wires(full) = Wires(made) /\ Ports(full) = Ports(made) /\ Owners(full) = Owners(made)
    BY <2>1 DEF Wires, Ports, Owners, Components, Joints, Of
  <2>3. Shape(full) /\ full.owner = d.owner /\ full.subs = d.subs
    BY <1>6, <1>7, <1>9, <1>11 DEF StartConnected, EndConnected, Replugged
  <2>4. QED BY <1>6, <1>7, <1>8, <2>1, <2>2, <2>3
<1>16. full.ends[new] = <<a, b>> /\ \A w \in Wires(d) \ {u, v} : full.ends[w] = d.ends[w]
  <2>1. full.ends[new] = <<a, b>>
    BY <1>8, <1>10, <1>11 DEF EndConnected
  <2>2. ASSUME NEW w \in Wires(d) \ {u, v} PROVE full.ends[w] = d.ends[w]
    <3>1. w # new /\ full.ends[w] = half.ends[w]
      BY <1>8, <1>10, <1>11 DEF EndConnected
    <3>2. half.ends[w] = made.ends[w] /\ made.ends[w] = two.ends[w]
      BY <1>5, <1>7, <1>10
    <3>3. two.ends[w] = one.ends[w] /\ one.ends[w] = d.ends[w]
      BY <1>2, <1>3, <1>4 DEF Unplugged
    <3>4. QED BY <3>1, <3>2, <3>3
  <2>3. QED BY <2>1, <2>2
<1>17. ASSUME NEW q \in Ports(d)
       PROVE  /\ full.wire[q] = IF q \in {a, b} THEN new
                                ELSE IF q \in {x, y} THEN None ELSE d.wire[q]
              /\ q \notin {x, y} =>
                   full.opp[q] = IF q = a THEN b ELSE IF q = b THEN a ELSE d.opp[q]
  <2>1. two.wire[q] = IF q \in {a, b, x, y} THEN None ELSE d.wire[q]
    BY <1>2, <1>3, <1>4 DEF Unplugged
  <2>2. two.opp[q] = IF q \in {a, b, x, y} THEN None ELSE d.opp[q]
    BY <1>2, <1>3, <1>4 DEF Unplugged
  <2>3. full.wire[q] = IF q \in {a, b} THEN new ELSE two.wire[q]
    BY <1>7, <1>8, <1>9, <1>10, <1>11 DEF StartConnected, EndConnected
  <2>4. full.opp[q] = IF q = a THEN b ELSE IF q = b THEN a ELSE two.opp[q]
    BY <1>7, <1>8, <1>9, <1>10, <1>11 DEF StartConnected, EndConnected
  <2>5. QED BY <2>1, <2>2, <2>3, <2>4
<1>18. Pruned(r, full, {u, v})
  <2>1. Pruned(less, full, {u})
    BY <1>15, Erased
  <2>2. Pruned(r, less, {v})
    <3>1. Shape(less)
      BY <2>1 DEF Pruned
    <3> HIDE DEF less
    <3>2. QED BY <1>1, <3>1, Erased
  <2>3. {u} \cup {v} = {u, v}
    OBVIOUS
  <2> HIDE DEF less
  <2>4. QED BY <1>15, <2>1, <2>2, <2>3, PrunedTwice
<1>19. /\ Wires(r) = (Wires(d) \cup {new}) \ {u, v} /\ Ports(r) = Ports(d) /\ Owners(r) = Owners(d)
  <2>1. u \notin Ports(d) /\ v \notin Ports(d) /\ u \notin Owners(d) /\ v \notin Owners(d)
    BY Kinds DEF Shape
  <2>2. /\ Wires(r) = Wires(full) \ {u, v} /\ Ports(r) = Ports(full) \ {u, v}
        /\ Owners(r) = Owners(full) \ {u, v}
    BY <1>15, <1>18, PrunedKinds
  <2>3. QED BY <1>15, <2>1, <2>2
<1>20. r.owner = d.owner /\ r.subs = d.subs
  <2>1. DOMAIN r.owner = Ports(d) /\ DOMAIN r.subs = Owners(d)
        /\ r.owner \in [Ports(d) -> Nat] /\ r.subs \in [Owners(d) -> Seq(Nat)]
    BY <1>18, <1>19 DEF Pruned, Shape, Typed
  <2>2. d.owner \in [Ports(d) -> Nat] /\ d.subs \in [Owners(d) -> Seq(Nat)]
    BY DEF Shape, Typed
  <2>3. \A q \in Ports(d) : r.owner[q] = d.owner[q]
    BY <1>15, <1>18, <1>19 DEF Pruned
  <2>4. \A o \in Owners(d) : r.subs[o] = d.subs[o]
    BY <1>15, <1>18, <1>19 DEF Pruned
  <2>5. r.owner = d.owner
    BY <2>1, <2>2, <2>3
  <2>6. r.subs = d.subs
    BY <2>1, <2>2, <2>4
  <2>7. QED BY <2>5, <2>6
<1>21. Shape(r) /\ r.ids = (d.ids \cup {new}) \ {u, v}
       /\ r.cls[new] = "wire" /\ \A i \in r.ids \ {new} : r.cls[i] = d.cls[i]
  <2>1. new \notin {u, v}
    BY <1>8
  <2>2. QED BY <1>15, <1>18, <2>1 DEF Pruned
<1>22. r.ends[new] = <<a, b>> /\ \A w \in Wires(r) \ {new} : r.ends[w] = d.ends[w]
  <2>1. new \in Wires(r)
    BY <1>8, <1>19
  <2>2. QED BY <1>16, <1>18, <1>19, <2>1 DEF Pruned
<1>23. \A q \in Ports(r) : r.wire[q] = IF q \in {a, b} THEN new
                                       ELSE IF q \in {x, y} THEN None ELSE d.wire[q]
  BY <1>17, <1>18, <1>19 DEF Pruned
<1>24. \A q \in Ports(r) \ {x, y} : r.opp[q] = IF q = a THEN b ELSE IF q = b THEN a ELSE d.opp[q]
  BY <1>17, <1>18, <1>19 DEF Pruned
<1>25. Joined(r, d, x, y, new)
  BY <1>6, <1>7, <1>19, <1>20, <1>21, <1>22, <1>23, <1>24 DEF Joined
<1>26. QED BY <1>25
LEMMA TwoOfThree ==
  ASSUME NEW m \in 1..3, NEW W, W = 1..3 \ {m}
  PROVE  Cardinality(W) = 2 /\ Min(W) \in W /\ Max(W) \in W /\ Min(W) # Max(W)
<1>1. Cardinality(W) = 2
  <2>1. IsFiniteSet(1..3) /\ Cardinality(1..3) = 3
    <3>1. PICK n \in Int : n = 3
      OBVIOUS
    <3>2. IsFiniteSet(1..n) /\ Cardinality(1..n) = IF 1 > n THEN 0 ELSE n - 1 + 1
      BY FS_Interval
    <3>3. QED BY <3>1, <3>2
  <2>2. QED BY <2>1, FS_RemoveElement
<1>2. \E i \in W : \A k \in W : i <= k
  BY SMT
<1>3. \E i \in W : \A k \in W : i >= k
  BY SMT
<1>4. Min(W) \in W /\ \A k \in W : Min(W) <= k
  BY <1>2 DEF Min
<1>5. Max(W) \in W /\ \A k \in W : Max(W) >= k
  BY <1>3 DEF Max
<1>6. ASSUME Min(W) = Max(W) PROVE FALSE
  <2>1. \E i \in W : \E k \in W : i # k
    OBVIOUS
  <2>2. PICK n : n = Min(W)
    OBVIOUS
  <2>3. n \in W /\ \A k \in W : n <= k /\ n >= k
    BY <1>4, <1>5, <1>6, <2>2
  <2>4. n \in Int /\ \A k \in W : k \in Int
    BY <2>3
  <2>5. \A k \in W : k = n
    BY <2>3, <2>4
  <2>6. QED BY <2>1, <2>5
<1>7. QED BY <1>1, <1>4, <1>5, <1>6

\* The joint of a loose port whose other two ports are wired is spliced.
LEMMA DisconnectJoint ==
  ASSUME NEW d, NEW X, Sound(d, X), NEW p \in Ports(d) \cap X, d.cls[p] = "jointport",
         NEW j, j = d.owner[p], \A q \in Ports(d) \cap X : d.owner[q] = j => q = p,
         NEW r, r = Disconnected(d, p)
  PROVE  \E x, y, new : Loosened(d, X, j, p, x, y) /\ Spliced(r, d, j, p, x, y, new)
<1> DEFINE s == d.subs[j]
<1>1. Shape(d) /\ Typed(d) /\ IsDoc(d) /\ Owned(d)
  BY DEF Sound, Shape, Listing
<1>2. j \in Joints(d) /\ j \in Owners(d) /\ j # None /\ p \in Nat
  <2>1. j \in Owners(d) /\ d.cls[j] # "component"
    BY <1>1 DEF Owned
  <2>2. j \in Joints(d)
    BY <1>1, <2>1, Kinds
  <2>3. j # None /\ p \in Nat
    BY <1>1, <2>2, Kinds DEF Shape, Listing, None
  <2>4. QED BY <2>1, <2>2, <2>3
<1>3. s \in Seq(Nat) /\ Len(s) = 3 /\ DOMAIN s = 1..3 /\ IsInjective(s)
      /\ \A k \in 1..3 : s[k] \in Ports(d) /\ d.owner[s[k]] = j
  <2>1. s \in Seq(Nat) /\ Len(s) = 3 /\ IsInjective(s)
    BY <1>1, <1>2 DEF Owned, Typed
  <2>2. DOMAIN s = 1..3
    BY <2>1, LenProperties
  <2>3. \A k \in 1..3 : s[k] \in Ports(d) /\ d.owner[s[k]] = j
    BY <1>1, <1>2, <2>1 DEF Owned
  <2>4. QED BY <2>1, <2>2, <2>3
<1>4. \A q \in Ports(d) : d.owner[q] = j => \E k \in 1..3 : s[k] = q
  <2>1. ASSUME NEW q \in Ports(d), d.owner[q] = j PROVE \E k \in 1..3 : s[k] = q
    <3>1. PICK k \in 1..Len(d.subs[d.owner[q]]) : d.subs[d.owner[q]][k] = q
      BY <1>1 DEF Owned
    <3>2. d.subs[d.owner[q]] = s
      BY <2>1
    <3> HIDE DEF s
    <3>3. QED BY <1>3, <3>1, <3>2
  <2> HIDE DEF s
  <2>2. QED BY <2>1
<1>5. PICK m \in 1..3 : s[m] = p
  BY <1>4
<1> DEFINE W == 1..3 \ {m}
           x == s[Min(W)]
           y == s[Max(W)]
<1>6. Cardinality(W) = 2 /\ Min(W) \in W /\ Max(W) \in W /\ Min(W) # Max(W)
  BY TwoOfThree
<1>7. /\ x \in Ports(d) \ X /\ y \in Ports(d) \ X /\ x # y /\ x # p /\ y # p
      /\ \A k \in 1..3 : s[k] \in {p, x, y}
  <2> HIDE DEF s
  <2>1. PICK i \in 1..3 : i = Min(W) /\ i # m
    BY <1>6
  <2>2. PICK n \in 1..3 : n = Max(W) /\ n # m /\ n # i
    BY <1>6, <2>1
  <2>3. x = s[i] /\ y = s[n]
    BY <2>1, <2>2
  <2> HIDE DEF W, x, y
  <2>4. x # y /\ x # p /\ y # p
    BY <1>3, <1>5, <2>1, <2>2, <2>3 DEF IsInjective
  <2>5. x \in Ports(d) \ X /\ y \in Ports(d) \ X
    BY <1>3, <2>3, <2>4
  <2>6. \A k \in 1..3 : k = m \/ k = i \/ k = n
    BY <2>1, <2>2
  <2>7. QED BY <1>5, <2>3, <2>4, <2>5, <2>6
<1>8. \A q \in Ports(d) : d.owner[q] = j <=> q \in {p, x, y}
  <2>1. d.owner[x] = j /\ d.owner[y] = j /\ d.owner[p] = j
    <3> HIDE DEF s, W
    <3>1. Min(W) \in 1..3 /\ Max(W) \in 1..3
      BY <1>6 DEF W
    <3>2. QED BY <1>3, <3>1
  <2> HIDE DEF s, x, y
  <2>2. QED BY <1>4, <1>7, <2>1
<1>9. Loosened(d, X, j, p, x, y)
  BY <1>2, <1>7, <1>8 DEF Loosened
<1> HIDE DEF x, y
<1> DEFINE wire == [d.wire EXCEPT ![p] = None]
           owner == [q \in Ports(d) |-> IF q \in {p, x, y} THEN None ELSE d.owner[q]]
           loose == [d EXCEPT !.wire[p] = None]
           bare == [elements |-> d.elements, ids |-> d.ids, cls |-> d.cls, ends |-> d.ends,
                    wire |-> wire, opp |-> d.opp, owner |-> owner, subs |-> d.subs]
<1>10. wire \in [Ports(d) -> Nat] /\ owner \in [Ports(d) -> Nat] /\ DOMAIN d.owner = Ports(d)
       /\ \A q \in Ports(d) : wire[q] = IF q = p THEN None ELSE d.wire[q]
  BY <1>1 DEF Typed, None
<1>11. loose = [elements |-> d.elements, ids |-> d.ids, cls |-> d.cls, ends |-> d.ends,
                wire |-> wire, opp |-> d.opp, owner |-> d.owner, subs |-> d.subs]
  BY <1>1 DEF IsDoc
<1>12. loose.subs = d.subs /\ loose.wire = wire /\ loose.cls = d.cls /\ loose.owner = d.owner
  BY <1>11
<1>13. bare = [loose EXCEPT !.owner = [q \in DOMAIN @ |->
                                         IF q \in ToSet(s) THEN None ELSE @[q]]]
  <2>1. ToSet(s) = {p, x, y}
    <3>1. \A q : q \in ToSet(s) => q \in {p, x, y}
      <4> HIDE DEF s
      <4>1. QED BY <1>3, <1>7 DEF ToSet
    <3>2. \A q \in {p, x, y} : q \in ToSet(s)
      <4>1. \A q \in {p, x, y} : \E k \in 1..3 : s[k] = q
        <5>1. x \in Ports(d) /\ y \in Ports(d)
          BY <1>7
        <5> HIDE DEF s
        <5>2. QED BY <1>4, <1>8, <5>1
      <4> HIDE DEF s
      <4>2. QED BY <1>3, <4>1 DEF ToSet
    <3>3. QED BY <3>1, <3>2
  <2>2. owner = [q \in DOMAIN loose.owner |-> IF q \in ToSet(s) THEN None ELSE loose.owner[q]]
    BY <1>10, <1>12, <2>1
  <2> HIDE DEF owner, wire
  <2>3. [loose EXCEPT !.owner = [q \in DOMAIN @ |-> IF q \in ToSet(s) THEN None ELSE @[q]]]
          = [loose EXCEPT !.owner = owner]
    BY <2>2
  <2>4. bare = [loose EXCEPT !.owner = owner]
    <3> HIDE DEF loose
    <3>1. QED BY <1>11
  <2> HIDE DEF bare, loose
  <2>5. QED BY <2>3, <2>4
<1> HIDE DEF loose
<1>14. {k \in DOMAIN s : loose.wire[s[k]] # None} = W
  <2>1. ASSUME NEW k \in 1..3 PROVE loose.wire[s[k]] # None <=> k # m
    <3>1. CASE k = m
      BY <1>5, <1>10, <1>12, <3>1
    <3>2. CASE k # m
      <4>1. s[k] # p
        <5> HIDE DEF s
        <5>1. QED BY <1>3, <1>5, <3>2 DEF IsInjective
      <4>2. s[k] \in Ports(d) \ X /\ d.cls[s[k]] = "jointport"
        <5>1. s[k] \in Ports(d) /\ d.owner[s[k]] = j
          BY <1>3
        <5>2. s[k] \notin X
          BY <4>1, <5>1
        <5>3. d.cls[j] = "joint"
          BY <1>1, <1>2, Kinds
        <5>4. d.cls[s[k]] # "pin"
          BY <1>1, <5>1, <5>3 DEF Owned
        <5>5. QED BY <1>1, <5>1, <5>2, <5>4, Kinds
      <4>3. d.wire[s[k]] # None
        BY <4>2 DEF Sound, Plugged
      <4> HIDE DEF s
      <4>4. QED BY <1>10, <1>12, <3>2, <4>1, <4>2, <4>3
    <3>3. QED BY <3>1, <3>2
  <2> HIDE DEF s
  <2>2. QED BY <1>3, <2>1
<1>15. r = EraseOwner(JoinWires(bare, x, y), j)
  <2>1. r = RemoveJoint(loose, j)
    BY <1>2, <1>12 DEF Disconnected, loose
  <2>2. loose.subs[j] = s
    BY <1>12
  <2>3. Cardinality({k \in DOMAIN s : loose.wire[s[k]] # None}) = 2
    BY <1>6, <1>14
  <2> HIDE DEF bare, s
  <2>4. RemoveJoint(loose, j) = EraseOwner(JoinWires(bare, s[Min(W)], s[Max(W)]), j)
    BY <1>13, <1>14, <2>2, <2>3 DEF RemoveJoint
  <2>5. QED BY <2>1, <2>4 DEF x, y, s
<1>16. /\ bare.elements = d.elements /\ bare.ids = d.ids /\ bare.cls = d.cls /\ bare.ends = d.ends
       /\ bare.wire = wire /\ bare.opp = d.opp /\ bare.owner = owner /\ bare.subs = d.subs
       /\ IsDoc(bare)
  BY DEF IsDoc
<1> HIDE DEF bare
<1>17. /\ Wires(bare) = Wires(d) /\ Ports(bare) = Ports(d) /\ Owners(bare) = Owners(d)
  BY <1>16 DEF Wires, Ports, Owners, Components, Joints, Of
<1>18. Shape(bare)
  <2>1. Listing(bare)
    BY <1>1, <1>16 DEF Shape, Listing
  <2>2. Typed(bare)
    BY <1>1, <1>10, <1>16, <1>17 DEF Typed
  <2>3. QED BY <2>1, <2>2 DEF Shape
<1> DEFINE a == d.opp[x]
           b == d.opp[y]
           u == d.wire[x]
           v == d.wire[y]
<1>19. d.cls[x] = "jointport" /\ d.cls[y] = "jointport" /\ d.owner[x] = j /\ d.owner[y] = j
  <2>1. d.cls[j] = "joint"
    BY <1>1, <1>2, Kinds
  <2>2. x \in Ports(d) /\ y \in Ports(d) /\ d.owner[x] = j /\ d.owner[y] = j
    BY <1>7, <1>8
  <2>3. d.cls[x] # "pin" /\ d.cls[y] # "pin"
    BY <1>1, <2>1, <2>2 DEF Owned
  <2>4. QED BY <1>1, <2>2, <2>3, Kinds
<1>20. /\ u \in Wires(d) /\ a \in Ports(d) \ X /\ a # x
       /\ d.wire[a] = u /\ d.opp[a] = x /\ d.owner[a] # j
       /\ {d.ends[u][1], d.ends[u][2]} = {a, x}
  BY <1>7, <1>19, Partner
<1>21. /\ v \in Wires(d) /\ b \in Ports(d) \ X /\ b # y
       /\ d.wire[b] = v /\ d.opp[b] = y /\ d.owner[b] # j
       /\ {d.ends[v][1], d.ends[v][2]} = {b, y}
  BY <1>7, <1>19, Partner
<1>22. a \notin {p, x, y} /\ b \notin {p, x, y} /\ a # b /\ u # v
  <2>1. a \notin {p, x, y} /\ b \notin {p, x, y}
    BY <1>8, <1>20, <1>21
  <2>2. a # b
    BY <1>7, <1>20, <1>21
  <2>3. u # v
    <3>1. SUFFICES ASSUME u = v PROVE FALSE
      OBVIOUS
    <3>2. {a, x} = {b, y}
      BY <1>20, <1>21, <3>1
    <3>3. QED BY <1>7, <2>1, <2>2, <3>2
  <2>4. QED BY <2>1, <2>2, <2>3
<1>23. bare.wire[x] = u /\ bare.wire[y] = v
  BY <1>7, <1>10, <1>16
<1> DEFINE e == JoinWires(bare, x, y)
<1>24. PICK new : Joined(e, bare, x, y, new)
  <2>1. a = bare.opp[x] /\ b = bare.opp[y]
        /\ {bare.ends[u][1], bare.ends[u][2]} = {a, x} /\ {bare.ends[v][1], bare.ends[v][2]} = {b, y}
    BY <1>16, <1>20, <1>21
  <2>2. x \in Ports(bare) /\ y \in Ports(bare) /\ a \in Ports(bare) /\ b \in Ports(bare)
        /\ u \in Wires(bare) /\ v \in Wires(bare) /\ a \notin {x, y} /\ b \notin {x, y}
    BY <1>7, <1>17, <1>20, <1>21, <1>22
  <2> HIDE DEF a, b, u, v
  <2>3. Joinable(bare, x, y)
    BY <1>7, <1>22, <1>23, <2>1, <2>2 DEF Joinable
  <2>4. QED BY <1>18, <2>2, <2>3, JoinWiresIs
<1>25. /\ Shape(e) /\ new \in Nat \ {0} /\ new \notin d.ids /\ e.ids = (d.ids \cup {new}) \ {u, v}
       /\ e.cls[new] = "wire" /\ \A i \in e.ids \ {new} : e.cls[i] = d.cls[i]
       /\ e.ends[new] = <<a, b>> /\ \A w \in Wires(e) \ {new} : e.ends[w] = d.ends[w]
       /\ Ports(e) = Ports(d) /\ Owners(e) = Owners(d)
       /\ \A q \in Ports(d) : e.wire[q] = IF q \in {a, b} THEN new
                                          ELSE IF q \in {p, x, y} THEN None ELSE d.wire[q]
       /\ \A q \in Ports(d) \ {x, y} : e.opp[q] = IF q = a THEN b ELSE IF q = b THEN a ELSE d.opp[q]
       /\ e.owner = owner /\ e.subs = d.subs
  <2>1. /\ Shape(e) /\ new \in Nat \ {0} /\ new \notin d.ids /\ e.ids = (d.ids \cup {new}) \ {u, v}
        /\ e.cls[new] = "wire" /\ \A i \in e.ids \ {new} : e.cls[i] = d.cls[i]
    BY <1>16, <1>23, <1>24 DEF Joined
  <2>2. /\ e.ends[new] = <<a, b>> /\ \A w \in Wires(e) \ {new} : e.ends[w] = d.ends[w]
        /\ Ports(e) = Ports(d) /\ Owners(e) = Owners(d) /\ e.owner = owner /\ e.subs = d.subs
    BY <1>16, <1>17, <1>24 DEF Joined
  <2>3. \A q \in Ports(d) : e.wire[q] = IF q \in {a, b} THEN new
                                        ELSE IF q \in {x, y} THEN None ELSE wire[q]
    BY <1>16, <1>17, <1>24 DEF Joined
  <2>4. \A q \in Ports(d) \ {x, y} : e.opp[q] = IF q = a THEN b ELSE IF q = b THEN a ELSE d.opp[q]
    BY <1>16, <1>17, <1>24 DEF Joined
  <2> HIDE DEF e, wire, owner, a, b, u, v
  <2>5. QED BY <1>10, <1>22, <2>1, <2>2, <2>3, <2>4
<1>26. Pruned(r, e, {p, x, y} \cup {j})
  <2>1. ToSet(s) = {p, x, y}
    <3> HIDE DEF s
    <3>1. ToSet(s) = {s[k] : k \in 1..3}
      BY <1>3 DEF ToSet
    <3>2. x \in Ports(d) /\ y \in Ports(d)
      BY <1>7
    <3>3. \A q \in {p, x, y} : \E k \in 1..3 : s[k] = q
      BY <1>4, <1>8, <3>2
    <3>4. QED BY <1>7, <3>1, <3>3
  <2>2. j \in Owners(e) /\ s = e.subs[j] /\ r = EraseOwner(e, j)
    BY <1>2, <1>15, <1>25
  <2>3. \A k \in 1..Len(s) : s[k] \in Ports(e) /\ e.wire[s[k]] = None
    <3> HIDE DEF s, e, a, b, owner
    <3>1. QED BY <1>3, <1>7, <1>22, <1>25
  <2> HIDE DEF s, e
  <2>4. Bare(e, j)
    BY <1>3, <2>2, <2>3 DEF Bare
  <2>5. Shape(e)
    BY <1>25
  <2>6. Pruned(EraseOwner(e, j), e, ToSet(e.subs[j]) \cup {j})
    BY <2>2, <2>4, <2>5, EraseOwnerIs
  <2>7. QED BY <2>1, <2>2, <2>6
<1> HIDE DEF e
<1>27. Wires(r) \subseteq Wires(e) /\ Ports(r) = Ports(d) \ {p, x, y} /\ Owners(r) \subseteq Owners(d)
  <2>1. j \notin Ports(d)
    BY <1>1, <1>2, Kinds
  <2> HIDE DEF owner, a, b, u, v
  <2>2. Wires(r) = Wires(e) \ ({p, x, y} \cup {j}) /\ Ports(r) = Ports(e) \ ({p, x, y} \cup {j})
        /\ Owners(r) = Owners(e) \ ({p, x, y} \cup {j})
    BY <1>25, <1>26, PrunedKinds
  <2>3. QED BY <1>25, <2>1, <2>2
<1>28. Spliced(r, d, j, p, x, y, new)
  <2> HIDE DEF owner, a, b, u, v
  <2>1. Shape(r) /\ r.ids = (d.ids \cup {new}) \ {u, v, j, p, x, y}
    BY <1>25, <1>26 DEF Pruned
  <2>2. r.cls[new] = "wire" /\ \A i \in r.ids \ {new} : r.cls[i] = d.cls[i]
    <3>1. new \notin {p, x, y} \cup {j} /\ new \in e.ids
      <4>1. p \in d.ids /\ x \in d.ids /\ y \in d.ids /\ j \in d.ids /\ u \in d.ids /\ v \in d.ids
        BY <1>1, <1>2, <1>7, <1>20, <1>21, Kinds
      <4>2. QED BY <1>25, <4>1
    <3>2. new \in r.ids
      BY <1>26, <3>1 DEF Pruned
    <3>3. QED BY <1>25, <1>26, <3>2 DEF Pruned
  <2>3. r.ends[new] = <<a, b>> /\ \A w \in Wires(r) \ {new} : r.ends[w] = d.ends[w]
    <3>1. new \in Wires(r)
      <4>1. new \in r.ids
        <5>1. p \in d.ids /\ x \in d.ids /\ y \in d.ids /\ j \in d.ids /\ u \in d.ids /\ v \in d.ids
          BY <1>1, <1>2, <1>7, <1>20, <1>21, Kinds
        <5>2. QED BY <1>25, <2>1, <5>1
      <4>2. QED BY <2>1, <2>2, <4>1, Kinds DEF Shape
    <3>2. QED BY <1>25, <1>26, <1>27, <3>1 DEF Pruned
  <2>4. \A q \in Ports(r) : r.wire[q] = IF q \in {a, b} THEN new ELSE d.wire[q]
    BY <1>25, <1>26, <1>27 DEF Pruned
  <2>5. \A q \in Ports(r) : r.opp[q] = IF q = a THEN b ELSE IF q = b THEN a ELSE d.opp[q]
    BY <1>25, <1>26, <1>27 DEF Pruned
  <2>6. \A q \in Ports(r) : r.owner[q] = d.owner[q]
    BY <1>25, <1>26, <1>27 DEF Pruned, owner
  <2>7. \A o \in Owners(r) : r.subs[o] = d.subs[o]
    BY <1>25, <1>26, <1>27 DEF Pruned
  <2>8. new \in Nat \ {0} /\ new \notin d.ids
    BY <1>25
  <2>9. QED BY <2>1, <2>2, <2>3, <2>4, <2>5, <2>6, <2>7, <2>8 DEF Spliced, a, b, u, v
<1>29. QED BY <1>9, <1>28

-----------------------------------------------------------------------------
(* Deleting a wire.                                                        *)

Pins(d) == Of(d, {"pin"})
Open(d) == {h \in Wires(d) : d.ends[h][2] = None}

\* Deleting wires leaves components and pins alone, wires no free pin and leaves no
\* further wire without an end.
Frame(r, d) ==
  /\ Components(r) = Components(d) /\ \A c \in Components(d) : r.subs[c] = d.subs[c]
  /\ Pins(r) = Pins(d)
  /\ \A p \in Pins(d) : r.owner[p] = d.owner[p] /\ (d.wire[p] = None => r.wire[p] = None)
  /\ \A h \in Open(r) : h \in Open(d) /\ r.ends[h] = d.ends[h]

OpenKept(r, d, H) == \A h \in H : h \in Open(r) /\ r.ends[h] = d.ends[h]

LEMMA FrameTwice ==
  ASSUME NEW d, NEW q, NEW r, Frame(q, d), Frame(r, q)
  PROVE  Frame(r, d)
BY DEF Frame

LEMMA PinKinds ==
  ASSUME NEW d, Typed(d)
  PROVE  /\ \A x : x \in Pins(d) <=> x \in d.ids /\ d.cls[x] = "pin"
         /\ Pins(d) \subseteq Ports(d)
BY DEF Typed, Pins, Ports, Of

LEMMA SpliceFrame ==
  ASSUME NEW d, NEW X, NEW j, NEW p, NEW x, NEW y, NEW new, NEW r,
         Loosened(d, X, j, p, x, y), Spliced(r, d, j, p, x, y, new)
  PROVE  /\ Frame(r, d) /\ OpenKept(r, d, Open(d))
         /\ \A q \in Ports(d) \cap X : q # p =>
              q \in Ports(r) /\ r.cls[q] = d.cls[q] /\ r.owner[q] = d.owner[q]
<1> DEFINE a == d.opp[x]
           b == d.opp[y]
           u == d.wire[x]
           v == d.wire[y]
<1>1. /\ a \in Ports(r) \ X /\ b \in Ports(r) \ X /\ a # b
      /\ a \notin {p, x, y} /\ b \notin {p, x, y}
      /\ d.wire[a] = u /\ d.wire[b] = v /\ d.opp[a] = x /\ d.opp[b] = y
      /\ u \in Wires(d) /\ v \in Wires(d) /\ u # v
      /\ {d.ends[u][1], d.ends[u][2]} = {a, x} /\ {d.ends[v][1], d.ends[v][2]} = {b, y}
      /\ Wires(r) = (Wires(d) \cup {new}) \ {u, v} /\ Ports(r) = Ports(d) \ {p, x, y}
      /\ Joints(r) = Joints(d) \ {j} /\ Components(r) = Components(d)
      /\ Owners(r) = Owners(d) \ {j}
  BY SplicedIs
<1>2. /\ r.ends[new] = <<a, b>> /\ \A w \in Wires(r) \ {new} : r.ends[w] = d.ends[w]
      /\ \A q \in Ports(r) : r.wire[q] = IF q \in {a, b} THEN new ELSE d.wire[q]
      /\ \A q \in Ports(r) : r.owner[q] = d.owner[q]
      /\ \A o \in Owners(r) : r.subs[o] = d.subs[o]
      /\ new \notin d.ids /\ \A i \in r.ids \ {new} : r.cls[i] = d.cls[i]
  BY DEF Spliced
<1>3. /\ Shape(d) /\ Typed(d) /\ Typed(r) /\ j \in Joints(d) /\ p \in X
      /\ x \in Ports(d) \ X /\ y \in Ports(d) \ X /\ p \in Ports(d) /\ Owned(d) /\ Plugged(d, X)
      /\ \A q \in Ports(d) : d.owner[q] = j <=> q \in {p, x, y}
  BY DEF Loosened, Sound, Spliced, Shape
<1> HIDE DEF a, b, u, v
<1>4. \A q \in Ports(r) : q \in Ports(d) /\ q \notin {p, x, y} /\ r.cls[q] = d.cls[q]
  BY <1>1, <1>2, <1>3, Kinds
<1>5. None \notin Wires(d) /\ None \notin Ports(d) /\ new \notin Wires(d)
  BY <1>2, <1>3, Kinds DEF Shape, Listing, None
<1>6. Pins(r) = Pins(d)
  <2>1. ASSUME NEW q \in Pins(r) PROVE q \in Pins(d)
    <3>1. q \in Ports(r) /\ r.cls[q] = "pin"
      BY <1>3, <2>1, PinKinds
    <3>2. q \in Ports(d) /\ d.cls[q] = "pin"
      BY <1>4, <3>1
    <3>3. q \in d.ids
      BY <1>3, <3>2, Kinds
    <3>4. QED BY <1>3, <3>2, <3>3, PinKinds
  <2>2. ASSUME NEW q \in Pins(d) PROVE q \in Pins(r)
    <3>1. q \in Ports(d) /\ d.cls[q] = "pin"
      BY <1>3, <2>2, PinKinds
    <3>2. d.cls[j] = "joint"
      BY <1>3, Kinds
    <3>3. q \notin {p, x, y}
      BY <1>3, <3>1, <3>2 DEF Owned
    <3>4. q \in Ports(r) /\ r.cls[q] = "pin"
      BY <1>1, <1>4, <3>1, <3>3
    <3>5. QED BY <1>3, <3>4, Kinds, PinKinds
  <2>3. QED BY <2>1, <2>2
<1>7. ASSUME NEW q \in Pins(d)
      PROVE  r.owner[q] = d.owner[q] /\ (d.wire[q] = None => r.wire[q] = None)
  <2>1. q \in Ports(r)
    BY <1>3, <1>6, PinKinds
  <2>2. d.wire[q] = None => q # a /\ q # b
    BY <1>1, <1>5
  <2>3. QED BY <1>2, <2>1, <2>2
<1>8. \A c \in Components(d) : r.subs[c] = d.subs[c]
  BY <1>1, <1>2 DEF Owners
<1>9. ASSUME NEW h \in Open(r) PROVE h \in Open(d) /\ r.ends[h] = d.ends[h]
  <2>1. h \in Wires(r) /\ r.ends[h][2] = None
    BY DEF Open
  <2>2. h # new
    BY <1>1, <1>2, <1>3, <1>5, <2>1
  <2>3. h \in Wires(d) /\ r.ends[h] = d.ends[h]
    BY <1>1, <1>2, <2>1, <2>2
  <2>4. QED BY <2>1, <2>3 DEF Open
<1>10. ASSUME NEW h \in Open(d) PROVE h \in Open(r) /\ r.ends[h] = d.ends[h]
  <2>1. h \in Wires(d) /\ d.ends[h][2] = None
    BY DEF Open
  <2>2. h # u /\ h # v
    BY <1>1, <1>3, <1>5, <2>1
  <2>3. h \in Wires(r) \ {new}
    BY <1>1, <1>5, <2>1, <2>2
  <2>4. QED BY <1>2, <2>1, <2>3 DEF Open
<1>11. ASSUME NEW q \in Ports(d) \cap X, q # p
       PROVE  q \in Ports(r) /\ r.cls[q] = d.cls[q] /\ r.owner[q] = d.owner[q]
  <2>1. q \in Ports(r)
    BY <1>1, <1>3, <1>11
  <2>2. QED BY <1>2, <1>4, <2>1
<1>12. QED
  BY <1>1, <1>6, <1>7, <1>8, <1>9, <1>10, <1>11 DEF Frame, OpenKept

\* A port p that is loose gets free, or its joint goes.
PortFreed(r, d, X, p) ==
  /\ Sound(r, X \ {p}) /\ Frame(r, d) /\ OpenKept(r, d, Open(d))
  /\ \A q \in Ports(d) \cap X : q # p =>
       q \in Ports(r) /\ r.cls[q] = d.cls[q] /\ r.owner[q] = d.owner[q]
  /\ d.cls[p] = "pin" => r.wire[p] = None

LEMMA DisconnectedIs ==
  ASSUME NEW d, NEW X, Sound(d, X), NEW p \in Ports(d) \cap X,
         d.cls[p] = "jointport" => \A q \in Ports(d) \cap X : d.owner[q] = d.owner[p] => q = p
  PROVE  PortFreed(Disconnected(d, p), d, X, p)
<1> DEFINE r == Disconnected(d, p)
           j == d.owner[p]
<1>1. Shape(d) /\ Typed(d) /\ IsDoc(d) /\ Owned(d) /\ Plugged(d, X) /\ Forest(d, X)
  BY DEF Sound, Shape, Listing
<1>2. CASE d.cls[p] = "jointport"
  <2>1. \A q \in Ports(d) \cap X : d.owner[q] = j => q = p
    BY <1>2
  <2>2. r = Disconnected(d, p) /\ j = d.owner[p]
    OBVIOUS
  <2> HIDE DEF r, j
  <2>3. PICK x, y, new : Loosened(d, X, j, p, x, y) /\ Spliced(r, d, j, p, x, y, new)
    BY <1>2, <2>1, <2>2, DisconnectJoint
  <2>4. Sound(r, X \ {p})
    BY <2>3, SpliceSound
  <2>5. /\ Frame(r, d) /\ OpenKept(r, d, Open(d))
        /\ \A q \in Ports(d) \cap X : q # p =>
             q \in Ports(r) /\ r.cls[q] = d.cls[q] /\ r.owner[q] = d.owner[q]
    BY <2>3, SpliceFrame
  <2>6. QED BY <1>2, <2>2, <2>4, <2>5 DEF PortFreed
<1>3. CASE d.cls[p] = "pin"
  <2> DEFINE wire == [d.wire EXCEPT ![p] = None]
  <2>1. wire \in [Ports(d) -> Nat] /\ \A q \in Ports(d) : wire[q] = IF q = p THEN None ELSE d.wire[q]
    BY <1>1 DEF Typed, None
  <2>2. r = [elements |-> d.elements, ids |-> d.ids, cls |-> d.cls, ends |-> d.ends,
             wire |-> wire, opp |-> d.opp, owner |-> d.owner, subs |-> d.subs]
    BY <1>1, <1>3 DEF Disconnected, IsDoc
  <2>3. d.ends \in [Wires(d) -> Nat \X Nat] /\ d.opp \in [Ports(d) -> Nat]
    BY <1>1 DEF Typed
  <2> HIDE DEF r, wire
  <2>4. Replugged(r, d) /\ r.ends = d.ends /\ r.wire = wire /\ r.opp = d.opp
    BY <1>1, <2>1, <2>2, <2>3, Replug
  <2>5. /\ Shape(r) /\ Wires(r) = Wires(d) /\ Ports(r) = Ports(d) /\ Owners(r) = Owners(d)
        /\ Joints(r) = Joints(d) /\ Components(r) = Components(d)
        /\ r.cls = d.cls /\ r.owner = d.owner /\ r.subs = d.subs /\ r.ids = d.ids
    BY <2>4, ReplugKinds DEF Replugged
  <2>6. Owned(r)
    BY <1>1, <2>5 DEF Owned
  <2>7. Plugged(r, X \ {p})
    <3>1. ASSUME NEW w \in Wires(r), NEW s, s = r.ends[w][1], NEW e, e = r.ends[w][2]
          PROVE  /\ s \in Ports(r) \ (X \ {p}) /\ r.wire[s] = w
                 /\ e = None => r.cls[s] = "pin"
                 /\ e # None => /\ e \in Ports(r) \ (X \ {p}) /\ e # s /\ r.wire[e] = w
                                /\ r.opp[s] = e /\ r.opp[e] = s
      <4>1. /\ s \in Ports(d) \ X /\ d.wire[s] = w
            /\ e = None => d.cls[s] = "pin"
            /\ e # None => /\ e \in Ports(d) \ X /\ e # s /\ d.wire[e] = w
                           /\ d.opp[s] = e /\ d.opp[e] = s
        BY <1>1, <2>4, <2>5, <3>1 DEF Plugged
      <4>2. QED BY <2>1, <2>4, <2>5, <4>1
    <3>2. ASSUME NEW q \in Ports(r) \ (X \ {p})
          PROVE  /\ r.wire[q] # None => /\ r.wire[q] \in Wires(r)
                                        /\ q \in {r.ends[r.wire[q]][1], r.ends[r.wire[q]][2]}
                 /\ r.cls[q] = "jointport" => r.wire[q] # None
      <4>1. CASE q = p
        BY <1>3, <2>1, <2>4, <2>5, <4>1
      <4>2. CASE q # p
        <5>1. q \in Ports(d) \ X /\ r.wire[q] = d.wire[q]
          BY <2>1, <2>4, <2>5, <4>2
        <5>2. /\ d.wire[q] # None => /\ d.wire[q] \in Wires(d)
                                     /\ q \in {d.ends[d.wire[q]][1], d.ends[d.wire[q]][2]}
              /\ d.cls[q] = "jointport" => d.wire[q] # None
          BY <1>1, <5>1 DEF Plugged
        <5>3. QED BY <2>4, <2>5, <5>1, <5>2
      <4>3. QED BY <4>1, <4>2
    <3>3. QED BY <3>1, <3>2 DEF Plugged
  <2>8. Forest(r, X \ {p})
    <3>1. SUFFICES ASSUME NEW J \in SUBSET Joints(d), J # {}
                   PROVE  \E i \in J : Leaf(r, X \ {p}, J, i)
      BY <2>5 DEF Forest
    <3>2. PICK i \in J : Leaf(d, X, J, i)
      BY <1>1, <3>1 DEF Forest
    <3>3. d.owner[p] # i
      <4>1. d.cls[i] = "joint"
        BY <1>1, <3>1, Kinds
      <4>2. d.cls[d.owner[p]] = "component"
        BY <1>1, <1>3 DEF Owned
      <4>3. QED BY <4>1, <4>2
    <3>4. Leaf(r, X \ {p}, J, i)
      BY <2>4, <2>5, <3>2, <3>3 DEF Leaf
    <3>5. QED BY <3>4
  <2>9. Frame(r, d)
    <3>1. Pins(r) = Pins(d) /\ Open(r) = Open(d)
      BY <2>4, <2>5 DEF Pins, Open, Of
    <3>2. \A q \in Pins(d) : q \in Ports(d)
      BY <1>1, PinKinds
    <3>3. QED BY <2>1, <2>4, <2>5, <3>1, <3>2 DEF Frame
  <2>10. OpenKept(r, d, Open(d))
    BY <2>4, <2>5 DEF OpenKept, Open
  <2>11. r.wire[p] = None
    BY <2>1, <2>4
  <2>12. QED BY <2>5, <2>6, <2>7, <2>8, <2>9, <2>10, <2>11 DEF PortFreed, Sound, r
<1>4. QED BY <1>1, <1>2, <1>3, Kinds

\* A wire out of the list leaves the ports at its ends loose.
LEMMA CutWire ==
  ASSUME NEW d, Sound(d, {}), NEW w \in Wires(d), NEW r, r = Erase(d, w),
         NEW s, s = d.ends[w][1], NEW e, e = d.ends[w][2]
  PROVE  /\ Sound(r, {s, e}) /\ Frame(r, d) /\ OpenKept(r, d, Open(d) \ {w}) /\ w \notin Open(r)
         /\ s \in Ports(r) /\ (e # None => e \in Ports(r) /\ e # s)
         /\ r.cls[s] = "jointport" => e # None /\ r.owner[e] # r.owner[s]
         /\ \A p \in Pins(d) : d.wire[p] = w => p \in {s, e}
<1>1. Shape(d) /\ Typed(d) /\ Owned(d) /\ Plugged(d, {}) /\ Forest(d, {})
  BY DEF Sound, Shape
<1>2. Pruned(r, d, {w})
  BY <1>1, Erased
<1>3. w \notin Ports(d) /\ w \notin Owners(d) /\ w \notin Joints(d) /\ w \notin Components(d)
  BY <1>1, Kinds
<1>4. /\ Wires(r) = Wires(d) \ {w} /\ Ports(r) = Ports(d) /\ Owners(r) = Owners(d)
      /\ Joints(r) = Joints(d) /\ Components(r) = Components(d)
  <2>1. /\ Wires(r) = Wires(d) \ {w} /\ Ports(r) = Ports(d) \ {w} /\ Owners(r) = Owners(d) \ {w}
        /\ Joints(r) = Joints(d) \ {w} /\ Components(r) = Components(d) \ {w}
    BY <1>1, <1>2, PrunedKinds
  <2>2. \A X : w \notin X => X \ {w} = X
    OBVIOUS
  <2>3. QED BY <1>3, <2>1, <2>2
<1>5. /\ Shape(r) /\ Typed(r) /\ \A x \in r.ids : r.cls[x] = d.cls[x]
      /\ \A x \in Wires(r) : r.ends[x] = d.ends[x]
      /\ \A x \in Ports(r) : r.wire[x] = d.wire[x] /\ r.opp[x] = d.opp[x] /\ r.owner[x] = d.owner[x]
      /\ \A x \in Owners(r) : r.subs[x] = d.subs[x]
  BY <1>2 DEF Pruned, Shape
<1>6. \A q \in Ports(d) \cup Owners(d) : r.cls[q] = d.cls[q]
  BY <1>4, <1>5, Kinds
<1>7. Owned(r)
  <2>1. Joints(d) \subseteq Owners(d)
    BY DEF Owners
  <2>2. ASSUME NEW o \in Owners(d)
        PROVE  /\ IsInjective(r.subs[o])
               /\ \A k \in 1..Len(r.subs[o]) : r.subs[o][k] \in Ports(d) /\ r.owner[r.subs[o][k]] = o
    <3>1. r.subs[o] = d.subs[o] /\ IsInjective(d.subs[o])
      BY <1>1, <1>4, <1>5 DEF Owned
    <3>2. \A k \in 1..Len(d.subs[o]) : d.subs[o][k] \in Ports(d) /\ d.owner[d.subs[o][k]] = o
      BY <1>1 DEF Owned
    <3>3. QED BY <1>4, <1>5, <3>1, <3>2
  <2>3. ASSUME NEW p \in Ports(d)
        PROVE  /\ r.owner[p] \in Owners(d)
               /\ \E k \in 1..Len(r.subs[r.owner[p]]) : r.subs[r.owner[p]][k] = p
               /\ r.cls[p] = "pin" <=> r.cls[r.owner[p]] = "component"
    <3>1. d.owner[p] \in Owners(d) /\ \E k \in 1..Len(d.subs[d.owner[p]]) : d.subs[d.owner[p]][k] = p
      BY <1>1 DEF Owned
    <3>2. d.cls[p] = "pin" <=> d.cls[d.owner[p]] = "component"
      BY <1>1 DEF Owned
    <3>3. r.owner[p] = d.owner[p] /\ r.subs[d.owner[p]] = d.subs[d.owner[p]]
      BY <1>4, <1>5, <3>1
    <3>4. r.cls[p] = d.cls[p] /\ r.cls[d.owner[p]] = d.cls[d.owner[p]]
      BY <1>6, <3>1
    <3>5. QED BY <3>1, <3>2, <3>3, <3>4
  <2>4. \A i \in Joints(d) : Len(r.subs[i]) = 3
    BY <1>1, <1>4, <1>5, <2>1 DEF Owned
  <2>5. QED BY <1>4, <2>2, <2>3, <2>4 DEF Owned
<1>8. /\ s \in Ports(d) /\ d.wire[s] = w
      /\ e = None => d.cls[s] = "pin"
      /\ e # None => e \in Ports(d) /\ e # s /\ d.wire[e] = w /\ d.opp[s] = e /\ d.opp[e] = s
  BY <1>1 DEF Plugged
<1>9. Plugged(r, {s, e})
  <2>1. ASSUME NEW x \in Wires(r), NEW p, p = r.ends[x][1], NEW q, q = r.ends[x][2]
        PROVE  /\ p \in Ports(r) \ {s, e} /\ r.wire[p] = x
               /\ q = None => r.cls[p] = "pin"
               /\ q # None => /\ q \in Ports(r) \ {s, e} /\ q # p /\ r.wire[q] = x
                              /\ r.opp[p] = q /\ r.opp[q] = p
    <3>1. x \in Wires(d) /\ x # w /\ p = d.ends[x][1] /\ q = d.ends[x][2]
      BY <1>4, <1>5, <2>1
    <3>2. /\ p \in Ports(d) /\ d.wire[p] = x
          /\ q = None => d.cls[p] = "pin"
          /\ q # None => /\ q \in Ports(d) /\ q # p /\ d.wire[q] = x
                         /\ d.opp[p] = q /\ d.opp[q] = p
      BY <1>1, <3>1 DEF Plugged
    <3>3. p # s /\ p # e
      <4>1. e \in Ports(d) => d.wire[e] = w
        BY <1>1, <1>8, Kinds DEF Shape, Listing, None
      <4>2. QED BY <1>8, <3>1, <3>2, <4>1
    <3>4. q # None => q # s /\ q # e
      BY <1>8, <3>1, <3>2
    <3>5. QED BY <1>4, <1>5, <1>6, <3>2, <3>3, <3>4
  <2>2. ASSUME NEW p \in Ports(r) \ {s, e}
        PROVE  /\ r.wire[p] # None => /\ r.wire[p] \in Wires(r)
                                      /\ p \in {r.ends[r.wire[p]][1], r.ends[r.wire[p]][2]}
               /\ r.cls[p] = "jointport" => r.wire[p] # None
    <3>1. p \in Ports(d) /\ r.wire[p] = d.wire[p] /\ r.cls[p] = d.cls[p]
      BY <1>4, <1>5, <1>6
    <3>2. /\ d.wire[p] # None => /\ d.wire[p] \in Wires(d)
                                 /\ p \in {d.ends[d.wire[p]][1], d.ends[d.wire[p]][2]}
          /\ d.cls[p] = "jointport" => d.wire[p] # None
      BY <1>1, <3>1 DEF Plugged
    <3>3. d.wire[p] # None => d.wire[p] # w
      BY <2>2, <3>2
    <3>4. QED BY <1>4, <1>5, <3>1, <3>2, <3>3
  <2>3. QED BY <2>1, <2>2 DEF Plugged
<1>10. Forest(r, {s, e})
  <2>1. SUFFICES ASSUME NEW J \in SUBSET Joints(d), J # {}
                 PROVE  \E i \in J : Leaf(r, {s, e}, J, i)
    BY <1>4 DEF Forest
  <2>2. PICK i \in J : Leaf(d, {}, J, i)
    BY <1>1, <2>1 DEF Forest
  <2>3. ASSUME NEW q \in Ports(r) \ {s, e}, r.owner[q] = i, r.owner[r.opp[q]] \in J
        PROVE  q \in Ports(d) \ {} /\ d.owner[q] = i /\ d.owner[d.opp[q]] \in J
    <3>1. q \in Ports(d) \ {} /\ d.owner[q] = i /\ r.opp[q] = d.opp[q]
      BY <1>4, <1>5, <2>3
    <3>2. d.cls[q] = "jointport"
      <4>1. d.cls[i] = "joint"
        BY <1>1, <2>1, Kinds
      <4>2. d.cls[q] # "pin"
        BY <1>1, <3>1, <4>1 DEF Owned
      <4>3. QED BY <1>1, <3>1, <4>2, Kinds
    <3>3. d.opp[q] \in Ports(d)
      <4>1. d.opp[q] \in Ports(d) \ {}
        BY <3>1, <3>2, Partner
      <4>2. QED BY <4>1
    <3>4. QED BY <1>4, <1>5, <2>3, <3>1, <3>3
  <2>4. Leaf(r, {s, e}, J, i)
    BY <2>2, <2>3 DEF Leaf
  <2>5. QED BY <2>4
<1>11. Frame(r, d) /\ OpenKept(r, d, Open(d) \ {w}) /\ w \notin Open(r)
  <2>1. Pins(r) = Pins(d) /\ Pins(d) \subseteq Ports(d)
    <3>1. \A p : p \in Pins(r) <=> p \in Pins(d)
      BY <1>1, <1>4, <1>5, <1>6, Kinds, PinKinds
    <3>2. QED BY <1>1, <3>1, PinKinds
  <2>2. Components(d) \subseteq Owners(d)
    BY DEF Owners
  <2>3. \A h \in Open(r) : h \in Open(d) /\ r.ends[h] = d.ends[h]
    BY <1>4, <1>5 DEF Open
  <2>4. \A h \in Open(d) \ {w} : h \in Open(r) /\ r.ends[h] = d.ends[h]
    BY <1>4, <1>5 DEF Open
  <2>5. w \notin Open(r)
    BY <1>4 DEF Open
  <2>6. QED BY <1>4, <1>5, <2>1, <2>2, <2>3, <2>4, <2>5 DEF Frame, OpenKept
<1>12. r.cls[s] = "jointport" => e # None /\ r.owner[e] # r.owner[s]
  <2>1. SUFFICES ASSUME d.cls[s] = "jointport" PROVE e # None /\ r.owner[e] # r.owner[s]
    BY <1>6, <1>8
  <2>2. e # None
    BY <1>8, <2>1
  <2>3. s \in Ports(d) \ {} /\ e = d.opp[s]
    BY <1>8, <2>2
  <2>4. d.owner[e] # d.owner[s]
    BY <2>1, <2>3, Partner
  <2>5. QED BY <1>4, <1>5, <1>8, <2>2, <2>4
<1>13. \A p \in Pins(d) : d.wire[p] = w => p \in {s, e}
  <2>1. \A p \in Pins(d) : p \in Ports(d)
    BY <1>1, PinKinds
  <2>2. w # None
    BY <1>1, Kinds DEF Shape, Listing, None
  <2>3. QED BY <1>1, <2>1, <2>2 DEF Plugged
<1>14. QED
  BY <1>4, <1>5, <1>7, <1>8, <1>9, <1>10, <1>11, <1>12, <1>13 DEF Sound

\* ReleaseWire keeps a document sound.
WireReleased(r, d, w) ==
  /\ Sound(r, {}) /\ Frame(r, d) /\ OpenKept(r, d, Open(d) \ {w}) /\ w \notin Open(r)
  /\ \A p \in Pins(d) : d.wire[p] = w => r.wire[p] = None

LEMMA NoneLoose ==
  ASSUME NEW d, NEW X, Sound(d, X), X \cap Ports(d) = {}
  PROVE  Sound(d, {})
<1>1. Ports(d) \ X = Ports(d) \ {}
  OBVIOUS
<1>2. Plugged(d, {})
  <2>1. Plugged(d, X)
    BY DEF Sound
  <2>2. QED BY <1>1, <2>1, Zenon DEF Plugged
<1>3. Forest(d, {})
  <2>1. Forest(d, X)
    BY DEF Sound
  <2>2. QED BY <1>1, <2>1, Zenon DEF Forest, Leaf
<1>4. QED BY <1>2, <1>3 DEF Sound

LEMMA ReleaseWireIs ==
  ASSUME NEW d, Sound(d, {}), NEW w \in Wires(d)
  PROVE  WireReleased(ReleaseWire(d, w), d, w)
<1>0. SUFFICES ASSUME NEW s, s = d.ends[w][1], NEW e, e = d.ends[w][2],
                      NEW cut, cut = Erase(d, w), NEW started, started = Disconnected(cut, s),
                      NEW r, r = IF e = None THEN started ELSE Disconnected(started, e)
               PROVE  WireReleased(r, d, w)
  BY DEF ReleaseWire
<1>1. /\ Sound(cut, {s, e}) /\ Frame(cut, d) /\ OpenKept(cut, d, Open(d) \ {w}) /\ w \notin Open(cut)
      /\ s \in Ports(cut) /\ (e # None => e \in Ports(cut) /\ e # s)
      /\ cut.cls[s] = "jointport" => e # None /\ cut.owner[e] # cut.owner[s]
      /\ \A p \in Pins(d) : d.wire[p] = w => p \in {s, e}
  <2>1. cut = Erase(d, w) /\ s = d.ends[w][1] /\ e = d.ends[w][2]
    BY <1>0
  <2>2. QED BY <2>1, CutWire
<1>2. None \notin Ports(cut) /\ None \notin Pins(d)
  <2>1. None \notin Ports(cut)
    BY <1>1, Kinds DEF Sound, Shape, Listing, None
  <2>2. None \notin Pins(d)
    BY PinKinds DEF Sound, Shape, Listing, None
  <2>3. QED BY <2>1, <2>2
<1>3. PortFreed(started, cut, {s, e}, s)
  <2>1. cut.cls[s] = "jointport" =>
          \A q \in Ports(cut) \cap {s, e} : cut.owner[q] = cut.owner[s] => q = s
    BY <1>1
  <2>2. s \in Ports(cut) \cap {s, e}
    BY <1>1
  <2>3. QED BY <1>0, <1>1, <2>1, <2>2, DisconnectedIs
<1>4. OpenKept(started, cut, Open(cut)) /\ Frame(started, cut) /\ Frame(started, d)
  BY <1>1, <1>3, FrameTwice DEF PortFreed
<1>5. OpenKept(started, d, Open(d) \ {w}) /\ w \notin Open(started)
  BY <1>1, <1>4 DEF OpenKept, Frame
<1>6. ASSUME s \in Pins(d) PROVE started.wire[s] = None
  <2>1. s \in Pins(cut)
    BY <1>1, <1>6 DEF Frame
  <2>2. cut.cls[s] = "pin"
    BY <1>1, <2>1, PinKinds DEF Sound, Shape
  <2>3. QED BY <1>3, <2>2 DEF PortFreed
<1>7. CASE e = None
  <2>1. r = started
    BY <1>0, <1>7
  <2>2. Sound(r, {})
    <3>1. Sound(r, {s, e} \ {s})
      BY <1>3, <2>1 DEF PortFreed
    <3>2. None \notin Ports(r)
      BY <3>1, Kinds DEF Sound, Shape, Listing, None
    <3>3. ({s, e} \ {s}) \cap Ports(r) = {}
      BY <1>7, <3>2
    <3>4. QED BY <3>1, <3>3, NoneLoose
  <2>3. QED BY <1>1, <1>2, <1>4, <1>5, <1>6, <1>7, <2>1, <2>2 DEF WireReleased
<1>8. CASE e # None
  <2>1. r = Disconnected(started, e)
    BY <1>0, <1>8
  <2>2. Sound(started, {e}) /\ e \in Ports(started) \cap {e}
    <3>1. {s, e} \ {s} = {e}
      BY <1>1, <1>8
    <3>2. Sound(started, {e})
      BY <1>3, <3>1 DEF PortFreed
    <3>3. e \in Ports(started)
      BY <1>1, <1>3, <1>8 DEF PortFreed
    <3>4. QED BY <3>2, <3>3
  <2>3. PortFreed(r, started, {e}, e)
    BY <2>1, <2>2, DisconnectedIs
  <2>4. Sound(r, {})
    <3>1. {e} \ {e} = {}
      OBVIOUS
    <3>2. QED BY <2>3, <3>1 DEF PortFreed
  <2>5. Frame(r, started) /\ OpenKept(r, started, Open(started))
    BY <2>3 DEF PortFreed
  <2>6. Frame(r, d)
    BY <1>4, <2>5, FrameTwice
  <2>7. OpenKept(r, d, Open(d) \ {w}) /\ w \notin Open(r)
    BY <1>5, <2>5 DEF OpenKept, Frame
  <2>8. ASSUME NEW p \in Pins(d), d.wire[p] = w PROVE r.wire[p] = None
    <3>1. p = s \/ p = e
      BY <1>1, <2>8
    <3>2. p \in Pins(started)
      BY <1>4, <2>8 DEF Frame
    <3>3. CASE p = s
      <4>1. started.wire[p] = None
        BY <1>6, <2>8, <3>3
      <4>2. QED BY <2>5, <3>2, <4>1 DEF Frame
    <3>4. CASE p = e
      <4>1. started.cls[e] = "pin"
        BY <2>2, <3>2, <3>4, PinKinds DEF Sound, Shape
      <4>2. QED BY <2>3, <3>4, <4>1 DEF PortFreed
    <3>5. QED BY <3>1, <3>3, <3>4
  <2>9. QED BY <2>4, <2>6, <2>7, <2>8 DEF WireReleased
<1>9. QED BY <1>7, <1>8

-----------------------------------------------------------------------------
(* Deleting components.                                                    *)

\* The pin p is free and only its wire is gone.
PinUnwired(r, d, p) ==
  /\ Sound(r, {}) /\ Frame(r, d) /\ r.wire[p] = None
  /\ OpenKept(r, d, {h \in Open(d) : d.ends[h][1] # p})

LEMMA UnwiredIs ==
  ASSUME NEW d, Sound(d, {}), NEW p \in Pins(d)
  PROVE  PinUnwired(Unwired(d, p), d, p)
<1>1. Typed(d) /\ Plugged(d, {}) /\ p \in Ports(d)
  BY PinKinds DEF Sound, Shape
<1>2. CASE d.wire[p] = None
  <2>1. Unwired(d, p) = d
    BY <1>2 DEF Unwired
  <2>2. QED BY <1>2, <2>1 DEF PinUnwired, Frame, OpenKept
<1>3. CASE d.wire[p] # None
  <2> DEFINE w == d.wire[p]
             r == Unwired(d, p)
  <2>1. r = ReleaseWire(d, w)
    BY <1>3 DEF Unwired
  <2>2. w \in Wires(d) /\ p \in {d.ends[w][1], d.ends[w][2]}
    BY <1>1, <1>3 DEF Plugged
  <2>3. WireReleased(r, d, w)
    <3> HIDE DEF w, r
    <3>1. QED BY <2>1, <2>2, ReleaseWireIs
  <2>4. ASSUME NEW h \in Open(d), d.ends[h][1] # p PROVE h \in Open(d) \ {w}
    <3>1. p # None
      BY <1>1, Kinds DEF Sound, Shape, Listing, None
    <3>2. d.ends[h][2] = None
      BY DEF Open
    <3> HIDE DEF w
    <3>3. QED BY <2>2, <2>4, <3>1, <3>2
  <2>5. r.wire[p] = None
    BY <2>3 DEF WireReleased
  <2> HIDE DEF r, w
  <2>6. OpenKept(r, d, {h \in Open(d) : d.ends[h][1] # p})
    BY <2>3, <2>4 DEF WireReleased, OpenKept
  <2>7. PinUnwired(r, d, p)
    BY <2>3, <2>5, <2>6 DEF WireReleased, PinUnwired
  <2>8. QED BY <2>7 DEF r
<1>4. QED BY <1>2, <1>3

\* The components C are gone, with no more than the wires at their pins.
Edited(r, d, C) ==
  /\ Sound(r, {}) /\ Components(r) = Components(d) \ C
  /\ \A p \in Pins(r) : p \in Pins(d) /\ r.owner[p] = d.owner[p]
  /\ \A h \in Open(r) : h \in Open(d) /\ r.ends[h] = d.ends[h]
  /\ OpenKept(r, d, {h \in Open(d) : d.owner[d.ends[h][1]] \notin C})

LEMMA EditedTwice ==
  ASSUME NEW d, NEW S, NEW T, NEW q, NEW r, Edited(q, d, S), Edited(r, q, T)
  PROVE  Edited(r, d, S \cup T)
<1>1. Components(r) = Components(d) \ (S \cup T)
  BY DEF Edited
<1>2. \A p \in Pins(r) : p \in Pins(d) /\ r.owner[p] = d.owner[p]
  BY DEF Edited
<1>3. \A h \in Open(r) : h \in Open(d) /\ r.ends[h] = d.ends[h]
  BY DEF Edited
<1>4. ASSUME NEW h \in Open(d), d.owner[d.ends[h][1]] \notin S \cup T
      PROVE  h \in Open(r) /\ r.ends[h] = d.ends[h]
  <2>1. h \in Open(q) /\ q.ends[h] = d.ends[h]
    BY <1>4 DEF Edited, OpenKept
  <2>2. q.ends[h][1] \in Pins(q)
    <3>1. h \in Wires(q) /\ q.ends[h][2] = None
      BY <2>1 DEF Open
    <3>2. Typed(q) /\ q.ends[h][1] \in Ports(q) /\ q.cls[q.ends[h][1]] = "pin"
      BY <3>1 DEF Edited, Sound, Plugged, Shape
    <3>3. QED BY <3>2, Kinds, PinKinds
  <2>3. q.owner[q.ends[h][1]] = d.owner[d.ends[h][1]]
    BY <2>1, <2>2 DEF Edited
  <2>4. h \in {x \in Open(q) : q.owner[q.ends[x][1]] \notin T}
    BY <1>4, <2>1, <2>3
  <2>5. h \in Open(r) /\ r.ends[h] = q.ends[h]
    BY <2>4 DEF Edited, OpenKept
  <2>6. QED BY <2>1, <2>5
<1>5. QED BY <1>1, <1>2, <1>3, <1>4 DEF Edited, OpenKept

\* A component none of whose pins is wired leaves the rest as it was.
LEMMA PruneComponent ==
  ASSUME NEW d, Sound(d, {}), NEW c \in Components(d), Bare(d, c)
  PROVE  Edited(EraseOwner(d, c), d, {c})
<1> DEFINE r == EraseOwner(d, c)
           s == d.subs[c]
           P == ToSet(s)
<1>1. Shape(d) /\ Typed(d) /\ Owned(d) /\ Plugged(d, {}) /\ Forest(d, {}) /\ c \in Owners(d)
  BY DEF Sound, Shape, Owners
<1>2. Pruned(r, d, P \cup {c})
  BY <1>1, EraseOwnerIs
<1>3. \A q : q \in P <=> q \in Ports(d) /\ d.owner[q] = c
  <2>1. s \in Seq(Nat) /\ DOMAIN s = 1..Len(s)
    <3>1. s \in Seq(Nat)
      BY <1>1 DEF Typed
    <3>2. QED BY <3>1, LenProperties
  <2>2. \A k \in 1..Len(s) : s[k] \in Ports(d) /\ d.owner[s[k]] = c
    BY <1>1 DEF Owned
  <2>3. ASSUME NEW q \in Ports(d), d.owner[q] = c PROVE q \in P
    <3>1. \E k \in 1..Len(s) : s[k] = q
      BY <1>1, <2>3 DEF Owned
    <3> HIDE DEF s
    <3>2. QED BY <2>1, <3>1 DEF ToSet
  <2>4. ASSUME NEW q \in P PROVE q \in Ports(d) /\ d.owner[q] = c
    <3> HIDE DEF s
    <3>1. QED BY <2>1, <2>2, <2>4 DEF ToSet
  <2> HIDE DEF P
  <2>5. QED BY <2>3, <2>4
<1>4. \A q \in P : q \in Ports(d) /\ d.cls[q] = "pin" /\ d.wire[q] = None
  <2>1. s \in Seq(Nat) /\ DOMAIN s = 1..Len(s)
    <3>1. s \in Seq(Nat)
      BY <1>1 DEF Typed
    <3>2. QED BY <3>1, LenProperties
  <2>2. \A k \in 1..Len(s) : d.wire[s[k]] = None
    BY DEF Bare
  <2>3. ASSUME NEW q \in P PROVE d.wire[q] = None
    <3> HIDE DEF s
    <3>1. QED BY <2>1, <2>2, <2>3 DEF ToSet
  <2>4. d.cls[c] = "component"
    BY <1>1, Kinds
  <2> HIDE DEF P
  <2>5. QED BY <1>1, <1>3, <2>3, <2>4 DEF Owned
<1>5. /\ Wires(r) = Wires(d) /\ Ports(r) = Ports(d) \ P /\ Owners(r) = Owners(d) \ {c}
      /\ Joints(r) = Joints(d) /\ Components(r) = Components(d) \ {c}
  <2>1. c \notin Ports(d) /\ c \notin Wires(d) /\ c \notin Joints(d)
    BY <1>1, Kinds
  <2> HIDE DEF P, r
  <2>2. \A q \in P : q \notin Wires(d) /\ q \notin Joints(d) /\ q \notin Owners(d) /\ q \notin Components(d)
    BY <1>1, <1>4, Kinds
  <2>3. /\ Wires(r) = Wires(d) \ (P \cup {c}) /\ Ports(r) = Ports(d) \ (P \cup {c})
        /\ Owners(r) = Owners(d) \ (P \cup {c}) /\ Joints(r) = Joints(d) \ (P \cup {c})
        /\ Components(r) = Components(d) \ (P \cup {c})
    BY <1>1, <1>2, PrunedKinds
  <2>4. QED BY <2>1, <2>2, <2>3
<1>6. /\ Shape(r) /\ Typed(r) /\ \A x \in r.ids : r.cls[x] = d.cls[x]
      /\ \A x \in Wires(r) : r.ends[x] = d.ends[x]
      /\ \A x \in Ports(r) : r.wire[x] = d.wire[x] /\ r.opp[x] = d.opp[x] /\ r.owner[x] = d.owner[x]
      /\ \A x \in Owners(r) : r.subs[x] = d.subs[x]
  BY <1>2 DEF Pruned, Shape
<1> HIDE DEF r, P
<1>7. \A q \in Ports(r) \cup Owners(r) : r.cls[q] = d.cls[q]
  BY <1>6, Kinds
<1>8. \A q \in Ports(r) : q \in Ports(d) /\ d.owner[q] # c
  BY <1>3, <1>5
<1>9. Owned(r)
  <2>1. ASSUME NEW o \in Owners(r)
        PROVE  /\ IsInjective(r.subs[o])
               /\ \A k \in 1..Len(r.subs[o]) : r.subs[o][k] \in Ports(r) /\ r.owner[r.subs[o][k]] = o
    <3>1. o \in Owners(d) /\ o # c /\ r.subs[o] = d.subs[o] /\ IsInjective(d.subs[o])
      BY <1>1, <1>5, <1>6 DEF Owned
    <3>2. ASSUME NEW k \in 1..Len(d.subs[o])
          PROVE  d.subs[o][k] \in Ports(r) /\ r.owner[d.subs[o][k]] = o
      <4>1. d.subs[o][k] \in Ports(d) /\ d.owner[d.subs[o][k]] = o
        BY <1>1, <3>1 DEF Owned
      <4>2. QED BY <1>3, <1>5, <1>6, <3>1, <4>1
    <3>3. QED BY <3>1, <3>2
  <2>2. ASSUME NEW p \in Ports(r)
        PROVE  /\ r.owner[p] \in Owners(r)
               /\ \E k \in 1..Len(r.subs[r.owner[p]]) : r.subs[r.owner[p]][k] = p
               /\ r.cls[p] = "pin" <=> r.cls[r.owner[p]] = "component"
    <3>1. p \in Ports(d) /\ d.owner[p] # c /\ r.owner[p] = d.owner[p]
      BY <1>6, <1>8
    <3>2. d.owner[p] \in Owners(d) /\ \E k \in 1..Len(d.subs[d.owner[p]]) : d.subs[d.owner[p]][k] = p
      BY <1>1, <3>1 DEF Owned
    <3>3. d.cls[p] = "pin" <=> d.cls[d.owner[p]] = "component"
      BY <1>1, <3>1 DEF Owned
    <3>4. d.owner[p] \in Owners(r) /\ r.subs[d.owner[p]] = d.subs[d.owner[p]]
      BY <1>5, <1>6, <3>1, <3>2
    <3>5. r.cls[p] = d.cls[p] /\ r.cls[d.owner[p]] = d.cls[d.owner[p]]
      BY <1>7, <3>4
    <3>6. QED BY <3>1, <3>2, <3>3, <3>4, <3>5
  <2>3. \A j \in Joints(r) : Len(r.subs[j]) = 3
    <3>1. Joints(r) \subseteq Owners(r)
      BY DEF Owners
    <3>2. QED BY <1>1, <1>5, <1>6, <3>1 DEF Owned
  <2>4. QED BY <2>1, <2>2, <2>3 DEF Owned
<1>10. Plugged(r, {})
  <2>1. ASSUME NEW w \in Wires(r), NEW p, p = r.ends[w][1], NEW q, q = r.ends[w][2]
        PROVE  /\ p \in Ports(r) \ {} /\ r.wire[p] = w
               /\ q = None => r.cls[p] = "pin"
               /\ q # None => /\ q \in Ports(r) \ {} /\ q # p /\ r.wire[q] = w
                              /\ r.opp[p] = q /\ r.opp[q] = p
    <3>1. w \in Wires(d) /\ p = d.ends[w][1] /\ q = d.ends[w][2] /\ w # None
      BY <1>1, <1>5, <1>6, <2>1, Kinds DEF Shape, Listing, None
    <3>2. /\ p \in Ports(d) /\ d.wire[p] = w
          /\ q = None => d.cls[p] = "pin"
          /\ q # None => /\ q \in Ports(d) /\ q # p /\ d.wire[q] = w
                         /\ d.opp[p] = q /\ d.opp[q] = p
      BY <1>1, <3>1 DEF Plugged
    <3>3. p \in Ports(r) /\ (q # None => q \in Ports(r))
      BY <1>4, <1>5, <3>1, <3>2
    <3>4. QED BY <1>6, <1>7, <3>2, <3>3
  <2>2. ASSUME NEW p \in Ports(r) \ {}
        PROVE  /\ r.wire[p] # None => /\ r.wire[p] \in Wires(r)
                                      /\ p \in {r.ends[r.wire[p]][1], r.ends[r.wire[p]][2]}
               /\ r.cls[p] = "jointport" => r.wire[p] # None
    <3>1. p \in Ports(d) /\ r.wire[p] = d.wire[p] /\ r.cls[p] = d.cls[p]
      BY <1>6, <1>7, <1>8
    <3>2. /\ d.wire[p] # None => /\ d.wire[p] \in Wires(d)
                                 /\ p \in {d.ends[d.wire[p]][1], d.ends[d.wire[p]][2]}
          /\ d.cls[p] = "jointport" => d.wire[p] # None
      BY <1>1, <3>1 DEF Plugged
    <3>3. QED BY <1>5, <1>6, <3>1, <3>2
  <2>3. QED BY <2>1, <2>2 DEF Plugged
<1>11. Forest(r, {})
  <2>1. SUFFICES ASSUME NEW J \in SUBSET Joints(d), J # {}
                 PROVE  \E i \in J : Leaf(r, {}, J, i)
    BY <1>5 DEF Forest
  <2>2. PICK i \in J : Leaf(d, {}, J, i)
    BY <1>1, <2>1 DEF Forest
  <2>3. ASSUME NEW q \in Ports(r) \ {}, r.owner[q] = i, r.owner[r.opp[q]] \in J
        PROVE  q \in Ports(d) \ {} /\ d.owner[q] = i /\ d.owner[d.opp[q]] \in J
    <3>1. q \in Ports(d) \ {} /\ d.owner[q] = i /\ r.opp[q] = d.opp[q]
      BY <1>6, <1>8, <2>3
    <3>2. d.cls[q] = "jointport"
      <4>1. d.cls[i] = "joint"
        BY <1>1, <2>1, Kinds
      <4>2. d.cls[q] # "pin"
        BY <1>1, <3>1, <4>1 DEF Owned
      <4>3. QED BY <1>1, <3>1, <4>2, Kinds
    <3>3. d.opp[q] \in Ports(d) \ {} /\ d.wire[d.opp[q]] # None
      BY <3>1, <3>2, Partner
    <3>4. d.opp[q] \in Ports(r)
      BY <1>4, <1>5, <3>3
    <3>5. QED BY <1>6, <2>3, <3>1, <3>4
  <2>4. Leaf(r, {}, J, i)
    BY <2>2, <2>3 DEF Leaf
  <2>5. QED BY <2>4
<1>12. \A p \in Pins(r) : p \in Pins(d) /\ r.owner[p] = d.owner[p]
  <2>1. ASSUME NEW p \in Pins(r) PROVE p \in Pins(d) /\ r.owner[p] = d.owner[p]
    <3>1. p \in Ports(r) /\ r.cls[p] = "pin"
      BY <1>6, PinKinds
    <3>2. p \in Ports(d) /\ d.cls[p] = "pin" /\ r.owner[p] = d.owner[p]
      BY <1>6, <1>7, <1>8, <3>1
    <3>3. QED BY <1>1, <3>2, Kinds, PinKinds
  <2>2. QED BY <2>1
<1>13. \A h : h \in Open(r) <=> h \in Open(d)
  BY <1>5, <1>6 DEF Open
<1>14. \A h \in Open(d) : r.ends[h] = d.ends[h]
  BY <1>5, <1>6 DEF Open
<1>15. Sound(r, {})
  BY <1>6, <1>9, <1>10, <1>11 DEF Sound
<1>16. Edited(r, d, {c})
  BY <1>5, <1>12, <1>13, <1>14, <1>15 DEF Edited, OpenKept
<1>17. QED BY <1>16 DEF r

\* The pins of a component.
LEMMA ComponentPins ==
  ASSUME NEW d, Sound(d, {}), NEW c \in Components(d), NEW s, s = d.subs[c]
  PROVE  /\ Len(s) \in Nat /\ DOMAIN s = 1..Len(s) /\ IsInjective(s)
         /\ \A k \in 1..Len(s) : s[k] \in Ports(d) /\ s[k] \in Pins(d) /\ d.owner[s[k]] = c
<1>1. c \in Owners(d) /\ Owned(d) /\ Typed(d)
  BY DEF Owners, Sound, Shape
<1>2. s \in Seq(Nat)
  BY <1>1 DEF Typed
<1>3. Len(s) \in Nat /\ DOMAIN s = 1..Len(s)
  BY <1>2, LenProperties
<1>4. IsInjective(s) /\ \A k \in 1..Len(s) : s[k] \in Ports(d) /\ d.owner[s[k]] = c
  BY <1>1 DEF Owned
<1>5. d.cls[c] = "component"
  BY <1>1, Kinds
<1>6. ASSUME NEW k \in 1..Len(s) PROVE s[k] \in Pins(d)
  <2>1. s[k] \in Ports(d) /\ d.owner[s[k]] = c
    BY <1>4
  <2>2. d.cls[s[k]] = "pin"
    BY <1>1, <1>5, <2>1 DEF Owned
  <2>3. QED BY <1>1, <2>1, <2>2, Kinds, PinKinds
<1>7. QED BY <1>3, <1>4, <1>6

\* The documents between, when the pins s of a component lose their wires in turn.
Unwiring(g, d, c, s) ==
  /\ g[0] = d /\ \A i \in 1..Len(s) : g[i] = Unwired(g[i - 1], s[i])
  /\ ReleaseComponent(d, c) = EraseOwner(g[Len(s)], c)

LEMMA UnwiresFold ==
  ASSUME NEW d, NEW c, NEW s, s = d.subs[c], Len(s) \in Nat, DOMAIN s = 1..Len(s)
  PROVE  \E g : Unwiring(g, d, c, s)
<1> DEFINE f == CHOOSE f : f = [t \in SUBSET DOMAIN s |->
                  IF t = {} THEN d ELSE Unwired(f[t \ {Max(t)}], s[Max(t)])]
<1>1. ReleaseComponent(d, c) = EraseOwner(f[DOMAIN s], c)
  BY DEF ReleaseComponent, FoldLeft, MapThenFoldSet, Unwired
<1>2. f = [t \in SUBSET DOMAIN s |-> IF t = {} THEN d ELSE Unwired(f[t \ {Max(t)}], s[Max(t)])]
  <2>1. PICK g : Folding("unwire", 0, d, s, Len(s), g)
    BY FoldExists
  <2>2. g = [t \in SUBSET DOMAIN s |-> IF t = {} THEN d ELSE Unwired(g[t \ {Max(t)}], s[Max(t)])]
    BY <2>1 DEF Folding, Step
  <2>3. QED BY <2>2
<1> HIDE DEF f
<1>3. Folding("unwire", 0, d, s, Len(s), f)
  BY <1>2 DEF Folding, Step
<1>4. PICK g : Sequel("unwire", 0, d, s, g) /\ f[DOMAIN s] = g[Len(s)]
  BY <1>3, FoldSteps
<1>5. g[0] = d /\ \A i \in 1..Len(s) : g[i] = Unwired(g[i - 1], s[i])
  BY <1>4 DEF Sequel, Step
<1>6. QED BY <1>1, <1>4, <1>5 DEF Unwiring

\* In each of them the pins that had their turn are free.
PinsFreed(x, d, c, s, i) ==
  /\ Sound(x, {}) /\ Frame(x, d)
  /\ OpenKept(x, d, {h \in Open(d) : d.owner[d.ends[h][1]] # c})
  /\ \A k \in 1..i : x.wire[s[k]] = None

LEMMA UnwiresEach ==
  ASSUME NEW d, Sound(d, {}), NEW c \in Components(d), NEW s, s = d.subs[c],
         NEW g, Unwiring(g, d, c, s)
  PROVE  \A i \in 0..Len(s) : PinsFreed(g[i], d, c, s, i)
<1>1. /\ Len(s) \in Nat /\ \A k \in 1..Len(s) : s[k] \in Ports(d) /\ s[k] \in Pins(d) /\ d.owner[s[k]] = c
  BY ComponentPins
<1>2. g[0] = d /\ \A i \in 1..Len(s) : g[i] = Unwired(g[i - 1], s[i])
  BY DEF Unwiring
<1> DEFINE H == {h \in Open(d) : d.owner[d.ends[h][1]] # c}
           T == {i \in 0..Len(s) : PinsFreed(g[i], d, c, s, i)}
<1>3. 0 \in T
  <2>1. 0 \in 0..Len(s) /\ \A k \in 1..0 : d.wire[s[k]] = None
    BY <1>1
  <2>2. Frame(d, d) /\ OpenKept(d, d, H)
    BY DEF Frame, OpenKept
  <2>3. PinsFreed(d, d, c, s, 0)
    BY <2>1, <2>2 DEF PinsFreed
  <2> HIDE DEF H
  <2>4. QED BY <1>2, <2>1, <2>3
<1>4. ASSUME NEW i \in 1..Len(s), i - 1 \in T PROVE i \in T
  <2> DEFINE x == g[i - 1]
             y == g[i]
  <2>1. /\ Sound(x, {}) /\ Frame(x, d) /\ OpenKept(x, d, H)
        /\ \A k \in 1..(i - 1) : x.wire[s[k]] = None
    BY <1>4 DEF PinsFreed
  <2>2. s[i] \in Pins(x) /\ y = Unwired(x, s[i]) /\ s[i] \in Ports(d) /\ d.owner[s[i]] = c
    BY <1>1, <1>2, <2>1 DEF Frame
  <2>3. PinUnwired(y, x, s[i])
    <3> HIDE DEF x, y
    <3>1. QED BY <2>1, <2>2, UnwiredIs
  <2>4. Frame(y, d) /\ Sound(y, {}) /\ y.wire[s[i]] = None
    <3> HIDE DEF x, y
    <3>1. QED BY <2>1, <2>3, FrameTwice DEF PinUnwired
  <2>5. OpenKept(y, d, H)
    <3> HIDE DEF x, y
    <3>1. ASSUME NEW h \in H PROVE h \in Open(y) /\ y.ends[h] = d.ends[h]
      <4>1. h \in Open(x) /\ x.ends[h] = d.ends[h]
        BY <2>1 DEF OpenKept
      <4>2. x.ends[h][1] # s[i]
        BY <2>2, <4>1
      <4>3. h \in {z \in Open(x) : x.ends[z][1] # s[i]}
        BY <4>1, <4>2
      <4> HIDE DEF H
      <4>4. QED BY <2>3, <4>1, <4>3 DEF PinUnwired, OpenKept
    <3> HIDE DEF H
    <3>2. QED BY <3>1 DEF OpenKept
  <2>6. \A k \in 1..i : y.wire[s[k]] = None
    <3>1. ASSUME NEW k \in 1..i PROVE y.wire[s[k]] = None
      <4>1. CASE k = i
        BY <2>4, <4>1
      <4>2. CASE k # i
        <5>1. k \in 1..(i - 1) /\ k \in 1..Len(s)
          BY <1>1, <4>2
        <5>2. x.wire[s[k]] = None
          BY <2>1, <5>1
        <5>3. s[k] \in Pins(x)
          BY <1>1, <2>1, <5>1 DEF Frame
        <5> HIDE DEF x, y
        <5>4. Frame(y, x)
          BY <2>3 DEF PinUnwired
        <5>5. QED BY <5>2, <5>3, <5>4 DEF Frame
      <4>3. QED BY <4>1, <4>2
    <3>2. QED BY <3>1
  <2>7. PinsFreed(g[i], d, c, s, i)
    BY <2>4, <2>5, <2>6 DEF PinsFreed
  <2>8. i \in 0..Len(s)
    BY <1>1
  <2>9. QED BY <2>7, <2>8
<1> HIDE DEF T
<1>5. \A i \in 0..Len(s) : i \in T
  BY <1>1, <1>3, <1>4, CountUp
<1>6. QED BY <1>5 DEF T

LEMMA ReleaseComponentIs ==
  ASSUME NEW d, Sound(d, {}), NEW c \in Components(d)
  PROVE  Edited(ReleaseComponent(d, c), d, {c})
<1>0. SUFFICES ASSUME NEW s, s = d.subs[c], NEW r, r = ReleaseComponent(d, c)
               PROVE  Edited(r, d, {c})
  OBVIOUS
<1>1. /\ Len(s) \in Nat /\ DOMAIN s = 1..Len(s) /\ IsInjective(s)
      /\ \A k \in 1..Len(s) : s[k] \in Ports(d) /\ s[k] \in Pins(d) /\ d.owner[s[k]] = c
  BY <1>0, ComponentPins
<1>2. PICK g : Unwiring(g, d, c, s)
  BY <1>0, <1>1, UnwiresFold
<1> DEFINE y == g[Len(s)]
           H == {h \in Open(d) : d.owner[d.ends[h][1]] # c}
<1>3. /\ Sound(y, {}) /\ Frame(y, d) /\ OpenKept(y, d, H)
      /\ \A k \in 1..Len(s) : y.wire[s[k]] = None
  <2>1. PinsFreed(y, d, c, s, Len(s))
    BY <1>0, <1>1, <1>2, UnwiresEach
  <2>2. QED BY <2>1 DEF PinsFreed
<1>4. r = EraseOwner(y, c) /\ c \in Components(y)
  BY <1>0, <1>2, <1>3 DEF Frame, Unwiring
<1> HIDE DEF y, H
<1>5. Bare(y, c)
  <2>1. y.subs[c] = s
    BY <1>0, <1>3 DEF Frame
  <2>2. ASSUME NEW k \in 1..Len(s) PROVE s[k] \in Ports(y) /\ y.wire[s[k]] = None
    <3>1. s[k] \in Pins(y) /\ Typed(y)
      BY <1>1, <1>3 DEF Frame, Sound, Shape
    <3>2. QED BY <1>3, <3>1, PinKinds
  <2>3. QED BY <1>1, <2>1, <2>2 DEF Bare
<1>6. Edited(r, y, {c})
  BY <1>3, <1>4, <1>5, PruneComponent
<1>7. Components(r) = Components(d) \ {c}
  BY <1>3, <1>6 DEF Edited, Frame
<1>8. \A p \in Pins(r) : p \in Pins(d) /\ r.owner[p] = d.owner[p]
  BY <1>3, <1>6 DEF Edited, Frame
<1>9. \A h \in Open(r) : h \in Open(d) /\ r.ends[h] = d.ends[h]
  BY <1>3, <1>6 DEF Edited, Frame
<1>10. ASSUME NEW h \in Open(d), d.owner[d.ends[h][1]] \notin {c}
       PROVE  h \in Open(r) /\ r.ends[h] = d.ends[h]
  <2>1. h \in H
    BY <1>10 DEF H
  <2>2. h \in Open(y) /\ y.ends[h] = d.ends[h]
    BY <1>3, <2>1 DEF OpenKept
  <2>3. d.ends[h][1] \in Pins(d)
    <3>1. h \in Wires(d) /\ d.ends[h][2] = None
      BY DEF Open
    <3>2. d.ends[h][1] \in Ports(d) /\ d.cls[d.ends[h][1]] = "pin" /\ Typed(d)
      BY <3>1 DEF Sound, Plugged, Shape
    <3>3. QED BY <3>2, Kinds, PinKinds
  <2>4. y.owner[y.ends[h][1]] = d.owner[d.ends[h][1]]
    BY <1>3, <2>2, <2>3 DEF Frame
  <2>5. h \in {x \in Open(y) : y.owner[y.ends[x][1]] \notin {c}}
    BY <1>10, <2>2, <2>4
  <2>6. QED BY <1>6, <2>2, <2>5 DEF Edited, OpenKept
<1>11. Sound(r, {})
  BY <1>6 DEF Edited
<1>12. QED BY <1>7, <1>8, <1>9, <1>10, <1>11 DEF Edited, OpenKept

Firsts(s, i) == {s[k] : k \in 1..i}

\* One after the other, components of s are deleted, and other elements passed over.
LEMMA DeletesEach ==
  ASSUME NEW d, Sound(d, {}), NEW s, Len(s) \in Nat, DOMAIN s = 1..Len(s), IsInjective(s),
         NEW g, g[0] = d,
         \A i \in 1..Len(s) : g[i] = IF s[i] \in Components(d) THEN ReleaseComponent(g[i - 1], s[i])
                                     ELSE g[i - 1]
  PROVE  \A i \in 0..Len(s) : Edited(g[i], d, Firsts(s, i))
<1> DEFINE T == {i \in 0..Len(s) : Edited(g[i], d, Firsts(s, i))}
<1>1. 0 \in T
  <2>1. 0 \in 0..Len(s) /\ Firsts(s, 0) = {}
    BY DEF Firsts
  <2>2. Components(d) = Components(d) \ {} /\ Pins(d) = Pins(d)
    OBVIOUS
  <2>3. Edited(d, d, {})
    BY <2>2 DEF Edited, OpenKept
  <2>4. QED BY <2>1, <2>3
<1>2. ASSUME NEW i \in 1..Len(s), i - 1 \in T PROVE i \in T
  <2> DEFINE x == g[i - 1]
             c == s[i]
  <2>1. Edited(x, d, Firsts(s, i - 1)) /\ Sound(x, {}) /\ Components(x) = Components(d) \ Firsts(s, i - 1)
    BY <1>2 DEF Edited
  <2>2. c \notin Firsts(s, i - 1)
    <3>1. SUFFICES ASSUME NEW k \in 1..(i - 1), s[k] = s[i] PROVE FALSE
      BY DEF Firsts
    <3>2. k \in 1..Len(s) /\ k # i
      OBVIOUS
    <3>3. QED BY <3>1, <3>2 DEF IsInjective
  <2>3. Firsts(s, i) = Firsts(s, i - 1) \cup {c}
    <3>1. \A k \in 1..i : k \in 1..(i - 1) \/ k = i
      OBVIOUS
    <3>2. \A k \in 1..(i - 1) : k \in 1..i
      OBVIOUS
    <3>3. i \in 1..i
      OBVIOUS
    <3>4. QED BY <3>1, <3>2, <3>3 DEF Firsts
  <2>4. i \in 0..Len(s)
    OBVIOUS
  <2>5. g[i] = IF c \in Components(d) THEN ReleaseComponent(x, c) ELSE x
    OBVIOUS
  <2> HIDE DEF x, c
  <2>6. Edited(g[i], x, {c})
    <3>1. CASE c \in Components(d)
      <4>1. c \in Components(x)
        BY <2>1, <2>2, <3>1
      <4>2. g[i] = ReleaseComponent(x, c)
        BY <2>5, <3>1
      <4>3. QED BY <2>1, <4>1, <4>2, ReleaseComponentIs
    <3>2. CASE c \notin Components(d)
      <4>1. c \notin Components(x) /\ g[i] = x
        BY <2>1, <2>5, <3>2
      <4>2. Components(x) = Components(x) \ {c}
        BY <4>1
      <4>3. QED BY <2>1, <4>1, <4>2 DEF Edited, OpenKept
    <3>3. QED BY <3>1, <3>2
  <2>7. Edited(g[i], d, Firsts(s, i))
    BY <2>1, <2>3, <2>6, EditedTwice
  <2>8. QED BY <2>4, <2>7
<1> HIDE DEF T
<1>3. \A i \in 0..Len(s) : i \in T
  BY <1>1, <1>2, CountUp
<1>4. QED BY <1>3 DEF T

LEMMA Deletes ==
  ASSUME NEW d, Sound(d, {}), NEW s, Len(s) \in Nat, DOMAIN s = 1..Len(s), IsInjective(s),
         NEW g, g[0] = d,
         \A i \in 1..Len(s) : g[i] = IF s[i] \in Components(d) THEN ReleaseComponent(g[i - 1], s[i])
                                     ELSE g[i - 1]
  PROVE  Edited(g[Len(s)], d, ToSet(s))
<1>1. \A i \in 0..Len(s) : Edited(g[i], d, Firsts(s, i))
  BY DeletesEach
<1>2. Len(s) \in 0..Len(s)
  OBVIOUS
<1>3. Edited(g[Len(s)], d, Firsts(s, Len(s)))
  BY <1>1, <1>2
<1>4. QED BY <1>3 DEF ToSet, Firsts

\* The Delete key goes through the selected components s.
Deleting(g, d, s) ==
  /\ g[0] = d /\ \A i \in 1..Len(s) : g[i] = ReleaseComponent(g[i - 1], s[i])
  /\ FoldLeft(ReleaseComponent, d, s) = g[Len(s)]

LEMMA DeletesFold ==
  ASSUME NEW d, NEW s, Len(s) \in Nat, DOMAIN s = 1..Len(s)
  PROVE  \E g : Deleting(g, d, s)
<1> DEFINE f == CHOOSE f : f = [t \in SUBSET DOMAIN s |->
                  IF t = {} THEN d ELSE ReleaseComponent(f[t \ {Max(t)}], s[Max(t)])]
<1>1. FoldLeft(ReleaseComponent, d, s) = f[DOMAIN s]
  BY DEF FoldLeft, MapThenFoldSet
<1>2. f = [t \in SUBSET DOMAIN s |->
             IF t = {} THEN d ELSE ReleaseComponent(f[t \ {Max(t)}], s[Max(t)])]
  <2>1. PICK g : Folding("edit", 0, d, s, Len(s), g)
    BY FoldExists
  <2>2. g = [t \in SUBSET DOMAIN s |->
               IF t = {} THEN d ELSE ReleaseComponent(g[t \ {Max(t)}], s[Max(t)])]
    BY <2>1 DEF Folding, Step
  <2>3. QED BY <2>2
<1> HIDE DEF f
<1>3. Folding("edit", 0, d, s, Len(s), f)
  BY <1>2 DEF Folding, Step
<1>4. PICK g : Sequel("edit", 0, d, s, g) /\ f[DOMAIN s] = g[Len(s)]
  BY <1>3, FoldSteps
<1>5. g[0] = d /\ \A i \in 1..Len(s) : g[i] = ReleaseComponent(g[i - 1], s[i])
  BY <1>4 DEF Sequel, Step
<1>6. QED BY <1>1, <1>4, <1>5 DEF Deleting

LEMMA DeleteSelection ==
  ASSUME NEW d, Sound(d, {}), NEW s, Len(s) \in Nat, DOMAIN s = 1..Len(s), IsInjective(s),
         \A i \in 1..Len(s) : s[i] \in Components(d)
  PROVE  Edited(FoldLeft(ReleaseComponent, d, s), d, ToSet(s))
<1>0. PICK g : Deleting(g, d, s)
  BY DeletesFold
<1>1. /\ g[0] = d /\ \A i \in 1..Len(s) : g[i] = ReleaseComponent(g[i - 1], s[i])
      /\ FoldLeft(ReleaseComponent, d, s) = g[Len(s)]
  BY <1>0 DEF Deleting
<1>2. Edited(g[Len(s)], d, ToSet(s))
  BY <1>1, Deletes
<1>3. QED BY <1>1, <1>2

\* Without components there is nothing: a forest of joints would have a leaf whose
\* other ports are wired to pins.
LEMMA NoComponents ==
  ASSUME NEW d, Sound(d, {}), Components(d) = {}
  PROVE  d.elements = <<>>
<1>1. Shape(d) /\ Typed(d) /\ Owned(d) /\ Plugged(d, {}) /\ Forest(d, {})
  BY DEF Sound, Shape
<1>2. \A p \in Ports(d) : d.cls[p] = "jointport" /\ d.owner[p] \in Joints(d)
  <2>1. ASSUME NEW p \in Ports(d) PROVE d.cls[p] = "jointport" /\ d.owner[p] \in Joints(d)
    <3>1. d.owner[p] \in Owners(d) /\ (d.cls[p] = "pin" <=> d.cls[d.owner[p]] = "component")
      BY <1>1 DEF Owned
    <3>2. d.owner[p] \in Joints(d)
      BY <3>1 DEF Owners
    <3>3. d.cls[d.owner[p]] = "joint"
      BY <1>1, <3>2, Kinds
    <3>4. QED BY <1>1, <3>1, <3>2, <3>3, Kinds
  <2>2. QED BY <2>1
<1>3. Joints(d) = {}
  <2>1. SUFFICES ASSUME Joints(d) # {} PROVE FALSE
    OBVIOUS
  <2>2. PICK j \in Joints(d) : Leaf(d, {}, Joints(d), j)
    BY <1>1, <2>1 DEF Forest
  <2>3. Len(d.subs[j]) = 3 /\ IsInjective(d.subs[j]) /\ j \in Owners(d) /\ d.subs[j] \in Seq(Nat)
    <3>1. j \in Owners(d)
      BY DEF Owners
    <3>2. QED BY <1>1, <3>1 DEF Owned, Typed
  <2> DEFINE p == d.subs[j][1]
             q == d.subs[j][2]
  <2>4. p \in Ports(d) /\ q \in Ports(d) /\ d.owner[p] = j /\ d.owner[q] = j
    <3>1. 1 \in 1..Len(d.subs[j]) /\ 2 \in 1..Len(d.subs[j])
      BY <2>3
    <3>2. QED BY <1>1, <2>3, <3>1 DEF Owned
  <2>5. p # q
    <3>1. DOMAIN d.subs[j] = 1..3
      BY <2>3, LenProperties
    <3>2. QED BY <2>3, <3>1 DEF IsInjective
  <2> HIDE DEF p, q
  <2>6. d.opp[p] \in Ports(d) \ {} /\ d.opp[q] \in Ports(d) \ {}
    <3>1. p \in Ports(d) \ {} /\ q \in Ports(d) \ {} /\ d.cls[p] = "jointport" /\ d.cls[q] = "jointport"
      BY <1>2, <2>4
    <3>2. d.opp[p] \in Ports(d) \ {}
      BY <3>1, Partner
    <3>3. d.opp[q] \in Ports(d) \ {}
      BY <3>1, Partner
    <3>4. QED BY <3>2, <3>3
  <2>7. d.owner[d.opp[p]] \in Joints(d) /\ d.owner[d.opp[q]] \in Joints(d)
    BY <1>2, <2>6
  <2>8. QED BY <2>2, <2>4, <2>5, <2>7 DEF Leaf
<1>4. Ports(d) = {}
  BY <1>2, <1>3
<1>5. Wires(d) = {}
  BY <1>1, <1>4 DEF Plugged
<1>6. d.ids = {}
  <2>1. SUFFICES ASSUME NEW x \in d.ids PROVE FALSE
    OBVIOUS
  <2>2. d.cls[x] \in {"component", "pin", "wire", "joint", "jointport"}
    BY <1>1, Kinds DEF Classes
  <2>3. QED BY <1>1, <1>3, <1>4, <1>5, <2>2, Kinds
<1>7. d.elements \in Seq({})
  BY <1>1, <1>6 DEF Shape, Listing
<1>8. QED
  <2>1. SUFFICES ASSUME d.elements # <<>> PROVE FALSE
    OBVIOUS
  <2>2. Len(d.elements) \in Nat \ {0}
    BY <1>7, <2>1, EmptySeq
  <2>3. 1 \in 1..Len(d.elements)
    BY <2>2
  <2>4. d.elements[1] \in {}
    BY <1>7, <2>3, ElementOfSeq
  <2>5. QED BY <2>4

LEMMA ReleaseAllIs ==
  ASSUME NEW d, Sound(d, {})
  PROVE  Sound(ReleaseAll(d), {}) /\ ReleaseAll(d).elements = <<>> /\ Open(ReleaseAll(d)) = {}
<1> DEFINE s == d.elements
           f == CHOOSE f : f = [t \in SUBSET DOMAIN s |->
                  IF t = {} THEN d ELSE Released(d, f[t \ {Max(t)}], s[Max(t)])]
<1>1. ReleaseAll(d) = f[DOMAIN s]
  BY DEF ReleaseAll, FoldLeft, MapThenFoldSet, Released
<1>2. s \in Seq(d.ids) /\ Len(s) \in Nat /\ DOMAIN s = 1..Len(s) /\ IsInjective(s) /\ Typed(d)
      /\ (\A e \in d.ids : \E i \in 1..Len(s) : s[i] = e)
  <2>1. s \in Seq(d.ids) /\ IsInjective(s) /\ Typed(d) /\ \A e \in d.ids : \E i \in 1..Len(s) : s[i] = e
    BY DEF Sound, Shape, Listing
  <2>2. QED BY <2>1, LenProperties
<1>3. f = [t \in SUBSET DOMAIN s |-> IF t = {} THEN d ELSE Released(d, f[t \ {Max(t)}], s[Max(t)])]
  <2>1. PICK g : Folding("release", d, d, s, Len(s), g)
    BY <1>2, FoldExists
  <2>2. g = [t \in SUBSET DOMAIN s |-> IF t = {} THEN d ELSE Released(d, g[t \ {Max(t)}], s[Max(t)])]
    <3> HIDE DEF s
    <3>1. QED BY <1>2, <2>1 DEF Folding, Step
  <2> HIDE DEF s
  <2>3. QED BY <2>2
<1> HIDE DEF f, s
<1>4. Folding("release", d, d, s, Len(s), f)
  BY <1>2, <1>3 DEF Folding, Step
<1>5. PICK g : Sequel("release", d, d, s, g) /\ f[DOMAIN s] = g[Len(s)]
  BY <1>2, <1>4, FoldSteps
<1>6. g[0] = d /\ \A i \in 1..Len(s) : g[i] = Released(d, g[i - 1], s[i])
  BY <1>5 DEF Sequel, Step
<1>7. ASSUME NEW i \in 1..Len(s)
      PROVE  g[i] = IF s[i] \in Components(d) THEN ReleaseComponent(g[i - 1], s[i]) ELSE g[i - 1]
  <2>1. s[i] \in d.ids
    BY <1>2, ElementOfSeq
  <2>2. s[i] \in Components(d) <=> d.cls[s[i]] = "component"
    BY <1>2, <2>1, Kinds
  <2>3. QED BY <1>6, <2>2 DEF Released
<1> DEFINE r == g[Len(s)]
<1>8. Edited(r, d, ToSet(s))
  BY <1>2, <1>6, <1>7, Deletes
<1> HIDE DEF r
<1>9. Sound(r, {}) /\ Components(r) = {}
  <2>1. \A c \in Components(d) : c \in ToSet(s)
    <3>1. \A c \in Components(d) : c \in d.ids
      BY <1>2, Kinds
    <3>2. QED BY <1>2, <3>1 DEF ToSet
  <2>2. QED BY <1>8, <2>1 DEF Edited
<1>10. r.elements = <<>>
  BY <1>9, NoComponents
<1>11. Open(r) = {}
  <2>1. SUFFICES ASSUME NEW h \in Open(r) PROVE FALSE
    OBVIOUS
  <2>2. h \in Wires(r) /\ Typed(r) /\ Owned(r)
    BY <1>9 DEF Open, Sound, Shape
  <2>3. r.ends[h][1] \in Ports(r) /\ r.cls[r.ends[h][1]] = "pin"
    BY <1>9, <2>1, <2>2 DEF Open, Sound, Plugged
  <2>4. r.owner[r.ends[h][1]] \in Owners(r) /\ r.cls[r.owner[r.ends[h][1]]] = "component"
    BY <2>2, <2>3 DEF Owned
  <2>5. r.owner[r.ends[h][1]] \in Components(r)
    BY <2>2, <2>4, Kinds
  <2>6. QED BY <1>9, <2>5
<1>12. QED BY <1>1, <1>5, <1>9, <1>10, <1>11 DEF r

-----------------------------------------------------------------------------
(* Creating components, joints and wires.                                   *)

LEMMA CreatePortIs ==
  ASSUME NEW d, Shape(d), NEW o \in Owners(d), NEW class \in {"pin", "jointport"},
         NEW r, r = CreatePort(d, class, o), NEW p, p = Alloc(d)
  PROVE  /\ Shape(r) /\ p \in Nat \ {0} /\ p \notin d.ids /\ r.ids = d.ids \cup {p}
         /\ r.cls[p] = class /\ \A x \in d.ids : r.cls[x] = d.cls[x]
         /\ r.ends = d.ends /\ r.wire[p] = None /\ r.opp[p] = None /\ r.owner[p] = o
         /\ \A x \in Ports(d) : r.wire[x] = d.wire[x] /\ r.opp[x] = d.opp[x]
                                /\ r.owner[x] = d.owner[x]
         /\ r.subs[o] = Append(d.subs[o], p)
         /\ \A x \in Owners(d) \ {o} : r.subs[x] = d.subs[x]
<1> DEFINE l == Listed(d, p, class)
<1>1. p \in Nat \ {0} /\ p \notin d.ids
  BY AllocFresh DEF Shape
<1>2. /\ Listing(l) /\ l.ids = d.ids \cup {p} /\ l.cls = Put(d.cls, p, class)
      /\ l.ends = d.ends /\ l.wire = d.wire /\ l.opp = d.opp
      /\ l.owner = d.owner /\ l.subs = d.subs
  BY <1>1, ListedIs DEF Shape
<1>3. r = [l EXCEPT !.wire = Put(@, p, None), !.opp = Put(@, p, None),
                    !.owner = Put(@, p, o), !.subs[o] = Append(@, p)]
  BY DEF CreatePort
<1> HIDE DEF l
<1>4. IsDoc(l)
  BY <1>2 DEF Listing
<1>5. r.elements = l.elements /\ r.ids = l.ids /\ r.cls = l.cls /\ r.ends = l.ends
  BY <1>3, <1>4 DEF IsDoc
<1>6. r.wire = Put(l.wire, p, None) /\ r.opp = Put(l.opp, p, None)
      /\ r.owner = Put(l.owner, p, o)
  BY <1>3, <1>4 DEF IsDoc
<1>7. r.subs = [l.subs EXCEPT ![o] = Append(@, p)]
  BY <1>3, <1>4 DEF IsDoc
<1>8. IsDoc(r)
  <2>1. r = [elements |-> l.elements, ids |-> l.ids, cls |-> l.cls, ends |-> l.ends,
             wire |-> Put(l.wire, p, None), opp |-> Put(l.opp, p, None),
             owner |-> Put(l.owner, p, o), subs |-> [l.subs EXCEPT ![o] = Append(@, p)]]
    BY <1>3, <1>4 DEF IsDoc
  <2>2. QED BY <1>5, <1>6, <1>7, <2>1 DEF IsDoc
<1>9. Listing(r)
  BY <1>2, <1>5, <1>8, SameListing
<1>10. Typed(d) /\ DOMAIN d.cls = d.ids
  BY DEF Shape, Typed
<1>11. r.cls \in [r.ids -> Classes] /\ r.cls[p] = class /\ \A x \in d.ids : r.cls[x] = d.cls[x]
  BY <1>1, <1>2, <1>5, <1>10 DEF Typed, Put, Classes
<1>12. Wires(r) = Wires(d) /\ Ports(r) = Ports(d) \cup {p} /\ Owners(r) = Owners(d)
  <2>1. DOMAIN r.cls = d.ids \cup {p}
    BY <1>2, <1>5, <1>11
  <2>2. Wires(r) = Wires(d)
    BY <1>1, <1>10, <1>11, <2>1 DEF Of, Wires
  <2>3. Ports(r) = Ports(d) \cup {p}
    BY <1>1, <1>10, <1>11, <2>1 DEF Of, Ports
  <2>4. Owners(r) = Owners(d)
    BY <1>1, <1>10, <1>11, <2>1 DEF Of, Joints, Components, Owners
  <2>5. QED BY <2>2, <2>3, <2>4
<1>13. o \in Nat /\ p \notin Ports(d) /\ p \notin Owners(d)
  BY <1>1, <1>10, Kinds DEF Shape, Listing
<1>14. /\ r.wire \in [Ports(r) -> Nat] /\ r.wire[p] = None
       /\ \A x \in Ports(d) : r.wire[x] = d.wire[x]
  <2>1. d.wire \in [Ports(d) -> Nat] /\ r.wire = Put(d.wire, p, None)
    BY <1>2, <1>6, <1>10 DEF Typed
  <2>2. QED BY <1>12, <1>13, <2>1 DEF Put, None
<1>15. /\ r.opp \in [Ports(r) -> Nat] /\ r.opp[p] = None
       /\ \A x \in Ports(d) : r.opp[x] = d.opp[x]
  <2>1. d.opp \in [Ports(d) -> Nat] /\ r.opp = Put(d.opp, p, None)
    BY <1>2, <1>6, <1>10 DEF Typed
  <2>2. QED BY <1>12, <1>13, <2>1 DEF Put, None
<1>16. /\ r.owner \in [Ports(r) -> Nat] /\ r.owner[p] = o
       /\ \A x \in Ports(d) : r.owner[x] = d.owner[x]
  <2>1. d.owner \in [Ports(d) -> Nat] /\ r.owner = Put(d.owner, p, o)
    BY <1>2, <1>6, <1>10 DEF Typed
  <2>2. QED BY <1>12, <1>13, <2>1 DEF Put
<1>17. /\ r.subs \in [Owners(r) -> Seq(Nat)] /\ r.subs[o] = Append(d.subs[o], p)
       /\ \A x \in Owners(d) \ {o} : r.subs[x] = d.subs[x]
  <2>1. d.subs \in [Owners(d) -> Seq(Nat)]
    BY <1>10 DEF Typed
  <2>2. d.subs[o] \in Seq(Nat) /\ p \in Nat
    BY <1>1, <2>1
  <2>3. Append(d.subs[o], p) \in Seq(Nat)
    BY <2>2, AppendProperties
  <2>4. r.subs = [d.subs EXCEPT ![o] = Append(d.subs[o], p)]
    BY <1>2, <1>7
  <2>5. QED BY <1>12, <2>1, <2>3, <2>4
<1>18. Typed(r)
  BY <1>2, <1>5, <1>10, <1>11, <1>12, <1>14, <1>15, <1>16, <1>17 DEF Typed
<1>19. QED
  BY <1>1, <1>2, <1>5, <1>9, <1>11, <1>14, <1>15, <1>16, <1>17, <1>18 DEF Shape

\* A new element o with n new ports.
Owning(r, d, o, class, portClass, n) ==
  /\ Shape(r) /\ o \in Nat \ {0} /\ o \notin d.ids
  /\ r.ids = d.ids \cup {o} \cup {r.subs[o][k] : k \in 1..n}
  /\ r.cls[o] = class /\ \A x \in d.ids : r.cls[x] = d.cls[x]
  /\ r.ends = d.ends
  /\ Len(r.subs[o]) = n /\ IsInjective(r.subs[o])
  /\ \A k \in 1..n : /\ r.subs[o][k] \notin d.ids \cup {o}
                     /\ r.cls[r.subs[o][k]] = portClass /\ r.owner[r.subs[o][k]] = o
                     /\ r.wire[r.subs[o][k]] = None /\ r.opp[r.subs[o][k]] = None
  /\ \A x \in Ports(d) : r.wire[x] = d.wire[x] /\ r.opp[x] = d.opp[x] /\ r.owner[x] = d.owner[x]
  /\ \A x \in Owners(d) : r.subs[x] = d.subs[x]

Begun(d, o, class) == [Listed(d, o, class) EXCEPT !.subs = Put(@, o, <<>>)]

LEMMA NoPortsYet ==
  ASSUME NEW d, Shape(d), NEW class \in {"component", "joint"}, NEW portClass,
         NEW o, o = Alloc(d), NEW r, r = Begun(d, o, class)
  PROVE  Owning(r, d, o, class, portClass, 0)
<1> DEFINE l == Listed(d, o, class)
<1>1. o \in Nat \ {0} /\ o \notin d.ids
  BY AllocFresh DEF Shape
<1>2. /\ Listing(l) /\ l.ids = d.ids \cup {o} /\ l.cls = Put(d.cls, o, class)
      /\ l.ends = d.ends /\ l.wire = d.wire /\ l.opp = d.opp
      /\ l.owner = d.owner /\ l.subs = d.subs
  BY <1>1, ListedIs DEF Shape
<1>3. r = [l EXCEPT !.subs = Put(@, o, <<>>)]
  BY DEF Begun
<1> HIDE DEF l
<1>4. IsDoc(l)
  BY <1>2 DEF Listing
<1>5. r.elements = l.elements /\ r.ids = l.ids /\ r.cls = l.cls /\ r.ends = l.ends
  BY <1>3, <1>4 DEF IsDoc
<1>6. r.wire = l.wire /\ r.opp = l.opp /\ r.owner = l.owner /\ r.subs = Put(l.subs, o, <<>>)
  BY <1>3, <1>4 DEF IsDoc
<1>7. IsDoc(r)
  <2>1. r = [elements |-> l.elements, ids |-> l.ids, cls |-> l.cls, ends |-> l.ends,
             wire |-> l.wire, opp |-> l.opp, owner |-> l.owner, subs |-> Put(l.subs, o, <<>>)]
    BY <1>3, <1>4 DEF IsDoc
  <2>2. QED BY <1>5, <1>6, <2>1 DEF IsDoc
<1>8. Listing(r)
  BY <1>2, <1>5, <1>7, SameListing
<1>9. Typed(d) /\ DOMAIN d.cls = d.ids
  BY DEF Shape, Typed
<1>10. r.cls \in [r.ids -> Classes] /\ r.cls[o] = class /\ \A x \in d.ids : r.cls[x] = d.cls[x]
  <2>1. r.cls = [x \in d.ids \cup {o} |-> IF x = o THEN class ELSE d.cls[x]]
    BY <1>2, <1>5, <1>9 DEF Put
  <2>2. d.cls \in [d.ids -> Classes] /\ class \in Classes /\ r.ids = d.ids \cup {o}
    BY <1>2, <1>5, <1>9 DEF Typed, Classes
  <2>3. r.cls \in [r.ids -> Classes]
    BY <2>1, <2>2
  <2>4. r.cls[o] = class
    BY <2>1
  <2>5. ASSUME NEW x \in d.ids PROVE r.cls[x] = d.cls[x]
    BY <1>1, <2>1
  <2>6. QED BY <2>3, <2>4, <2>5
<1>11. Wires(r) = Wires(d) /\ Ports(r) = Ports(d) /\ Owners(r) = Owners(d) \cup {o}
  <2>1. DOMAIN r.cls = d.ids \cup {o}
    BY <1>2, <1>5, <1>10
  <2>2. Wires(r) = Wires(d)
    BY <1>1, <1>9, <1>10, <2>1 DEF Of, Wires
  <2>3. Ports(r) = Ports(d)
    BY <1>1, <1>9, <1>10, <2>1 DEF Of, Ports
  <2>4. Owners(r) = Owners(d) \cup {o}
    BY <1>1, <1>9, <1>10, <2>1 DEF Of, Joints, Components, Owners
  <2>5. QED BY <2>2, <2>3, <2>4
<1>12. /\ r.subs \in [Owners(r) -> Seq(Nat)] /\ r.subs[o] = <<>>
       /\ \A x \in Owners(d) : r.subs[x] = d.subs[x]
  <2>1. d.subs \in [Owners(d) -> Seq(Nat)] /\ r.subs = Put(d.subs, o, <<>>) /\ o \notin Owners(d)
    BY <1>1, <1>2, <1>6, <1>9, Kinds DEF Typed
  <2>2. << >> \in Seq(Nat)
    OBVIOUS
  <2>3. QED BY <1>11, <2>1, <2>2 DEF Put
<1>13. Typed(r)
  BY <1>2, <1>5, <1>6, <1>9, <1>10, <1>11, <1>12 DEF Typed
<1>14. r.ids = d.ids \cup {o} \cup {r.subs[o][k] : k \in 1..0} /\ Len(r.subs[o]) = 0
       /\ IsInjective(r.subs[o])
  <2>1. 1..0 = {}
    OBVIOUS
  <2>2. Len(<<>>) = 0 /\ IsInjective(<<>>)
    BY DEF IsInjective
  <2>3. r.ids = d.ids \cup {o}
    BY <1>2, <1>5
  <2>4. {r.subs[o][k] : k \in 1..0} = {}
    BY <2>1
  <2>5. QED BY <1>12, <2>2, <2>3, <2>4
<1>15. \A k \in 1..0 : FALSE
  OBVIOUS
<1>16. QED
  BY <1>1, <1>2, <1>5, <1>6, <1>8, <1>10, <1>12, <1>13, <1>14, <1>15 DEF Shape, Owning

LEMMA OnePortMore ==
  ASSUME NEW d, NEW o, NEW class \in {"component", "joint"},
         NEW portClass \in {"pin", "jointport"}, NEW n \in Nat,
         Shape(d), NEW q, Owning(q, d, o, class, portClass, n),
         NEW r, r = CreatePort(q, portClass, o)
  PROVE  Owning(r, d, o, class, portClass, n + 1)
<1>0. SUFFICES ASSUME NEW p, p = Alloc(q), NEW s, s = q.subs[o], NEW t, t = r.subs[o]
      PROVE Owning(r, d, o, class, portClass, n + 1)
  OBVIOUS
<1> USE <1>0
<1>1. /\ Shape(q) /\ o \in Nat \ {0} /\ o \notin d.ids
      /\ q.ids = d.ids \cup {o} \cup {s[k] : k \in 1..n}
      /\ q.cls[o] = class /\ \A x \in d.ids : q.cls[x] = d.cls[x]
      /\ q.ends = d.ends /\ Len(s) = n /\ IsInjective(s)
  BY DEF Owning
<1>2. o \in q.ids /\ o \in Owners(q) /\ Typed(q) /\ Typed(d)
  BY <1>1, Kinds DEF Shape
<1>3. /\ Shape(r) /\ p \in Nat \ {0} /\ p \notin q.ids /\ r.ids = q.ids \cup {p}
      /\ r.cls[p] = portClass /\ \A x \in q.ids : r.cls[x] = q.cls[x]
      /\ r.ends = q.ends /\ r.wire[p] = None /\ r.opp[p] = None /\ r.owner[p] = o
      /\ \A x \in Ports(q) : r.wire[x] = q.wire[x] /\ r.opp[x] = q.opp[x]
                             /\ r.owner[x] = q.owner[x]
      /\ t = Append(s, p)
      /\ \A x \in Owners(q) \ {o} : r.subs[x] = q.subs[x]
  <2>1. Shape(q) /\ o \in Owners(q)
    BY <1>1, <1>2
  <2>2. r = CreatePort(q, portClass, o) /\ p = Alloc(q) /\ r.subs[o] = t /\ q.subs[o] = s
    OBVIOUS
  <2>3. /\ Shape(r) /\ p \in Nat \ {0} /\ p \notin q.ids /\ r.ids = q.ids \cup {p}
        /\ r.cls[p] = portClass /\ \A x \in q.ids : r.cls[x] = q.cls[x]
        /\ r.ends = q.ends /\ r.wire[p] = None /\ r.opp[p] = None /\ r.owner[p] = o
    BY <2>1, CreatePortIs
  <2>4. /\ \A x \in Ports(q) : r.wire[x] = q.wire[x] /\ r.opp[x] = q.opp[x]
                               /\ r.owner[x] = q.owner[x]
        /\ r.subs[o] = Append(q.subs[o], p)
        /\ \A x \in Owners(q) \ {o} : r.subs[x] = q.subs[x]
    BY <2>1, CreatePortIs
  <2>5. QED BY <2>2, <2>3, <2>4
<1>4. s \in Seq(Nat)
  BY <1>2 DEF Typed
<1>5. /\ Len(t) = n + 1 /\ DOMAIN t = 1..(n + 1) /\ t[n + 1] = p /\ \A k \in 1..n : t[k] = s[k]
      /\ DOMAIN s = 1..n
  BY <1>1, <1>3, <1>4
<1>6. \A k \in 1..(n + 1) : k \in 1..n \/ k = n + 1
  OBVIOUS
<1>7. \A k \in 1..n : /\ s[k] \in q.ids /\ s[k] \notin d.ids \cup {o} /\ q.cls[s[k]] = portClass
                      /\ q.owner[s[k]] = o /\ q.wire[s[k]] = None /\ q.opp[s[k]] = None
                      /\ s[k] \in Ports(q)
  <2>1. ASSUME NEW k \in 1..n
        PROVE  /\ s[k] \in q.ids /\ s[k] \notin d.ids \cup {o} /\ q.cls[s[k]] = portClass
               /\ q.owner[s[k]] = o /\ q.wire[s[k]] = None /\ q.opp[s[k]] = None
    <3>1. s[k] \in q.ids
      BY <1>1
    <3>2. QED BY <3>1 DEF Owning
  <2>2. QED BY <1>2, <2>1, Kinds
<1>8. IsInjective(t)
  BY <1>1, <1>3, <1>5, <1>6, <1>7 DEF IsInjective
<1>9. r.ids = d.ids \cup {o} \cup {t[k] : k \in 1..(n + 1)}
  <2>1. {t[k] : k \in 1..(n + 1)} = {s[k] : k \in 1..n} \cup {p}
    <3>1. \A k \in 1..n : k \in 1..(n + 1)
      OBVIOUS
    <3>2. n + 1 \in 1..(n + 1)
      OBVIOUS
    <3>3. \A y : y \in {t[k] : k \in 1..(n + 1)} => y \in {s[k] : k \in 1..n} \cup {p}
      BY <1>5, <1>6
    <3>4. \A y : y \in {s[k] : k \in 1..n} \cup {p} => y \in {t[k] : k \in 1..(n + 1)}
      BY <1>5, <3>1, <3>2
    <3>5. QED BY <3>3, <3>4
  <2>2. QED BY <1>1, <1>3, <2>1
<1>10. ASSUME NEW k \in 1..(n + 1)
       PROVE  /\ t[k] \notin d.ids \cup {o} /\ r.cls[t[k]] = portClass /\ r.owner[t[k]] = o
              /\ r.wire[t[k]] = None /\ r.opp[t[k]] = None
  <2>1. CASE k = n + 1
    BY <1>1, <1>3, <1>5, <2>1
  <2>2. CASE k \in 1..n
    <3> DEFINE v == s[k]
    <3>1. t[k] = v
      BY <1>5, <2>2
    <3>2. /\ v \in q.ids /\ v \in Ports(q) /\ v \notin d.ids \cup {o} /\ q.cls[v] = portClass
          /\ q.owner[v] = o /\ q.wire[v] = None /\ q.opp[v] = None
      BY <1>7, <2>2
    <3> HIDE DEF v
    <3>3. r.cls[v] = q.cls[v] /\ r.owner[v] = q.owner[v] /\ r.wire[v] = q.wire[v]
          /\ r.opp[v] = q.opp[v]
      BY <1>3, <3>2
    <3>4. QED BY <3>1, <3>2, <3>3
  <2>3. QED BY <1>6, <2>1, <2>2
<1>11. \A x \in Ports(d) : x \in Ports(q) /\ r.wire[x] = d.wire[x] /\ r.opp[x] = d.opp[x]
                           /\ r.owner[x] = d.owner[x]
  <2>1. ASSUME NEW x \in Ports(d) PROVE x \in Ports(q)
    <3>1. x \in d.ids /\ d.cls[x] \in {"pin", "jointport"}
      BY <1>2, Kinds
    <3>2. x \in q.ids /\ q.cls[x] \in {"pin", "jointport"}
      BY <1>1, <3>1
    <3>3. QED BY <1>2, <3>2, Kinds
  <2>2. \A x \in Ports(d) : q.wire[x] = d.wire[x] /\ q.opp[x] = d.opp[x] /\ q.owner[x] = d.owner[x]
    BY DEF Owning
  <2>3. QED BY <1>3, <2>1, <2>2
<1>12. \A x \in Owners(d) : r.subs[x] = d.subs[x]
  <2>1. ASSUME NEW x \in Owners(d) PROVE x \in Owners(q) \ {o}
    <3>1. x \in d.ids /\ d.cls[x] \in {"component", "joint"}
      BY <1>2, Kinds
    <3>2. x \in q.ids /\ q.cls[x] \in {"component", "joint"} /\ x # o
      BY <1>1, <3>1
    <3>3. QED BY <1>2, <3>2, Kinds
  <2>2. \A x \in Owners(d) : q.subs[x] = d.subs[x]
    BY DEF Owning
  <2>3. QED BY <1>3, <2>1, <2>2
<1>13. r.cls[o] = class /\ (\A x \in d.ids : r.cls[x] = d.cls[x]) /\ r.ends = d.ends
  BY <1>1, <1>2, <1>3
<1>14. Shape(r) /\ o \in Nat \ {0} /\ o \notin d.ids
  BY <1>1, <1>3
<1>15. QED
  BY <1>5, <1>8, <1>9, <1>10, <1>11, <1>12, <1>13, <1>14 DEF Owning

Counting(n) == [i \in 1..n |-> i]

LEMMA CreatesFold ==
  ASSUME NEW d, NEW class, NEW portClass, NEW n \in Nat, NEW o, o = Alloc(d),
         NEW bare, bare = Begun(d, o, class), NEW s, s = Counting(n)
  PROVE  \E g : Sequel("create", <<portClass, o>>, bare, s, g)
                /\ CreateOwner(d, class, portClass, n) = g[n]
<1> DEFINE f == CHOOSE f : f = [t \in SUBSET DOMAIN s |->
                  IF t = {} THEN bare ELSE CreatePort(f[t \ {Max(t)}], portClass, o)]
<1>1. CreateOwner(d, class, portClass, n) = f[DOMAIN s]
  BY DEF CreateOwner, Begun, Counting, FoldLeft, MapThenFoldSet
<1>2. DOMAIN s = 1..n /\ Len(s) = n
  BY DEF Counting
<1>3. f = [t \in SUBSET DOMAIN s |->
             IF t = {} THEN bare ELSE CreatePort(f[t \ {Max(t)}], portClass, o)]
  <2>1. PICK g : Folding("create", <<portClass, o>>, bare, s, n, g)
    BY FoldExists
  <2>2. g = [t \in SUBSET DOMAIN s |->
               IF t = {} THEN bare ELSE CreatePort(g[t \ {Max(t)}], portClass, o)]
    BY <1>2, <2>1 DEF Folding, Step
  <2>3. QED BY <2>2
<1> HIDE DEF f
<1>4. Folding("create", <<portClass, o>>, bare, s, n, f)
  BY <1>2, <1>3 DEF Folding, Step
<1>5. /\ Len(s) \in Nat /\ DOMAIN s = 1..Len(s)
      /\ Folding("create", <<portClass, o>>, bare, s, Len(s), f)
  BY <1>2, <1>4
<1>6. PICK g : Sequel("create", <<portClass, o>>, bare, s, g) /\ f[DOMAIN s] = g[Len(s)]
  BY <1>5, FoldSteps
<1>7. QED BY <1>1, <1>2, <1>6

LEMMA CreateOwnerIs ==
  ASSUME NEW d, Shape(d), NEW class \in {"component", "joint"},
         NEW portClass \in {"pin", "jointport"}, NEW n \in Nat, NEW o, o = Alloc(d)
  PROVE  Owning(CreateOwner(d, class, portClass, n), d, o, class, portClass, n)
<1> DEFINE bare == Begun(d, o, class)
           s == Counting(n)
<1>1. Owning(bare, d, o, class, portClass, 0)
  BY NoPortsYet
<1>2. Len(s) = n /\ s = Counting(n) /\ bare = Begun(d, o, class)
        /\ \A i \in 1..n : s[i] = i
  BY DEF Counting
<1> HIDE DEF bare, s
<1>3. PICK g : Sequel("create", <<portClass, o>>, bare, s, g)
               /\ CreateOwner(d, class, portClass, n) = g[n]
  BY <1>2, CreatesFold
<1>4. g[0] = bare /\ \A i \in 1..n : g[i] = CreatePort(g[i - 1], portClass, o)
  BY <1>2, <1>3 DEF Sequel, Step
<1> DEFINE T == {i \in Nat : Owning(g[i], d, o, class, portClass, i)}
<1>5. 0 \in T
  BY <1>1, <1>4
<1>6. ASSUME NEW i \in 1..n, i - 1 \in T PROVE i \in T
  <2>1. PICK m \in Nat : m = i - 1
    OBVIOUS
  <2>2. Owning(g[m], d, o, class, portClass, m) /\ g[i] = CreatePort(g[m], portClass, o)
    BY <1>4, <1>6, <2>1
  <2>3. Owning(g[i], d, o, class, portClass, m + 1)
    BY <2>2, OnePortMore
  <2>4. m + 1 = i
    BY <2>1
  <2>5. QED BY <2>3, <2>4
<1> HIDE DEF T
<1>7. \A i \in 0..n : i \in T
  BY <1>5, <1>6, CountUp
<1>8. n \in T
  BY <1>7
<1>9. QED BY <1>3, <1>8 DEF T

\* What the new element and its ports are.
Parts(r, o, n) == {r.subs[o][k] : k \in 1..n}

Grown(r, d, o, class, S) ==
  /\ Wires(r) = Wires(d) /\ Ports(r) = Ports(d) \cup S /\ Owners(r) = Owners(d) \cup {o}
  /\ Joints(r) = Joints(d) \cup (IF class = "joint" THEN {o} ELSE {})
  /\ Components(r) = Components(d) \cup (IF class = "component" THEN {o} ELSE {})
  /\ S \cap d.ids = {} /\ o \notin d.ids

LEMMA OwningKinds ==
  ASSUME NEW d, Shape(d), NEW o, NEW class \in {"component", "joint"},
         NEW portClass \in {"pin", "jointport"}, NEW n \in Nat, NEW r,
         Owning(r, d, o, class, portClass, n)
  PROVE  Grown(r, d, o, class, Parts(r, o, n))
<1> DEFINE S == Parts(r, o, n)
<1>1. Typed(d) /\ Typed(r)
  BY DEF Owning, Shape
<1>2. /\ r.ids = d.ids \cup {o} \cup S /\ o \notin d.ids /\ o \in r.ids
      /\ r.cls[o] = class /\ \A x \in d.ids : r.cls[x] = d.cls[x]
  BY DEF Owning, Parts
<1>3. \A x \in S : x \notin d.ids /\ x # o /\ r.cls[x] = portClass
  BY DEF Owning, Parts
<1> HIDE DEF S
<1>4. Wires(r) = Wires(d)
  <2>1. ASSUME NEW x PROVE x \in Wires(r) <=> x \in Wires(d)
    BY <1>1, <1>2, <1>3, Kinds
  <2>2. QED BY <2>1
<1>5. Ports(r) = Ports(d) \cup S
  <2>1. ASSUME NEW x PROVE x \in Ports(r) <=> x \in Ports(d) \cup S
    BY <1>1, <1>2, <1>3, Kinds
  <2>2. QED BY <2>1
<1>6. Joints(r) = Joints(d) \cup (IF class = "joint" THEN {o} ELSE {})
  <2>1. ASSUME NEW x PROVE x \in Joints(r) <=> x \in Joints(d) \/ (x = o /\ class = "joint")
    BY <1>1, <1>2, <1>3, Kinds
  <2>2. QED BY <2>1
<1>7. Components(r) = Components(d) \cup (IF class = "component" THEN {o} ELSE {})
  <2>1. ASSUME NEW x PROVE x \in Components(r) <=> x \in Components(d) \/ (x = o /\ class = "component")
    BY <1>1, <1>2, <1>3, Kinds
  <2>2. QED BY <2>1
<1>8. Owners(r) = Owners(d) \cup {o}
  BY <1>6, <1>7 DEF Owners
<1>9. QED BY <1>2, <1>3, <1>4, <1>5, <1>6, <1>7, <1>8 DEF Grown, S

LEMMA OwningOwned ==
  ASSUME NEW d, Shape(d), Owned(d), NEW o, NEW class \in {"component", "joint"},
         NEW portClass \in {"pin", "jointport"}, NEW n \in Nat, NEW r,
         Owning(r, d, o, class, portClass, n),
         class = "component" <=> portClass = "pin", class = "joint" => n = 3
  PROVE  Owned(r)
<1>0. SUFFICES ASSUME NEW s, s = r.subs[o], NEW S, S = Parts(r, o, n) PROVE Owned(r)
  OBVIOUS
<1>1. Grown(r, d, o, class, S)
  BY <1>0, OwningKinds
<1>2. /\ Wires(r) = Wires(d) /\ Ports(r) = Ports(d) \cup S /\ Owners(r) = Owners(d) \cup {o}
      /\ S \cap d.ids = {} /\ o \notin d.ids
      /\ Joints(r) = Joints(d) \cup (IF class = "joint" THEN {o} ELSE {})
  BY <1>1 DEF Grown
<1>3. Typed(d) /\ Typed(r)
  BY DEF Owning, Shape
<1>4. /\ Len(s) = n /\ IsInjective(s) /\ r.cls[o] = class
      /\ \A x \in d.ids : r.cls[x] = d.cls[x]
      /\ \A x \in Ports(d) : r.owner[x] = d.owner[x]
      /\ \A x \in Owners(d) : r.subs[x] = d.subs[x]
  BY <1>0 DEF Owning
<1>5. \A k \in 1..n : s[k] \in S /\ r.cls[s[k]] = portClass /\ r.owner[s[k]] = o
  BY <1>0 DEF Owning, Parts
<1>6. \A x \in S : \E k \in 1..n : s[k] = x
  BY <1>0 DEF Parts
<1>7. \A x \in Owners(d) : x # o
  BY <1>2, <1>3, Kinds
<1>8. \A x \in Ports(d) : x \in d.ids /\ x \notin S /\ d.owner[x] \in Owners(d) /\ d.owner[x] \in d.ids
  BY <1>2, <1>3, Kinds DEF Owned
<1>9. ASSUME NEW x \in Owners(r), NEW k \in 1..Len(r.subs[x])
      PROVE  r.subs[x][k] \in Ports(r) /\ r.owner[r.subs[x][k]] = x
  <2>1. CASE x = o
    BY <1>0, <1>2, <1>4, <1>5, <2>1
  <2>2. CASE x \in Owners(d)
    <3>1. d.subs[x][k] \in Ports(d) /\ d.owner[d.subs[x][k]] = x
      BY <1>4, <2>2 DEF Owned
    <3>2. QED BY <1>2, <1>4, <2>2, <3>1
  <2>3. QED BY <1>2, <2>1, <2>2
<1>10. \A x \in Owners(r) : IsInjective(r.subs[x])
  <2>1. \A x \in Owners(d) : IsInjective(d.subs[x])
    BY DEF Owned
  <2>2. QED BY <1>0, <1>2, <1>4, <2>1
<1>11. ASSUME NEW p \in Ports(r)
       PROVE  /\ r.owner[p] \in Owners(r)
              /\ \E k \in 1..Len(r.subs[r.owner[p]]) : r.subs[r.owner[p]][k] = p
              /\ r.cls[p] = "pin" <=> r.cls[r.owner[p]] = "component"
  <2>1. CASE p \in S
    <3>1. PICK k \in 1..n : s[k] = p
      BY <1>6, <2>1
    <3>2. r.owner[p] = o /\ r.cls[p] = portClass /\ k \in 1..Len(r.subs[o]) /\ r.subs[o][k] = p
      BY <1>0, <1>4, <1>5, <3>1
    <3>3. o \in Owners(r) /\ (r.cls[p] = "pin" <=> r.cls[o] = "component")
      BY <1>2, <1>4, <3>2
    <3>4. QED BY <3>2, <3>3
  <2>2. CASE p \in Ports(d)
    <3>1. /\ d.owner[p] \in Owners(d)
          /\ \E k \in 1..Len(d.subs[d.owner[p]]) : d.subs[d.owner[p]][k] = p
          /\ d.cls[p] = "pin" <=> d.cls[d.owner[p]] = "component"
      BY <2>2 DEF Owned
    <3>2. QED BY <1>2, <1>4, <1>8, <2>2, <3>1
  <2>3. QED BY <1>2, <2>1, <2>2
<1>12. \A j \in Joints(r) : Len(r.subs[j]) = 3
  <2>1. \A j \in Joints(d) : Len(d.subs[j]) = 3 /\ j \in Owners(d)
    BY DEF Owned, Owners
  <2>2. QED BY <1>0, <1>2, <1>4, <2>1
<1>13. QED BY <1>9, <1>10, <1>11, <1>12 DEF Owned

\* The new wires W and the ports of others are plugged, and nothing else is changed.
Relinked(r, d, W) ==
  /\ Shape(r) /\ r.ids = d.ids \cup W /\ W \cap d.ids = {}
  /\ \A x \in W : r.cls[x] = "wire"
  /\ \A x \in d.ids : r.cls[x] = d.cls[x]
  /\ r.owner = d.owner /\ r.subs = d.subs

LEMMA RelinkedKinds ==
  ASSUME NEW d, Shape(d), NEW W, NEW r, Relinked(r, d, W)
  PROVE  /\ Wires(r) = Wires(d) \cup W /\ Ports(r) = Ports(d) /\ Owners(r) = Owners(d)
         /\ Joints(r) = Joints(d) /\ Components(r) = Components(d)
         /\ \A p \in Ports(d) : r.cls[p] = d.cls[p]
<1>1. Typed(d) /\ Typed(r)
  BY DEF Relinked, Shape
<1>2. /\ r.ids = d.ids \cup W /\ W \cap d.ids = {} /\ \A x \in W : r.cls[x] = "wire"
      /\ \A x \in d.ids : r.cls[x] = d.cls[x]
  BY DEF Relinked
<1>3. \A x : x \in Wires(r) <=> x \in Wires(d) \cup W
  BY <1>1, <1>2, Kinds
<1>4. \A x : x \in Ports(r) <=> x \in Ports(d)
  BY <1>1, <1>2, Kinds
<1>5. \A x : x \in Joints(r) <=> x \in Joints(d)
  BY <1>1, <1>2, Kinds
<1>6. \A x : x \in Components(r) <=> x \in Components(d)
  BY <1>1, <1>2, Kinds
<1>7. \A p \in Ports(d) : r.cls[p] = d.cls[p]
  BY <1>1, <1>2, Kinds
<1>8. Joints(r) = Joints(d) /\ Components(r) = Components(d)
  BY <1>5, <1>6
<1>9. QED BY <1>3, <1>4, <1>7, <1>8 DEF Owners

LEMMA RelinkedOwned ==
  ASSUME NEW d, Shape(d), Owned(d), NEW W, NEW r, Relinked(r, d, W)
  PROVE  Owned(r)
<1>1. /\ Ports(r) = Ports(d) /\ Owners(r) = Owners(d) /\ Joints(r) = Joints(d)
      /\ \A p \in Ports(d) : r.cls[p] = d.cls[p]
  BY RelinkedKinds
<1>2. r.owner = d.owner /\ r.subs = d.subs /\ \A x \in d.ids : r.cls[x] = d.cls[x]
  BY DEF Relinked
<1>3. \A o \in Owners(d) : o \in d.ids
  BY Kinds DEF Shape
<1>4. \A p \in Ports(r) : r.cls[p] = "pin" <=> r.cls[r.owner[p]] = "component"
  BY <1>1, <1>2, <1>3 DEF Owned
<1>5. QED BY <1>1, <1>2, <1>4 DEF Owned

LEMMA WiresAdded ==
  ASSUME NEW d, Shape(d), NEW W, NEW q, Relinked(q, d, W), NEW r, Replugged(r, q)
  PROVE  Relinked(r, d, W)
BY DEF Relinked, Replugged

LEMMA WireAdded ==
  ASSUME NEW d, Shape(d), NEW w, w = Alloc(d)
  PROVE  Relinked(CreateWire(d), d, {w})
<1>1. SUFFICES ASSUME NEW r, r = CreateWire(d) PROVE Relinked(r, d, {w})
  OBVIOUS
<1>2. /\ Shape(r) /\ w \notin d.ids /\ r.ids = d.ids \cup {w}
      /\ r.cls[w] = "wire" /\ \A x \in d.ids : r.cls[x] = d.cls[x]
      /\ r.owner = d.owner /\ r.subs = d.subs
  BY <1>1, CreateWireIs
<1>3. QED BY <1>2 DEF Relinked

\* Wires that do not reach a joint make no circle.
LEMMA ForestKept ==
  ASSUME NEW d, Forest(d, {}), NEW r, Joints(r) = Joints(d),
         \A p \in Ports(r) : r.owner[p] \in Joints(r) =>
           /\ p \in Ports(d) /\ d.owner[p] = r.owner[p]
           /\ r.owner[r.opp[p]] \in Joints(r) => d.owner[d.opp[p]] = r.owner[r.opp[p]]
  PROVE  Forest(r, {})
<1>1. SUFFICES ASSUME NEW J \in SUBSET Joints(r), J # {} PROVE \E j \in J : Leaf(r, {}, J, j)
  BY DEF Forest
<1>2. PICK j \in J : Leaf(d, {}, J, j)
  BY <1>1 DEF Forest
<1>3. ASSUME NEW p \in Ports(r), NEW q \in Ports(r), r.owner[p] = j, r.owner[q] = j,
             r.owner[r.opp[p]] \in J, r.owner[r.opp[q]] \in J
      PROVE  p = q
  <2>1. j \in Joints(r) /\ r.owner[r.opp[p]] \in Joints(r) /\ r.owner[r.opp[q]] \in Joints(r)
    BY <1>1, <1>3
  <2>2. /\ p \in Ports(d) /\ d.owner[p] = j /\ d.owner[d.opp[p]] \in J
        /\ q \in Ports(d) /\ d.owner[q] = j /\ d.owner[d.opp[q]] \in J
    BY <1>3, <2>1
  <2>3. QED BY <1>2, <2>2 DEF Leaf
<1>4. QED BY <1>3 DEF Leaf

-----------------------------------------------------------------------------
(* What the handlers make of a document.                                    *)

\* A component that is dragged in is not wired.
LEMMA ComponentCreated ==
  ASSUME NEW d, Sound(d, {}), NEW n \in Nat, NEW r, r = CreateOwner(d, "component", "pin", n)
  PROVE  Sound(r, {}) /\ Open(r) = Open(d)
<1>0. SUFFICES ASSUME NEW o, o = Alloc(d), NEW S, S = Parts(r, o, n)
      PROVE Sound(r, {}) /\ Open(r) = Open(d)
  OBVIOUS
<1>1. Shape(d) /\ Owned(d) /\ Plugged(d, {}) /\ Forest(d, {}) /\ Typed(d)
  BY DEF Sound, Shape
<1>2. Owning(r, d, o, "component", "pin", n)
  BY <1>0, <1>1, CreateOwnerIs
<1>3. Shape(r) /\ Typed(r)
  BY <1>2 DEF Owning, Shape
<1>4. Owned(r)
  BY <1>1, <1>2, OwningOwned
<1>5. Grown(r, d, o, "component", S)
  BY <1>0, <1>1, <1>2, OwningKinds
<1>6. /\ Wires(r) = Wires(d) /\ Ports(r) = Ports(d) \cup S /\ Joints(r) = Joints(d)
      /\ S \cap d.ids = {} /\ o \notin d.ids
  BY <1>5 DEF Grown
<1>7. \A x \in S : r.cls[x] = "pin" /\ r.owner[x] = o /\ r.wire[x] = None
  BY <1>0, <1>2 DEF Owning, Parts
<1>8. /\ r.ends = d.ends /\ \A x \in d.ids : r.cls[x] = d.cls[x]
      /\ \A x \in Ports(d) : r.wire[x] = d.wire[x] /\ r.opp[x] = d.opp[x] /\ r.owner[x] = d.owner[x]
  BY <1>2 DEF Owning
<1>9. \A x \in Ports(d) : r.cls[x] = d.cls[x]
  BY <1>1, <1>8, Kinds
<1>10. Plugged(r, {})
  <2>1. ASSUME NEW w \in Wires(r), NEW s, s = r.ends[w][1], NEW e, e = r.ends[w][2]
        PROVE  /\ s \in Ports(r) /\ r.wire[s] = w /\ (e = None => r.cls[s] = "pin")
               /\ (e # None => e \in Ports(r) /\ e # s /\ r.wire[e] = w
                               /\ r.opp[s] = e /\ r.opp[e] = s)
    <3>1. w \in Wires(d) /\ s = d.ends[w][1] /\ e = d.ends[w][2]
      BY <1>6, <1>8, <2>1
    <3>2. /\ s \in Ports(d) /\ d.wire[s] = w /\ (e = None => d.cls[s] = "pin")
          /\ (e # None => e \in Ports(d) /\ e # s /\ d.wire[e] = w
                          /\ d.opp[s] = e /\ d.opp[e] = s)
      BY <1>1, <3>1 DEF Plugged
    <3>3. QED BY <1>6, <1>8, <1>9, <3>2
  <2>2. ASSUME NEW p \in Ports(r)
        PROVE  /\ (r.wire[p] # None => /\ r.wire[p] \in Wires(r)
                                       /\ p \in {r.ends[r.wire[p]][1], r.ends[r.wire[p]][2]})
               /\ (r.cls[p] = "jointport" => r.wire[p] # None)
    <3>1. CASE p \in S
      BY <1>7, <3>1
    <3>2. CASE p \in Ports(d)
      <4>1. /\ (d.wire[p] # None => /\ d.wire[p] \in Wires(d)
                                    /\ p \in {d.ends[d.wire[p]][1], d.ends[d.wire[p]][2]})
            /\ (d.cls[p] = "jointport" => d.wire[p] # None)
        BY <1>1, <3>2 DEF Plugged
      <4>2. QED BY <1>6, <1>8, <1>9, <3>2, <4>1
    <3>3. QED BY <1>6, <3>1, <3>2
  <2>3. QED BY <2>1, <2>2 DEF Plugged
<1>11. Forest(r, {})
  <2>1. ASSUME NEW p \in Ports(r), r.owner[p] \in Joints(r)
        PROVE  /\ p \in Ports(d) /\ d.owner[p] = r.owner[p]
               /\ r.owner[r.opp[p]] \in Joints(r) => d.owner[d.opp[p]] = r.owner[r.opp[p]]
    <3>1. o \notin Joints(d)
      BY <1>1, <1>6, Kinds
    <3>2. p \in Ports(d) /\ d.owner[p] = r.owner[p] /\ r.opp[p] = d.opp[p]
      BY <1>6, <1>7, <1>8, <2>1, <3>1
    <3>3. d.cls[p] = "jointport"
      <4>1. d.owner[p] \in Joints(d)
        BY <1>6, <2>1, <3>2
      <4>2. d.cls[d.owner[p]] = "joint"
        BY <1>1, <4>1, Kinds
      <4>3. d.cls[p] # "pin"
        BY <1>1, <3>2, <4>2 DEF Owned
      <4>4. QED BY <1>1, <3>2, <4>3, Kinds
    <3>4. d.opp[p] \in Ports(d)
      BY <3>2, <3>3, Partner
    <3>5. QED BY <1>8, <3>2, <3>4
  <2>2. QED BY <1>1, <1>6, <2>1, ForestKept
<1>12. Open(r) = Open(d)
  BY <1>6, <1>8 DEF Open
<1>13. QED BY <1>3, <1>4, <1>10, <1>11, <1>12 DEF Sound

\* A port of a joint is a jointport.
LEMMA JointPorts ==
  ASSUME NEW d, Shape(d), Owned(d), NEW p \in Ports(d), d.owner[p] \in Joints(d)
  PROVE  d.cls[p] = "jointport"
<1>1. d.cls[d.owner[p]] = "joint"
  BY Kinds DEF Shape
<1>2. d.cls[p] # "pin"
  BY <1>1 DEF Owned
<1>3. QED BY <1>2, Kinds DEF Shape

\* A wire is begun at a free pin.
LEMMA FirstPin ==
  ASSUME NEW d, Sound(d, {}), Open(d) = {}, NEW p \in Pins(d), d.wire[p] = None,
         NEW h, h = Alloc(d), NEW r, r = ConnectStartPort(CreateWire(d), h, p)
  PROVE  Sound(r, {}) /\ Open(r) = {h}
<1>0. SUFFICES ASSUME NEW q, q = CreateWire(d) PROVE Sound(r, {}) /\ Open(r) = {h}
  OBVIOUS
<1>1. Shape(d) /\ Owned(d) /\ Plugged(d, {}) /\ Forest(d, {}) /\ Typed(d)
  BY DEF Sound, Shape
<1>2. Relinked(q, d, {h})
  BY <1>0, <1>1, WireAdded
<1>3. /\ Shape(q) /\ h \in Nat \ {0} /\ h \notin d.ids
      /\ q.ends[h] = <<None, None>> /\ \A x \in Wires(d) : q.ends[x] = d.ends[x]
      /\ q.wire = d.wire /\ q.opp = d.opp /\ q.owner = d.owner
  BY <1>0, <1>1, CreateWireIs
<1>4. Wires(q) = Wires(d) \cup {h} /\ Ports(q) = Ports(d)
  BY <1>1, <1>2, RelinkedKinds
<1>5. p \in Ports(d) /\ d.cls[p] = "pin" /\ p \in d.ids /\ p # None /\ h # None /\ h \notin Wires(d)
  <2>1. p \in d.ids /\ d.cls[p] = "pin" /\ p \in Ports(d)
    BY <1>1, PinKinds
  <2>2. d.ids \subseteq Nat \ {0}
    BY <1>1 DEF Shape, Listing
  <2>3. h \notin Wires(d)
    BY <1>1, <1>3, Kinds
  <2>4. QED BY <1>3, <2>1, <2>2, <2>3 DEF None
<1>6. StartConnected(r, q, h, p)
  <2>1. h \in Wires(q) /\ p \in Ports(q)
    BY <1>4, <1>5
  <2>2. QED BY <1>0, <1>3, <2>1, ConnectStartAt
<1>7. Relinked(r, d, {h})
  BY <1>1, <1>2, <1>6, WiresAdded DEF StartConnected
<1>8. /\ Wires(r) = Wires(d) \cup {h} /\ Ports(r) = Ports(d) /\ Joints(r) = Joints(d)
      /\ \A x \in Ports(d) : r.cls[x] = d.cls[x]
  BY <1>1, <1>7, RelinkedKinds
<1>9. Owned(r) /\ Shape(r) /\ r.owner = d.owner
  BY <1>1, <1>7, RelinkedOwned DEF Relinked
<1>10. /\ r.ends[h] = <<p, None>> /\ \A x \in Wires(d) : r.ends[x] = d.ends[x]
       /\ \A x \in Ports(d) : r.wire[x] = IF x = p THEN h ELSE d.wire[x]
       /\ \A x \in Ports(d) : r.opp[x] = IF x = p THEN None ELSE d.opp[x]
  BY <1>3, <1>4, <1>5, <1>6 DEF StartConnected
<1>11. Plugged(r, {})
  <2>1. ASSUME NEW w \in Wires(r), NEW s, s = r.ends[w][1], NEW e, e = r.ends[w][2]
        PROVE  /\ s \in Ports(r) /\ r.wire[s] = w /\ (e = None => r.cls[s] = "pin")
               /\ (e # None => e \in Ports(r) /\ e # s /\ r.wire[e] = w
                               /\ r.opp[s] = e /\ r.opp[e] = s)
    <3>1. CASE w = h
      BY <1>5, <1>8, <1>10, <2>1, <3>1
    <3>2. CASE w \in Wires(d)
      <4>1. s = d.ends[w][1] /\ e = d.ends[w][2]
        BY <1>10, <2>1, <3>2
      <4>2. /\ s \in Ports(d) /\ d.wire[s] = w /\ (e = None => d.cls[s] = "pin")
            /\ (e # None => e \in Ports(d) /\ e # s /\ d.wire[e] = w
                            /\ d.opp[s] = e /\ d.opp[e] = s)
        BY <1>1, <3>2, <4>1 DEF Plugged
      <4>3. w # None
        BY <1>1, <3>2, Kinds DEF Shape, Listing, None
      <4>4. s # p /\ e # p
        BY <1>5, <4>2, <4>3
      <4>5. QED BY <1>8, <1>10, <4>2, <4>4
    <3>3. QED BY <1>8, <3>1, <3>2
  <2>2. ASSUME NEW x \in Ports(r)
        PROVE  /\ (r.wire[x] # None => /\ r.wire[x] \in Wires(r)
                                       /\ x \in {r.ends[r.wire[x]][1], r.ends[r.wire[x]][2]})
               /\ (r.cls[x] = "jointport" => r.wire[x] # None)
    <3>1. CASE x = p
      BY <1>5, <1>8, <1>10, <3>1
    <3>2. CASE x # p
      <4>1. /\ (d.wire[x] # None => /\ d.wire[x] \in Wires(d)
                                    /\ x \in {d.ends[d.wire[x]][1], d.ends[d.wire[x]][2]})
            /\ (d.cls[x] = "jointport" => d.wire[x] # None)
        BY <1>1, <1>8 DEF Plugged
      <4>2. QED BY <1>8, <1>10, <3>2, <4>1
    <3>3. QED BY <3>1, <3>2
  <2>3. QED BY <2>1, <2>2 DEF Plugged
<1>12. Forest(r, {})
  <2>1. ASSUME NEW x \in Ports(r), r.owner[x] \in Joints(r)
        PROVE  /\ x \in Ports(d) /\ d.owner[x] = r.owner[x]
               /\ r.owner[r.opp[x]] \in Joints(r) => d.owner[d.opp[x]] = r.owner[r.opp[x]]
    <3>1. d.cls[x] = "jointport"
      BY <1>1, <1>8, <1>9, <2>1, JointPorts
    <3>2. x # p
      BY <1>5, <3>1
    <3>3. QED BY <1>8, <1>9, <1>10, <3>2
  <2>2. QED BY <1>1, <1>8, <2>1, ForestKept
<1>13. Open(r) = {h}
  <2>1. \A w \in Wires(d) : d.ends[w][2] # None
    BY DEF Open
  <2>2. \A w : w \in Open(r) <=> w \in Wires(r) /\ r.ends[w][2] = None
    BY DEF Open
  <2>3. QED BY <1>5, <1>8, <1>10, <2>1, <2>2
<1>14. QED BY <1>9, <1>11, <1>12, <1>13 DEF Sound

\* The wire is brought to another free pin.
LEMMA SecondPin ==
  ASSUME NEW d, Sound(d, {}), NEW h, Open(d) = {h}, NEW p \in Pins(d), d.wire[p] = None,
         NEW r, r = ConnectEndPort(d, h, p)
  PROVE  Sound(r, {}) /\ Open(r) = {}
<1>0. SUFFICES ASSUME NEW b, b = d.ends[h][1] PROVE Sound(r, {}) /\ Open(r) = {}
  OBVIOUS
<1>1. Shape(d) /\ Owned(d) /\ Plugged(d, {}) /\ Forest(d, {}) /\ Typed(d)
  BY DEF Sound, Shape
<1>2. h \in Wires(d) /\ d.ends[h][2] = None /\ h # None
  <2>1. h \in Open(d)
    OBVIOUS
  <2>2. h \in Wires(d) /\ d.ends[h][2] = None
    BY <2>1 DEF Open
  <2>3. h \in d.ids /\ d.ids \subseteq Nat \ {0}
    BY <1>1, <2>2, Kinds DEF Shape, Listing
  <2>4. QED BY <2>2, <2>3 DEF None
<1>3. b \in Ports(d) /\ d.wire[b] = h /\ d.cls[b] = "pin"
  BY <1>0, <1>1, <1>2 DEF Plugged
<1>4. p \in Ports(d) /\ d.cls[p] = "pin" /\ p \in d.ids /\ p # None /\ p # b
  <2>1. p \in d.ids /\ d.cls[p] = "pin" /\ p \in Ports(d)
    BY <1>1, PinKinds
  <2>2. d.ids \subseteq Nat \ {0}
    BY <1>1 DEF Shape, Listing
  <2>3. QED BY <1>2, <1>3, <2>1, <2>2 DEF None
<1>5. EndConnected(r, d, h, p)
  BY <1>1, <1>2, <1>4, ConnectEndAt
<1>6. Relinked(r, d, {})
  BY <1>5 DEF EndConnected, Relinked, Replugged
<1>7. /\ Wires(r) = Wires(d) /\ Ports(r) = Ports(d) /\ Joints(r) = Joints(d)
      /\ \A x \in Ports(d) : r.cls[x] = d.cls[x]
  BY <1>1, <1>6, RelinkedKinds
<1>8. Owned(r) /\ Shape(r) /\ r.owner = d.owner
  BY <1>1, <1>6, RelinkedOwned DEF Relinked
<1>9. /\ r.ends[h] = <<b, p>> /\ \A x \in Wires(d) \ {h} : r.ends[x] = d.ends[x]
      /\ \A x \in Ports(d) : r.wire[x] = IF x = p THEN h ELSE d.wire[x]
      /\ \A x \in Ports(d) : r.opp[x] = IF x = p THEN b ELSE IF x = b THEN p ELSE d.opp[x]
  BY <1>0, <1>5 DEF EndConnected
<1>10. \A w \in Wires(d) \ {h} : d.ends[w][2] # None
  BY DEF Open
<1>11. Plugged(r, {})
  <2>1. ASSUME NEW w \in Wires(r), NEW s, s = r.ends[w][1], NEW e, e = r.ends[w][2]
        PROVE  /\ s \in Ports(r) /\ r.wire[s] = w /\ (e = None => r.cls[s] = "pin")
               /\ (e # None => e \in Ports(r) /\ e # s /\ r.wire[e] = w
                               /\ r.opp[s] = e /\ r.opp[e] = s)
    <3>1. CASE w = h
      BY <1>3, <1>4, <1>7, <1>9, <2>1, <3>1
    <3>2. CASE w \in Wires(d) \ {h}
      <4>1. s = d.ends[w][1] /\ e = d.ends[w][2] /\ e # None
        BY <1>9, <1>10, <2>1, <3>2
      <4>2. /\ s \in Ports(d) /\ d.wire[s] = w
            /\ e \in Ports(d) /\ e # s /\ d.wire[e] = w /\ d.opp[s] = e /\ d.opp[e] = s
        BY <1>1, <3>2, <4>1 DEF Plugged
      <4>3. w # None
        BY <1>1, <3>2, Kinds DEF Shape, Listing, None
      <4>4. s # p /\ e # p /\ s # b /\ e # b
        BY <1>3, <3>2, <4>2, <4>3
      <4>5. QED BY <1>7, <1>9, <4>1, <4>2, <4>4
    <3>3. QED BY <1>7, <3>1, <3>2
  <2>2. ASSUME NEW x \in Ports(r)
        PROVE  /\ (r.wire[x] # None => /\ r.wire[x] \in Wires(r)
                                       /\ x \in {r.ends[r.wire[x]][1], r.ends[r.wire[x]][2]})
               /\ (r.cls[x] = "jointport" => r.wire[x] # None)
    <3>1. CASE x = p
      BY <1>2, <1>4, <1>7, <1>9, <3>1
    <3>2. CASE x = b
      BY <1>2, <1>3, <1>4, <1>7, <1>9, <3>2
    <3>3. CASE x # p /\ x # b
      <4>1. /\ (d.wire[x] # None => /\ d.wire[x] \in Wires(d)
                                    /\ x \in {d.ends[d.wire[x]][1], d.ends[d.wire[x]][2]})
            /\ (d.cls[x] = "jointport" => d.wire[x] # None)
        BY <1>1, <1>7 DEF Plugged
      <4>2. x # None
        BY <1>1, <1>7, Kinds DEF Shape, Listing, None
      <4>3. d.wire[x] # h
        BY <1>0, <1>2, <3>3, <4>1, <4>2
      <4>4. QED BY <1>7, <1>9, <3>3, <4>1, <4>3
    <3>4. QED BY <3>1, <3>2, <3>3
  <2>3. QED BY <2>1, <2>2 DEF Plugged
<1>12. Forest(r, {})
  <2>1. ASSUME NEW x \in Ports(r), r.owner[x] \in Joints(r)
        PROVE  /\ x \in Ports(d) /\ d.owner[x] = r.owner[x]
               /\ r.owner[r.opp[x]] \in Joints(r) => d.owner[d.opp[x]] = r.owner[r.opp[x]]
    <3>1. d.cls[x] = "jointport"
      BY <1>1, <1>7, <1>8, <2>1, JointPorts
    <3>2. x # p /\ x # b
      BY <1>3, <1>4, <3>1
    <3>3. QED BY <1>7, <1>8, <1>9, <3>2
  <2>2. QED BY <1>1, <1>7, <2>1, ForestKept
<1>13. Open(r) = {}
  <2>1. \A w : w \in Open(r) <=> w \in Wires(r) /\ r.ends[w][2] = None
    BY DEF Open
  <2>2. QED BY <1>4, <1>7, <1>9, <1>10, <2>1
<1>14. QED BY <1>8, <1>11, <1>12, <1>13 DEF Sound

\* The wire w is cut at a new joint n, where the wire h that is being drawn ends.
Split(r, d, h, w, n, x, y, z, new) ==
  LET a == d.ends[w][1]
      b == d.ends[w][2]
      c == d.ends[h][1]
  IN  /\ Shape(r) /\ Owned(r)
      /\ Wires(r) = Wires(d) \cup {new} /\ new \notin Wires(d) /\ new # None
      /\ Ports(r) = Ports(d) \cup {x, y, z} /\ {x, y, z} \cap Ports(d) = {}
      /\ x # y /\ y # z /\ z # x
      /\ Joints(r) = Joints(d) \cup {n} /\ n \notin Owners(d)
      /\ \A q \in Ports(d) : r.cls[q] = d.cls[q] /\ r.owner[q] = d.owner[q]
      /\ \A q \in {x, y, z} : r.cls[q] = "jointport" /\ r.owner[q] = n
      /\ r.ends[w] = <<a, x>> /\ r.ends[new] = <<z, b>> /\ r.ends[h] = <<c, y>>
      /\ \A v \in Wires(d) \ {w, h} : r.ends[v] = d.ends[v]
      /\ \A q \in Ports(r) : r.wire[q] = IF q = x THEN w ELSE IF q = y THEN h
                                         ELSE IF q \in {z, b} THEN new ELSE d.wire[q]
      /\ \A q \in Ports(r) : r.opp[q] = IF q = y THEN c ELSE IF q = c THEN y
                                        ELSE IF q = x THEN a ELSE IF q = a THEN x
                                        ELSE IF q = z THEN b ELSE IF q = b THEN z ELSE d.opp[q]

LEMMA SplitIs ==
  ASSUME NEW d, Sound(d, {}), NEW h \in Wires(d), NEW w \in Wires(d), w # h, d.ends[w][2] # None,
         NEW r, r = ConnectEndPort(AddJoint(d, w), h, JointPort(d, w))
  PROVE  \E n, x, y, z, new : Split(r, d, h, w, n, x, y, z, new)
<1>0. SUFFICES ASSUME NEW n, n = Alloc(d), NEW m, m = CreateOwner(d, "joint", "jointport", 3),
                      NEW port, port = m.subs[n], NEW x, x = port[1], NEW y, y = port[2],
                      NEW z, z = port[3], NEW new, new = Alloc(m),
                      NEW a, a = d.ends[w][1], NEW b, b = d.ends[w][2], NEW c, c = d.ends[h][1],
                      NEW c0, c0 = CreateWire(m), NEW c1, c1 = ConnectStartPort(c0, new, z),
                      NEW c2, c2 = ConnectEndPort(c1, new, b), NEW c3, c3 = ConnectEndPort(c2, w, x)
      PROVE \E i, j, k, l, v : Split(r, d, h, w, i, j, k, l, v)
  OBVIOUS
<1>1. Shape(d) /\ Owned(d) /\ Plugged(d, {}) /\ Typed(d)
  BY DEF Sound, Shape
<1>2. Owning(m, d, n, "joint", "jointport", 3)
  BY <1>0, <1>1, CreateOwnerIs
<1>3. Owned(m)
  BY <1>1, <1>2, OwningOwned
<1>4. /\ Shape(m) /\ Typed(m) /\ n \notin d.ids /\ n \in Nat
      /\ m.ends = d.ends /\ Len(port) = 3 /\ IsInjective(port)
      /\ \A q \in d.ids : m.cls[q] = d.cls[q]
      /\ \A q \in Ports(d) : m.wire[q] = d.wire[q] /\ m.opp[q] = d.opp[q] /\ m.owner[q] = d.owner[q]
  <2>1. /\ Shape(m) /\ n \in Nat \ {0} /\ n \notin d.ids /\ m.ends = d.ends
        /\ Len(m.subs[n]) = 3 /\ IsInjective(m.subs[n])
        /\ \A q \in d.ids : m.cls[q] = d.cls[q]
        /\ \A q \in Ports(d) : /\ m.wire[q] = d.wire[q] /\ m.opp[q] = d.opp[q]
                               /\ m.owner[q] = d.owner[q]
    BY <1>2 DEF Owning
  <2>2. Typed(m)
    BY <2>1 DEF Shape
  <2>3. QED BY <1>0, <2>1, <2>2
<1>5. \A q \in {x, y, z} : m.cls[q] = "jointport" /\ m.owner[q] = n
  <2>1. \A i \in 1..3 : m.cls[m.subs[n][i]] = "jointport" /\ m.owner[m.subs[n][i]] = n
    BY <1>2 DEF Owning
  <2>2. 1 \in 1..3 /\ 2 \in 1..3 /\ 3 \in 1..3
    OBVIOUS
  <2>3. QED BY <1>0, <2>1, <2>2
<1>6. Grown(m, d, n, "joint", Parts(m, n, 3))
  BY <1>1, <1>2, OwningKinds
<1>7. Parts(m, n, 3) = {x, y, z}
  <2>1. 1..3 = {1, 2, 3}
    OBVIOUS
  <2>2. QED BY <1>0, <2>1 DEF Parts
<1>8. /\ Wires(m) = Wires(d) /\ Ports(m) = Ports(d) \cup {x, y, z} /\ Owners(m) = Owners(d) \cup {n}
      /\ Joints(m) = Joints(d) \cup {n} /\ {x, y, z} \cap d.ids = {}
  BY <1>6, <1>7 DEF Grown
<1>9. x # y /\ y # z /\ z # x
  <2>1. n \in Owners(m)
    BY <1>8
  <2>2. port \in Seq(Nat)
    BY <1>0, <1>4, <2>1 DEF Typed
  <2>3. DOMAIN port = 1..3 /\ 1 \in 1..3 /\ 2 \in 1..3 /\ 3 \in 1..3
    BY <1>4, <2>2, LenProperties
  <2>4. QED BY <1>0, <1>4, <2>3 DEF IsInjective
<1>10. /\ Shape(c0) /\ new \in Nat \ {0} /\ new \notin m.ids
       /\ c0.ends[new] = <<None, None>> /\ \A v \in Wires(m) : c0.ends[v] = m.ends[v]
       /\ c0.wire = m.wire /\ c0.opp = m.opp
  BY <1>0, <1>4, CreateWireIs
<1>11. Relinked(c0, m, {new})
  BY <1>0, <1>4, WireAdded
<1>12. Wires(c0) = Wires(d) \cup {new} /\ Ports(c0) = Ports(m)
  BY <1>4, <1>8, <1>11, RelinkedKinds
<1>13. new \notin Wires(d) /\ new # None
  <2>1. new \notin Wires(m)
    BY <1>4, <1>10, Kinds
  <2>2. QED BY <1>8, <1>10, <2>1 DEF None
<1>14. a \in Ports(d) /\ b \in Ports(d) /\ c \in Ports(d)
  BY <1>0, <1>1 DEF Plugged
<1>15. StartConnected(c1, c0, new, z)
  <2>1. new \in Wires(c0) /\ z \in Ports(c0)
    BY <1>8, <1>12
  <2>2. QED BY <1>0, <1>10, <2>1, ConnectStartAt
<1>16. Shape(c1) /\ Wires(c1) = Wires(c0) /\ Ports(c1) = Ports(c0)
  BY <1>15, ReplugKinds DEF StartConnected
<1>17. EndConnected(c2, c1, new, b)
  <2>1. new \in Wires(c1) /\ b \in Ports(c1)
    BY <1>8, <1>12, <1>14, <1>16
  <2>2. QED BY <1>0, <1>16, <2>1, ConnectEndAt
<1>18. Shape(c2) /\ Wires(c2) = Wires(c0) /\ Ports(c2) = Ports(c0)
  BY <1>16, <1>17, ReplugKinds DEF EndConnected
<1>19. EndConnected(c3, c2, w, x)
  <2>1. w \in Wires(c2) /\ x \in Ports(c2)
    BY <1>8, <1>12, <1>18
  <2>2. QED BY <1>0, <1>18, <2>1, ConnectEndAt
<1>20. Shape(c3) /\ Wires(c3) = Wires(c0) /\ Ports(c3) = Ports(c0)
  BY <1>18, <1>19, ReplugKinds DEF EndConnected
<1>21. c3 = AddJoint(d, w)
  BY <1>0 DEF AddJoint
<1>22. c3.subs = m.subs
  BY <1>11, <1>15, <1>17, <1>19 DEF Relinked, StartConnected, EndConnected, Replugged
<1>23. JointPort(d, w) = y
  BY <1>0, <1>21, <1>22 DEF JointPort
<1>24. EndConnected(r, c3, h, y)
  <2>1. h \in Wires(c3) /\ y \in Ports(c3)
    BY <1>8, <1>12, <1>20
  <2>2. r = ConnectEndPort(c3, h, y)
    BY <1>21, <1>23
  <2>3. QED BY <1>20, <2>1, <2>2, ConnectEndAt
<1>25. Relinked(r, m, {new})
  <2>1. Replugged(c1, c0) /\ Replugged(c2, c1) /\ Replugged(c3, c2) /\ Replugged(r, c3)
    BY <1>15, <1>17, <1>19, <1>24 DEF StartConnected, EndConnected
  <2>2. QED BY <1>11, <2>1 DEF Relinked, Replugged
<1>26. Shape(r) /\ Owned(r) /\ r.owner = m.owner
  BY <1>3, <1>4, <1>25, RelinkedOwned DEF Relinked
<1>27. /\ Wires(r) = Wires(d) \cup {new} /\ Ports(r) = Ports(d) \cup {x, y, z}
       /\ Joints(r) = Joints(d) \cup {n}
       /\ \A q \in Ports(m) : r.cls[q] = m.cls[q]
  BY <1>4, <1>8, <1>25, RelinkedKinds
<1>28. {x, y, z} \cap Ports(d) = {} /\ n \notin Owners(d)
  BY <1>1, <1>4, <1>8, Kinds
<1>29. \A q \in Ports(d) : r.cls[q] = d.cls[q] /\ r.owner[q] = d.owner[q]
  <2>1. \A q \in Ports(d) : m.cls[q] = d.cls[q]
    BY <1>1, <1>4, Kinds
  <2>2. \A q \in Ports(d) : q \in Ports(m) /\ m.owner[q] = d.owner[q]
    BY <1>4, <1>8
  <2>3. \A q \in Ports(d) : r.cls[q] = d.cls[q]
    BY <1>27, <2>1, <2>2
  <2>4. QED BY <1>26, <2>2, <2>3
<1>30. \A q \in {x, y, z} : r.cls[q] = "jointport" /\ r.owner[q] = n
  BY <1>5, <1>8, <1>26, <1>27
<1>31. /\ c1.ends[new] = <<z, None>> /\ \A v \in Wires(d) : c1.ends[v] = d.ends[v]
       /\ \A q \in Ports(c0) : c1.wire[q] = IF q = z THEN new ELSE m.wire[q]
       /\ \A q \in Ports(c0) : c1.opp[q] = IF q = z THEN None ELSE m.opp[q]
  BY <1>4, <1>8, <1>10, <1>12, <1>13, <1>15 DEF StartConnected
<1>32. /\ c2.ends[new] = <<z, b>> /\ \A v \in Wires(d) : c2.ends[v] = d.ends[v]
       /\ \A q \in Ports(c0) : c2.wire[q] = IF q = b THEN new ELSE c1.wire[q]
       /\ \A q \in Ports(c0) : c2.opp[q] = IF q = b THEN z ELSE IF q = z THEN b ELSE c1.opp[q]
  BY <1>12, <1>13, <1>16, <1>17, <1>31 DEF EndConnected
<1>33. /\ c3.ends[new] = <<z, b>> /\ c3.ends[w] = <<a, x>>
       /\ \A v \in Wires(d) \ {w} : c3.ends[v] = d.ends[v]
       /\ \A q \in Ports(c0) : c3.wire[q] = IF q = x THEN w ELSE c2.wire[q]
       /\ \A q \in Ports(c0) : c3.opp[q] = IF q = x THEN a ELSE IF q = a THEN x ELSE c2.opp[q]
  <2>1. c2.ends[w][1] = a
    BY <1>0, <1>32
  <2>2. c3.ends[w] = <<a, x>> /\ \A v \in Wires(c0) \ {w} : c3.ends[v] = c2.ends[v]
    BY <1>18, <1>19, <2>1 DEF EndConnected
  <2>3. \A q \in Ports(c0) : c3.wire[q] = IF q = x THEN w ELSE c2.wire[q]
    BY <1>18, <1>19 DEF EndConnected
  <2>4. \A q \in Ports(c0) : c3.opp[q] = IF q = x THEN a ELSE IF q = a THEN x ELSE c2.opp[q]
    BY <1>18, <1>19, <2>1 DEF EndConnected
  <2>5. QED BY <1>12, <1>13, <1>32, <2>2, <2>3, <2>4
<1>34. /\ r.ends[new] = <<z, b>> /\ r.ends[w] = <<a, x>> /\ r.ends[h] = <<c, y>>
       /\ \A v \in Wires(d) \ {w, h} : r.ends[v] = d.ends[v]
       /\ \A q \in Ports(c0) : r.wire[q] = IF q = y THEN h ELSE c3.wire[q]
       /\ \A q \in Ports(c0) : r.opp[q] = IF q = y THEN c ELSE IF q = c THEN y ELSE c3.opp[q]
  <2>1. c3.ends[h][1] = c
    <3>1. h \in Wires(d) \ {w} /\ d.ends[h][1] = c
      BY <1>0
    <3>2. QED BY <1>33, <3>1
  <2>2. r.ends[h] = <<c, y>> /\ \A v \in Wires(c0) \ {h} : r.ends[v] = c3.ends[v]
    BY <1>20, <1>24, <2>1 DEF EndConnected
  <2>3. \A q \in Ports(c0) : r.wire[q] = IF q = y THEN h ELSE c3.wire[q]
    BY <1>20, <1>24 DEF EndConnected
  <2>4. \A q \in Ports(c0) : r.opp[q] = IF q = y THEN c ELSE IF q = c THEN y ELSE c3.opp[q]
    BY <1>20, <1>24, <2>1 DEF EndConnected
  <2>5. QED BY <1>12, <1>13, <1>33, <2>2, <2>3, <2>4
<1>35. b # a /\ b \notin {x, y, z} /\ a \notin {x, y, z} /\ c \notin {x, y, z} /\ c # a /\ c # b
  <2>1. b # a /\ d.wire[a] = w /\ d.wire[b] = w /\ d.wire[c] = h
    BY <1>0, <1>1 DEF Plugged
  <2>2. QED BY <1>14, <1>28, <2>1
<1>36. \A q \in Ports(r) : r.wire[q] = IF q = x THEN w ELSE IF q = y THEN h
                                       ELSE IF q \in {z, b} THEN new ELSE d.wire[q]
  <2>1. ASSUME NEW q \in Ports(r)
        PROVE  r.wire[q] = IF q = x THEN w ELSE IF q = y THEN h
                           ELSE IF q \in {z, b} THEN new ELSE d.wire[q]
    <3>1. q \in Ports(c0) /\ q \in Ports(d) \cup {x, y, z}
      BY <1>8, <1>12, <1>27
    <3>2. r.wire[q] = IF q = y THEN h ELSE IF q = x THEN w ELSE IF q = b THEN new
                      ELSE IF q = z THEN new ELSE m.wire[q]
      BY <1>31, <1>32, <1>33, <1>34, <3>1
    <3>3. CASE q \in {x, y, z}
      BY <1>9, <1>14, <1>28, <1>35, <3>2, <3>3
    <3>4. CASE q \in Ports(d)
      <4>1. q \notin {x, y, z} /\ m.wire[q] = d.wire[q] /\ m.opp[q] = d.opp[q]
        BY <1>4, <1>28, <3>4
      <4>2. QED BY <1>35, <3>2, <4>1
    <3>5. QED BY <3>1, <3>3, <3>4
  <2>2. QED BY <2>1
<1>37. \A q \in Ports(r) : r.opp[q] = IF q = y THEN c ELSE IF q = c THEN y
                                      ELSE IF q = x THEN a ELSE IF q = a THEN x
                                      ELSE IF q = z THEN b ELSE IF q = b THEN z ELSE d.opp[q]
  <2>1. ASSUME NEW q \in Ports(r)
        PROVE  r.opp[q] = IF q = y THEN c ELSE IF q = c THEN y
                          ELSE IF q = x THEN a ELSE IF q = a THEN x
                          ELSE IF q = z THEN b ELSE IF q = b THEN z ELSE d.opp[q]
    <3>1. q \in Ports(c0) /\ q \in Ports(d) \cup {x, y, z}
      BY <1>8, <1>12, <1>27
    <3>2. r.opp[q] = IF q = y THEN c ELSE IF q = c THEN y ELSE IF q = x THEN a
                     ELSE IF q = a THEN x ELSE IF q = b THEN z ELSE IF q = z THEN b ELSE m.opp[q]
      BY <1>31, <1>32, <1>33, <1>34, <3>1
    <3>3. CASE q \in {x, y, z}
      BY <1>9, <1>14, <1>28, <1>35, <3>2, <3>3
    <3>4. CASE q \in Ports(d)
      <4>1. q \notin {x, y, z} /\ m.wire[q] = d.wire[q] /\ m.opp[q] = d.opp[q]
        BY <1>4, <1>28, <3>4
      <4>2. QED BY <1>35, <3>2, <4>1
    <3>5. QED BY <3>1, <3>3, <3>4
  <2>2. QED BY <2>1
<1>38. Split(r, d, h, w, n, x, y, z, new)
  <2>1. a = d.ends[w][1] /\ b = d.ends[w][2] /\ c = d.ends[h][1]
    BY <1>0
  <2>2. /\ r.ends[w] = <<a, x>> /\ r.ends[new] = <<z, b>> /\ r.ends[h] = <<c, y>>
        /\ \A v \in Wires(d) \ {w, h} : r.ends[v] = d.ends[v]
    BY <1>34
  <2>3. Shape(r) /\ Owned(r)
    BY <1>26
  <2>4. QED
    BY <1>9, <1>13, <1>27, <1>28, <1>29, <1>30, <1>36, <1>37, <2>1, <2>2, <2>3 DEF Split
<1>39. QED BY <1>38

LEMMA SplitSound ==
  ASSUME NEW d, Sound(d, {}), NEW h, Open(d) = {h}, NEW w \in Wires(d), w # h,
         NEW n, NEW x, NEW y, NEW z, NEW new, NEW r, Split(r, d, h, w, n, x, y, z, new)
  PROVE  Sound(r, {}) /\ Open(r) = {}
<1>0. SUFFICES ASSUME NEW a, a = d.ends[w][1], NEW b, b = d.ends[w][2], NEW c, c = d.ends[h][1]
      PROVE Sound(r, {}) /\ Open(r) = {}
  OBVIOUS
<1>1. Shape(d) /\ Owned(d) /\ Plugged(d, {}) /\ Forest(d, {}) /\ Typed(d)
  BY DEF Sound, Shape
<1>2. Shape(r) /\ Owned(r)
  BY DEF Split
<1>3. /\ Wires(r) = Wires(d) \cup {new} /\ new \notin Wires(d) /\ new # None
      /\ Ports(r) = Ports(d) \cup {x, y, z} /\ {x, y, z} \cap Ports(d) = {}
      /\ x # y /\ y # z /\ z # x
      /\ Joints(r) = Joints(d) \cup {n} /\ n \notin Owners(d)
  BY DEF Split
<1>4. /\ \A q \in Ports(d) : r.cls[q] = d.cls[q] /\ r.owner[q] = d.owner[q]
      /\ \A q \in {x, y, z} : r.cls[q] = "jointport" /\ r.owner[q] = n
  BY DEF Split
<1>5. /\ r.ends[w] = <<a, x>> /\ r.ends[new] = <<z, b>> /\ r.ends[h] = <<c, y>>
      /\ \A v \in Wires(d) \ {w, h} : r.ends[v] = d.ends[v]
  BY <1>0 DEF Split
<1>6. \A q \in Ports(r) : r.wire[q] = IF q = x THEN w ELSE IF q = y THEN h
                                      ELSE IF q \in {z, b} THEN new ELSE d.wire[q]
  BY <1>0 DEF Split
<1>7. \A q \in Ports(r) : r.opp[q] = IF q = y THEN c ELSE IF q = c THEN y
                                     ELSE IF q = x THEN a ELSE IF q = a THEN x
                                     ELSE IF q = z THEN b ELSE IF q = b THEN z ELSE d.opp[q]
  BY <1>0 DEF Split
<1>8. h \in Wires(d) /\ d.ends[h][2] = None /\ b # None /\ \A v \in Wires(d) \ {h} : d.ends[v][2] # None
  <2>1. \A v : v \in Open(d) <=> v \in Wires(d) /\ d.ends[v][2] = None
    BY DEF Open
  <2>2. QED BY <1>0, <2>1
<1>9. /\ a \in Ports(d) /\ b \in Ports(d) /\ c \in Ports(d) /\ a # b /\ d.cls[c] = "pin"
      /\ d.wire[a] = w /\ d.wire[b] = w /\ d.wire[c] = h /\ d.opp[a] = b /\ d.opp[b] = a
  BY <1>0, <1>1, <1>8 DEF Plugged
<1>10. c # a /\ c # b
  BY <1>9
<1>11. None \notin Ports(r)
  BY <1>2, Kinds DEF Shape, Listing, None
<1>12. \A q \in Ports(d) : q \notin {x, y, z}
  BY <1>3
<1>13. Plugged(r, {})
  <2>1. ASSUME NEW v \in Wires(r), NEW s, s = r.ends[v][1], NEW e, e = r.ends[v][2]
        PROVE  /\ s \in Ports(r) /\ r.wire[s] = v /\ e # None
               /\ e \in Ports(r) /\ e # s /\ r.wire[e] = v /\ r.opp[s] = e /\ r.opp[e] = s
    <3>1. CASE v = w
      <4>1. s = a /\ e = x /\ a \in Ports(r) /\ x \in Ports(r)
        BY <1>3, <1>5, <1>9, <2>1, <3>1
      <4>2. a # x /\ a # y /\ a # z
        BY <1>9, <1>12
      <4>3. r.wire[a] = w /\ r.wire[x] = w
        BY <1>6, <1>9, <4>1, <4>2
      <4>4. r.opp[a] = x /\ r.opp[x] = a
        BY <1>3, <1>7, <1>9, <1>10, <1>12, <4>1, <4>2
      <4>5. QED BY <1>11, <3>1, <4>1, <4>2, <4>3, <4>4
    <3>2. CASE v = h
      <4>1. s = c /\ e = y /\ c \in Ports(r) /\ y \in Ports(r)
        BY <1>3, <1>5, <1>9, <2>1, <3>2
      <4>2. c # x /\ c # y /\ c # z
        BY <1>9, <1>12
      <4>3. r.wire[c] = h /\ r.wire[y] = h
        BY <1>3, <1>6, <1>9, <1>10, <4>1, <4>2
      <4>4. r.opp[c] = y /\ r.opp[y] = c
        BY <1>7, <4>1, <4>2
      <4>5. QED BY <1>11, <3>2, <4>1, <4>2, <4>3, <4>4
    <3>3. CASE v = new
      <4>1. s = z /\ e = b /\ b \in Ports(r) /\ z \in Ports(r)
        BY <1>3, <1>5, <1>9, <2>1, <3>3
      <4>2. b # x /\ b # y /\ b # z
        BY <1>9, <1>12
      <4>3. r.wire[b] = new /\ r.wire[z] = new
        BY <1>3, <1>6, <4>1, <4>2
      <4>4. r.opp[b] = z /\ r.opp[z] = b
        <5>1. z # x /\ z # y /\ z # a /\ z # c /\ b # a /\ b # c
          BY <1>3, <1>9, <1>10, <1>12
        <5>2. QED BY <1>7, <4>1, <4>2, <5>1
      <4>5. QED BY <1>11, <3>3, <4>1, <4>2, <4>3, <4>4
    <3>4. CASE v \in Wires(d) \ {w, h}
      <4>1. s = d.ends[v][1] /\ e = d.ends[v][2] /\ e # None
        BY <1>5, <1>8, <2>1, <3>4
      <4>2. /\ s \in Ports(d) /\ d.wire[s] = v /\ e \in Ports(d) /\ e # s
            /\ d.wire[e] = v /\ d.opp[s] = e /\ d.opp[e] = s
        BY <1>1, <3>4, <4>1 DEF Plugged
      <4>3. s \notin {a, b, c, x, y, z} /\ e \notin {a, b, c, x, y, z}
        BY <1>9, <1>12, <3>4, <4>2
      <4>4. s \in Ports(r) /\ e \in Ports(r)
        BY <1>3, <4>2
      <4>5. r.wire[s] = v /\ r.wire[e] = v
        BY <1>6, <4>2, <4>3, <4>4
      <4>6. r.opp[s] = e /\ r.opp[e] = s
        BY <1>7, <4>2, <4>3, <4>4
      <4>7. QED BY <4>1, <4>2, <4>4, <4>5, <4>6
    <3>5. QED BY <1>3, <3>1, <3>2, <3>3, <3>4
  <2>2. ASSUME NEW p \in Ports(r)
        PROVE  /\ (r.wire[p] # None => /\ r.wire[p] \in Wires(r)
                                       /\ p \in {r.ends[r.wire[p]][1], r.ends[r.wire[p]][2]})
               /\ (r.cls[p] = "jointport" => r.wire[p] # None)
    <3>1. \A v \in Wires(d) : v # None
      BY <1>1, Kinds DEF Shape, Listing, None
    <3>2. CASE p = x
      <4>1. r.wire[p] = w
        BY <1>6, <3>2
      <4>2. QED BY <1>3, <1>5, <3>1, <3>2, <4>1
    <3>3. CASE p = y
      <4>1. r.wire[p] = h
        BY <1>3, <1>6, <3>3
      <4>2. QED BY <1>3, <1>5, <1>8, <3>1, <3>3, <4>1
    <3>4. CASE p \in {z, b}
      <4>1. p # x /\ p # y
        BY <1>3, <1>9, <1>12, <3>4
      <4>2. r.wire[p] = new
        BY <1>6, <3>4, <4>1
      <4>3. QED BY <1>3, <1>5, <3>4, <4>2
    <3>5. CASE p \in Ports(d) \ {b}
      <4>1. r.wire[p] = d.wire[p] /\ r.cls[p] = d.cls[p]
        BY <1>4, <1>6, <1>12, <3>5
      <4>2. /\ (d.wire[p] # None => /\ d.wire[p] \in Wires(d)
                                    /\ p \in {d.ends[d.wire[p]][1], d.ends[d.wire[p]][2]})
            /\ (d.cls[p] = "jointport" => d.wire[p] # None)
        BY <1>1, <3>5 DEF Plugged
      <4>3. p # None
        BY <1>11
      <4>4. CASE d.wire[p] = w
        <5>1. p = a
          BY <1>0, <3>1, <3>5, <4>2, <4>4
        <5>2. QED BY <1>3, <1>5, <3>1, <4>1, <4>4, <5>1
      <4>5. CASE d.wire[p] = h
        <5>1. p = c
          BY <1>0, <1>8, <3>1, <4>2, <4>3, <4>5
        <5>2. QED BY <1>3, <1>5, <1>8, <3>1, <4>1, <4>5, <5>1
      <4>6. CASE d.wire[p] \notin {w, h}
        BY <1>3, <1>5, <4>1, <4>2, <4>6
      <4>7. QED BY <4>4, <4>5, <4>6
    <3>6. QED BY <1>3, <3>2, <3>3, <3>4, <3>5
  <2>3. QED BY <2>1, <2>2 DEF Plugged
<1>14. Forest(r, {})
  <2>1. SUFFICES ASSUME NEW J \in SUBSET Joints(r), J # {} PROVE \E j \in J : Leaf(r, {}, J, j)
    BY DEF Forest
  <2>2. \A q \in Ports(d) : d.owner[q] \in Owners(d) /\ r.owner[q] = d.owner[q] /\ d.owner[q] # n
    BY <1>1, <1>3, <1>4 DEF Owned
  <2>3. r.owner[c] \notin J
    <3>1. d.cls[d.owner[c]] = "component"
      BY <1>1, <1>9 DEF Owned
    <3>2. d.owner[c] \notin Joints(d)
      BY <1>1, <3>1, Kinds
    <3>3. QED BY <1>3, <1>9, <2>1, <2>2, <3>2
  <2>4. CASE n \in J /\ ~(d.owner[a] \in J /\ d.owner[b] \in J)
    <3>1. ASSUME NEW p \in Ports(r), r.owner[p] = n, r.owner[r.opp[p]] \in J
          PROVE  (p = x /\ d.owner[a] \in J) \/ (p = z /\ d.owner[b] \in J)
      <4>1. p \in {x, y, z}
        BY <1>3, <2>2, <3>1
      <4>2. CASE p = x
        <5>1. r.opp[p] = a
          BY <1>3, <1>7, <1>9, <1>12, <4>2
        <5>2. QED BY <1>9, <2>2, <3>1, <4>2, <5>1
      <4>3. CASE p = y
        <5>1. r.opp[p] = c
          BY <1>7, <4>3
        <5>2. QED BY <2>3, <3>1, <5>1
      <4>4. CASE p = z
        <5>1. z # x /\ z # y /\ z # a /\ z # c
          BY <1>3, <1>9, <1>12
        <5>2. r.opp[p] = b
          BY <1>7, <4>4, <5>1
        <5>3. QED BY <1>9, <2>2, <3>1, <4>4, <5>2
      <4>5. QED BY <4>1, <4>2, <4>3, <4>4
    <3>2. Leaf(r, {}, J, n)
      BY <2>4, <3>1 DEF Leaf
    <3>3. QED BY <2>4, <3>2
  <2>5. CASE ~(n \in J) \/ (d.owner[a] \in J /\ d.owner[b] \in J)
    <3>1. PICK K : K = J \ {n}
      OBVIOUS
    <3>2. K \in SUBSET Joints(d) /\ K # {}
      <4>1. K \in SUBSET Joints(d)
        BY <1>3, <2>1, <3>1
      <4>2. CASE n \notin J
        <5>1. PICK i : i \in J
          BY <2>1
        <5>2. i \in K
          BY <3>1, <4>2, <5>1
        <5>3. QED BY <4>1, <5>2
      <4>3. CASE d.owner[a] \in J
        <5>1. d.owner[a] # n
          BY <1>9, <2>2
        <5>2. d.owner[a] \in K
          BY <3>1, <4>3, <5>1
        <5>3. QED BY <4>1, <5>2
      <4>4. QED BY <2>5, <4>1, <4>2, <4>3
    <3>3. PICK j \in K : Leaf(d, {}, K, j)
      BY <1>1, <3>2 DEF Forest
    <3>4. j \in J /\ j # n
      BY <3>1, <3>3
    <3>5. ASSUME NEW p \in Ports(r), r.owner[p] = j, r.owner[r.opp[p]] \in J
          PROVE  p \in Ports(d) /\ d.owner[p] = j /\ d.owner[d.opp[p]] \in K
      <4>1. p \in Ports(d) /\ d.owner[p] = j
        BY <1>3, <1>4, <3>4, <3>5
      <4>2. p # c
        BY <2>3, <3>4, <3>5
      <4>3. d.owner[d.opp[p]] \in K
        <5>1. CASE p \in {a, b}
          <6>1. r.owner[r.opp[p]] = n
            <7>1. r.opp[p] = IF p = a THEN x ELSE z
              BY <1>7, <1>9, <1>10, <1>12, <4>1, <5>1
            <7>2. QED BY <1>4, <7>1
          <6>2. d.owner[a] \in J /\ d.owner[b] \in J
            BY <2>5, <3>5, <6>1
          <6>3. d.owner[a] \in K /\ d.owner[b] \in K
            BY <1>9, <2>2, <3>1, <6>2
          <6>4. QED BY <1>9, <5>1, <6>3
        <5>2. CASE p \notin {a, b}
          <6>1. r.opp[p] = d.opp[p]
            BY <1>7, <1>12, <4>1, <4>2, <5>2
          <6>2. d.cls[p] = "jointport"
            <7>1. d.owner[p] \in Joints(d)
              BY <3>2, <3>3, <4>1
            <7>2. QED BY <1>1, <4>1, <7>1, JointPorts
          <6>3. d.opp[p] \in Ports(d)
            BY <4>1, <6>2, Partner
          <6>4. QED BY <2>2, <3>1, <3>5, <6>1, <6>3
        <5>3. QED BY <5>1, <5>2
      <4>4. QED BY <4>1, <4>3
    <3>6. Leaf(r, {}, J, j)
      BY <3>3, <3>5 DEF Leaf
    <3>7. QED BY <3>4, <3>6
  <2>6. QED BY <2>4, <2>5
<1>15. Open(r) = {}
  <2>1. ASSUME NEW v \in Wires(r) PROVE r.ends[v][2] # None
    <3>1. x # None /\ y # None
      BY <1>3, <1>11
    <3>2. QED BY <1>3, <1>5, <1>8, <3>1
  <2>2. QED BY <2>1 DEF Open
<1>16. QED BY <1>2, <1>13, <1>14, <1>15 DEF Sound

\* The wire h ends at a new joint in the wire w.
LEMMA AcceptedAtWire ==
  ASSUME NEW d, Sound(d, {}), NEW h, Open(d) = {h}, NEW w \in Wires(d), w # h,
         NEW r, r = ConnectEndPort(AddJoint(d, w), h, JointPort(d, w))
  PROVE  Sound(r, {}) /\ Open(r) = {}
<1>1. h \in Wires(d) /\ d.ends[w][2] # None
  <2>1. \A v : v \in Open(d) <=> v \in Wires(d) /\ d.ends[v][2] = None
    BY DEF Open
  <2>2. QED BY <2>1
<1>2. PICK n, x, y, z, new : Split(r, d, h, w, n, x, y, z, new)
  BY <1>1, SplitIs
<1>3. QED BY <1>2, SplitSound

\* Of a document that is read back, the wires G are connected again.
Resolving(x, d, G) ==
  /\ Replugged(x, d)
  /\ \A w \in Wires(d) \cap G : x.ends[w] = d.ends[w]
  /\ \A p \in Ports(d) : IF d.wire[p] \in G THEN x.wire[p] = d.wire[p] /\ x.opp[p] = d.opp[p]
                         ELSE x.wire[p] = None

LEMMA ResolveOne ==
  ASSUME NEW d, Sound(d, {}), Open(d) = {}, NEW G, NEW x, Resolving(x, d, G), NEW e \in d.ids
  PROVE  Resolving(Resolved(d, x, e), d, G \cup {e})
<1>1. Shape(d) /\ Plugged(d, {}) /\ Typed(d)
  BY DEF Sound, Shape
<1>2. e # None
  BY <1>1 DEF Shape, Listing, None
<1>3. \A p \in Ports(d) : d.wire[p] # None => d.wire[p] \in Wires(d)
  BY <1>1 DEF Plugged
<1>4. CASE d.cls[e] # "wire"
  <2>1. Resolved(d, x, e) = x
    BY <1>4 DEF Resolved
  <2>2. e \notin Wires(d)
    BY <1>1, <1>4, Kinds
  <2>3. \A p \in Ports(d) : d.wire[p] # e
    BY <1>2, <1>3, <2>2
  <2>4. \A p \in Ports(d) : d.wire[p] \in G \cup {e} <=> d.wire[p] \in G
    BY <2>3
  <2>5. Wires(d) \cap (G \cup {e}) = Wires(d) \cap G
    BY <2>2
  <2>6. Resolving(x, d, G \cup {e})
    BY <2>4, <2>5 DEF Resolving
  <2>7. QED BY <2>1, <2>6
<1>5. CASE d.cls[e] = "wire"
  <2>0. SUFFICES ASSUME NEW a, a = d.ends[e][1], NEW b, b = d.ends[e][2],
                        NEW y, y = ConnectStartPort(x, e, a), NEW z, z = ConnectEndPort(y, e, b)
        PROVE Resolving(Resolved(d, x, e), d, G \cup {e})
    OBVIOUS
  <2>1. Resolved(d, x, e) = z
    BY <1>5, <2>0 DEF Resolved
  <2>2. e \in Wires(d)
    BY <1>1, <1>5, Kinds
  <2>3. b # None
    BY <2>0, <2>2 DEF Open
  <2>4. /\ a \in Ports(d) /\ b \in Ports(d) /\ a # b /\ d.wire[a] = e /\ d.wire[b] = e
        /\ d.opp[a] = b /\ d.opp[b] = a
    BY <1>1, <2>0, <2>2, <2>3 DEF Plugged
  <2>5. d.ends[e] = <<a, b>>
    <3>1. d.ends[e] \in Nat \X Nat
      BY <1>1, <2>2 DEF Typed
    <3>2. QED BY <2>0, <3>1
  <2>6. /\ Replugged(x, d) /\ Shape(x) /\ Wires(x) = Wires(d) /\ Ports(x) = Ports(d)
    BY ReplugKinds DEF Resolving
  <2>7. StartConnected(y, x, e, a)
    BY <2>0, <2>2, <2>4, <2>6, ConnectStartAt
  <2>8. /\ Shape(y) /\ Wires(y) = Wires(d) /\ Ports(y) = Ports(d)
    BY <2>6, <2>7, ReplugKinds DEF StartConnected
  <2>9. EndConnected(z, y, e, b)
    BY <2>0, <2>2, <2>4, <2>8, ConnectEndAt
  <2>10. Replugged(z, d)
    BY <2>6, <2>7, <2>9 DEF StartConnected, EndConnected, Replugged
  <2>11. y.ends[e][1] = a
    BY <2>7 DEF StartConnected
  <2>12. z.ends[e] = <<a, b>> /\ \A v \in Wires(d) \ {e} : z.ends[v] = x.ends[v]
    BY <2>6, <2>7, <2>8, <2>9, <2>11 DEF StartConnected, EndConnected
  <2>13. \A q \in Ports(d) : z.wire[q] = IF q \in {a, b} THEN e ELSE x.wire[q]
    BY <2>6, <2>7, <2>8, <2>9 DEF StartConnected, EndConnected
  <2>14. \A q \in Ports(d) : z.opp[q] = IF q = b THEN a ELSE IF q = a THEN b ELSE x.opp[q]
    BY <2>6, <2>7, <2>8, <2>9, <2>11 DEF StartConnected, EndConnected
  <2>15. \A v \in Wires(d) \cap (G \cup {e}) : z.ends[v] = d.ends[v]
    BY <2>5, <2>12 DEF Resolving
  <2>16. ASSUME NEW p \in Ports(d)
         PROVE  IF d.wire[p] \in G \cup {e} THEN z.wire[p] = d.wire[p] /\ z.opp[p] = d.opp[p]
                ELSE z.wire[p] = None
    <3>1. CASE p \in {a, b}
      BY <2>4, <2>13, <2>14, <3>1
    <3>2. CASE p \notin {a, b}
      <4>1. z.wire[p] = x.wire[p] /\ z.opp[p] = x.opp[p]
        BY <2>13, <2>14, <3>2
      <4>2. d.wire[p] # e
        <5>1. d.wire[p] # None => p \in {d.ends[d.wire[p]][1], d.ends[d.wire[p]][2]}
          BY <1>1 DEF Plugged
        <5>2. QED BY <1>2, <2>0, <3>2, <5>1
      <4>3. IF d.wire[p] \in G THEN x.wire[p] = d.wire[p] /\ x.opp[p] = d.opp[p]
            ELSE x.wire[p] = None
        BY DEF Resolving
      <4>4. QED BY <4>1, <4>2, <4>3
    <3>3. QED BY <3>1, <3>2
  <2>17. Resolving(z, d, G \cup {e})
    BY <2>10, <2>15, <2>16 DEF Resolving
  <2>18. QED BY <2>1, <2>17
<1>6. QED BY <1>4, <1>5

\* No wire is connected yet.
Bared(d) ==
  [d EXCEPT !.wire = [p \in DOMAIN @ |-> None], !.opp = [p \in DOMAIN @ |-> None],
            !.ends = [w \in DOMAIN @ |-> <<None, None>>]]

LEMMA NoneResolved ==
  ASSUME NEW d, Sound(d, {})
  PROVE  Resolving(Bared(d), d, {})
<1>0. SUFFICES ASSUME NEW r, r = Bared(d),
                      NEW ends, ends = [w \in Wires(d) |-> <<None, None>>],
                      NEW wire, wire = [p \in Ports(d) |-> None]
      PROVE Resolving(r, d, {})
  OBVIOUS
<1>1. Shape(d) /\ IsDoc(d)
  BY DEF Sound, Shape, Listing
<1>2. DOMAIN d.ends = Wires(d) /\ DOMAIN d.wire = Ports(d) /\ DOMAIN d.opp = Ports(d)
  BY <1>1, PlugDomains
<1>3. r = [elements |-> d.elements, ids |-> d.ids, cls |-> d.cls, ends |-> ends,
           wire |-> wire, opp |-> wire, owner |-> d.owner, subs |-> d.subs]
  BY <1>0, <1>1, <1>2 DEF Bared, IsDoc
<1>4. ends \in [Wires(d) -> Nat \X Nat] /\ wire \in [Ports(d) -> Nat]
  BY <1>0 DEF None
<1>5. Replugged(r, d) /\ r.wire = wire
  BY <1>1, <1>3, <1>4, Replug
<1>6. \A p \in Ports(d) : r.wire[p] = None
  BY <1>0, <1>5
<1>7. QED BY <1>5, <1>6 DEF Resolving

\* A document that is read back is the one that was written.
LEMMA ReloadedIs ==
  ASSUME NEW d, Sound(d, {}), Open(d) = {}
  PROVE  /\ Sound(Reloaded(d), {}) /\ Open(Reloaded(d)) = {}
         /\ Replugged(Reloaded(d), d) /\ \A w \in Wires(d) : Reloaded(d).ends[w] = d.ends[w]
<1> DEFINE s == d.elements
           bare == Bared(d)
           f == CHOOSE f : f = [t \in SUBSET DOMAIN s |->
                  IF t = {} THEN bare ELSE Resolved(d, f[t \ {Max(t)}], s[Max(t)])]
<1>1. Reloaded(d) = f[DOMAIN s]
  BY DEF Reloaded, Bared, FoldLeft, MapThenFoldSet, Resolved
<1>2. s \in Seq(d.ids) /\ Len(s) \in Nat /\ DOMAIN s = 1..Len(s)
      /\ (\A e \in d.ids : \E i \in 1..Len(s) : s[i] = e)
  <2>1. s \in Seq(d.ids) /\ \A e \in d.ids : \E i \in 1..Len(s) : s[i] = e
    BY DEF Sound, Shape, Listing
  <2>2. QED BY <2>1, LenProperties
<1>3. Resolving(bare, d, {})
  BY NoneResolved
<1> HIDE DEF s, bare
<1>4. f = [t \in SUBSET DOMAIN s |-> IF t = {} THEN bare ELSE Resolved(d, f[t \ {Max(t)}], s[Max(t)])]
  <2>1. PICK g : Folding("resolve", d, bare, s, Len(s), g)
    BY <1>2, FoldExists
  <2>2. g = [t \in SUBSET DOMAIN s |-> IF t = {} THEN bare ELSE Resolved(d, g[t \ {Max(t)}], s[Max(t)])]
    BY <1>2, <2>1 DEF Folding, Step
  <2>3. QED BY <2>2
<1> HIDE DEF f
<1>5. Folding("resolve", d, bare, s, Len(s), f)
  BY <1>2, <1>4 DEF Folding, Step
<1>6. PICK g : Sequel("resolve", d, bare, s, g) /\ f[DOMAIN s] = g[Len(s)]
  BY <1>2, <1>5, FoldSteps
<1>7. g[0] = bare /\ \A i \in 1..Len(s) : g[i] = Resolved(d, g[i - 1], s[i])
  BY <1>6 DEF Sequel, Step
<1> DEFINE Known(i) == {s[k] : k \in 1..i}
           T == {i \in 0..Len(s) : Resolving(g[i], d, Known(i))}
<1>8. 0 \in T
  <2>1. 0 \in 0..Len(s) /\ Known(0) = {}
    BY <1>2
  <2> HIDE DEF Known
  <2>2. QED BY <1>3, <1>7, <2>1
<1>9. ASSUME NEW i \in 1..Len(s), i - 1 \in T PROVE i \in T
  <2>1. Known(i) = Known(i - 1) \cup {s[i]}
    <3>1. \A k \in 1..i : k \in 1..(i - 1) \/ k = i
      BY <1>2
    <3>2. \A k \in 1..(i - 1) : k \in 1..i
      BY <1>2
    <3>3. i \in 1..i
      BY <1>2
    <3>4. QED BY <3>1, <3>2, <3>3
  <2>2. i \in 0..Len(s) /\ s[i] \in d.ids /\ g[i] = Resolved(d, g[i - 1], s[i])
    <3>1. s[i] \in d.ids
      BY <1>2, ElementOfSeq
    <3>2. i \in 0..Len(s)
      BY <1>2
    <3>3. QED BY <1>7, <3>1, <3>2
  <2>3. Resolving(g[i - 1], d, Known(i - 1))
    BY <1>9
  <2> HIDE DEF Known
  <2>4. Resolving(g[i], d, Known(i - 1) \cup {s[i]})
    BY <2>2, <2>3, ResolveOne
  <2>5. QED BY <2>1, <2>2, <2>4
<1> HIDE DEF T
<1>10. Len(s) \in T
  <2>1. \A i \in 0..Len(s) : i \in T
    BY <1>2, <1>8, <1>9, CountUp
  <2>2. QED BY <1>2, <2>1
<1>11. PICK r : r = g[Len(s)]
  OBVIOUS
<1>12. Resolving(r, d, Known(Len(s)))
  <2> HIDE DEF Known
  <2>1. QED BY <1>10, <1>11 DEF T
<1>13. d.ids \subseteq Known(Len(s)) /\ None \notin Known(Len(s))
  <2>1. d.ids \subseteq Known(Len(s))
    BY <1>2
  <2>2. \A k \in 1..Len(s) : s[k] \in d.ids
    BY <1>2, ElementOfSeq
  <2>3. None \notin d.ids
    BY DEF Sound, Shape, Listing, None
  <2>4. QED BY <2>1, <2>2, <2>3
<1> HIDE DEF Known
<1>14. Shape(d) /\ Owned(d) /\ Plugged(d, {}) /\ Forest(d, {}) /\ Typed(d)
  BY DEF Sound, Shape
<1>15. Replugged(r, d)
  BY <1>12 DEF Resolving
<1>16. /\ Shape(r) /\ Wires(r) = Wires(d) /\ Ports(r) = Ports(d) /\ Joints(r) = Joints(d)
       /\ r.cls = d.cls /\ r.owner = d.owner
  BY <1>15, ReplugKinds DEF Replugged
<1>17. Relinked(r, d, {})
  BY <1>15 DEF Relinked, Replugged
<1>18. Owned(r)
  BY <1>14, <1>17, RelinkedOwned
<1>19. \A w \in Wires(d) : r.ends[w] = d.ends[w]
  <2>1. \A w \in Wires(d) : w \in Known(Len(s))
    BY <1>13, <1>14, Kinds
  <2>2. QED BY <1>12, <2>1 DEF Resolving
<1>20. \A p \in Ports(d) : r.wire[p] = d.wire[p] /\ (d.wire[p] # None => r.opp[p] = d.opp[p])
  <2>1. ASSUME NEW p \in Ports(d)
        PROVE  r.wire[p] = d.wire[p] /\ (d.wire[p] # None => r.opp[p] = d.opp[p])
    <3>1. IF d.wire[p] \in Known(Len(s)) THEN r.wire[p] = d.wire[p] /\ r.opp[p] = d.opp[p]
          ELSE r.wire[p] = None
      BY <1>12 DEF Resolving
    <3>2. d.wire[p] # None => d.wire[p] \in Wires(d)
      BY <1>14 DEF Plugged
    <3>3. d.wire[p] # None => d.wire[p] \in Known(Len(s))
      BY <1>13, <1>14, <3>2, Kinds
    <3>4. QED BY <1>13, <3>1, <3>3
  <2>2. QED BY <2>1
<1>21. Plugged(r, {})
  <2>1. ASSUME NEW w \in Wires(r), NEW a, a = r.ends[w][1], NEW e, e = r.ends[w][2]
        PROVE  /\ a \in Ports(r) /\ r.wire[a] = w /\ (e = None => r.cls[a] = "pin")
               /\ (e # None => e \in Ports(r) /\ e # a /\ r.wire[e] = w
                               /\ r.opp[a] = e /\ r.opp[e] = a)
    <3>1. w \in Wires(d) /\ a = d.ends[w][1] /\ e = d.ends[w][2] /\ w # None
      <4>1. w # None
        BY <1>14, <1>16, Kinds DEF Shape, Listing, None
      <4>2. QED BY <1>16, <1>19, <2>1, <4>1
    <3>2. /\ a \in Ports(d) /\ d.wire[a] = w /\ (e = None => d.cls[a] = "pin")
          /\ (e # None => e \in Ports(d) /\ e # a /\ d.wire[e] = w
                          /\ d.opp[a] = e /\ d.opp[e] = a)
      BY <1>14, <3>1 DEF Plugged
    <3>3. QED BY <1>16, <1>20, <3>1, <3>2
  <2>2. ASSUME NEW p \in Ports(r)
        PROVE  /\ (r.wire[p] # None => /\ r.wire[p] \in Wires(r)
                                       /\ p \in {r.ends[r.wire[p]][1], r.ends[r.wire[p]][2]})
               /\ (r.cls[p] = "jointport" => r.wire[p] # None)
    <3>1. /\ (d.wire[p] # None => /\ d.wire[p] \in Wires(d)
                                  /\ p \in {d.ends[d.wire[p]][1], d.ends[d.wire[p]][2]})
          /\ (d.cls[p] = "jointport" => d.wire[p] # None)
      BY <1>14, <1>16 DEF Plugged
    <3>2. QED BY <1>16, <1>19, <1>20, <3>1
  <2>3. QED BY <2>1, <2>2 DEF Plugged
<1>22. Forest(r, {})
  <2>1. ASSUME NEW p \in Ports(r), r.owner[p] \in Joints(r)
        PROVE  /\ p \in Ports(d) /\ d.owner[p] = r.owner[p]
               /\ r.owner[r.opp[p]] \in Joints(r) => d.owner[d.opp[p]] = r.owner[r.opp[p]]
    <3>1. d.cls[p] = "jointport"
      BY <1>14, <1>16, <2>1, JointPorts
    <3>2. d.wire[p] # None
      BY <1>14, <1>16, <3>1 DEF Plugged
    <3>3. QED BY <1>16, <1>20, <3>2
  <2>2. QED BY <1>14, <1>16, <2>1, ForestKept
<1>23. Open(r) = {}
  <2>1. \A w \in Wires(r) : r.ends[w][2] # None
    BY <1>16, <1>19 DEF Open
  <2>2. QED BY <2>1 DEF Open
<1>24. Sound(r, {})
  BY <1>16, <1>18, <1>21, <1>22 DEF Sound
<1>25. Reloaded(d) = r
  BY <1>1, <1>6, <1>11
<1>26. QED BY <1>15, <1>19, <1>23, <1>24, <1>25

-----------------------------------------------------------------------------
(* Deleting a part alone keeps the shape of the document and nothing more.   *)

\* The elements S are gone, and ends of wires with them.
Torn(r, d, S) ==
  /\ Shape(r) /\ r.ids = d.ids \ S
  /\ \A x \in r.ids : r.cls[x] = d.cls[x]
  /\ \A x \in Ports(r) : r.wire[x] = d.wire[x]

LEMMA TornKinds ==
  ASSUME NEW d, Shape(d), NEW S, NEW r, Torn(r, d, S)
  PROVE  Wires(r) = Wires(d) \ S /\ Ports(r) = Ports(d) \ S
<1>1. Typed(d) /\ Typed(r) /\ r.ids = d.ids \ S /\ \A x \in r.ids : r.cls[x] = d.cls[x]
  BY DEF Shape, Torn
<1>2. \A x : x \in Wires(r) <=> x \in Wires(d) \ S
  BY <1>1, Kinds
<1>3. \A x : x \in Ports(r) <=> x \in Ports(d) \ S
  BY <1>1, Kinds
<1>4. QED BY <1>2, <1>3

LEMMA TornTwice ==
  ASSUME NEW d, Shape(d), NEW S, NEW T, NEW q, NEW r, Torn(q, d, S), Torn(r, q, T)
  PROVE  Torn(r, d, S \cup T)
<1>1. Shape(q) /\ r.ids = d.ids \ (S \cup T) /\ r.ids \subseteq q.ids
  BY DEF Torn
<1>2. Ports(r) \subseteq Ports(q)
  BY <1>1, TornKinds
<1>3. QED BY <1>1, <1>2 DEF Torn

LEMMA PrunedTorn ==
  ASSUME NEW d, NEW S, NEW r, Pruned(r, d, S)
  PROVE  Torn(r, d, S)
BY DEF Pruned, Torn

LEMMA PortTorn ==
  ASSUME NEW d, Shape(d), NEW p \in Ports(d), d.wire[p] \in Wires(d) \cup {None}
  PROVE  Torn(ErasePort(d, p), d, {p})
<1>1. CASE d.wire[p] = None
  <2>1. ErasePort(d, p) = Erase(d, p)
    BY <1>1 DEF ErasePort
  <2>2. QED BY <2>1, Erased, PrunedTorn
<1>2. CASE d.wire[p] # None
  <2> DEFINE w == d.wire[p]
             Left(q) == IF q = p THEN None ELSE q
             ends == [d.ends EXCEPT ![w] = <<Left(@[1]), Left(@[2])>>]
             u == [d EXCEPT !.ends = ends]
  <2>1. w \in Wires(d) /\ IsDoc(d) /\ Typed(d)
    BY <1>2 DEF Shape, Listing
  <2>2. ends \in [Wires(d) -> Nat \X Nat]
    <3>1. d.ends \in [Wires(d) -> Nat \X Nat] /\ d.ends[w] \in Nat \X Nat
      BY <2>1 DEF Typed
    <3>2. Left(d.ends[w][1]) \in Nat /\ Left(d.ends[w][2]) \in Nat
      BY <3>1 DEF None
    <3>3. ends = [d.ends EXCEPT ![w] = <<Left(d.ends[w][1]), Left(d.ends[w][2])>>]
      OBVIOUS
    <3> HIDE DEF Left, ends, w
    <3>4. QED BY <2>1, <3>1, <3>2, <3>3
  <2>3. ErasePort(d, p) = Erase(u, p)
    <3>1. u = [d EXCEPT !.ends[w] = <<Left(@[1]), Left(@[2])>>]
      BY <2>1 DEF IsDoc
    <3>2. QED BY <1>2, <3>1 DEF ErasePort
  <2> HIDE DEF ends, w
  <2>4. u = [elements |-> d.elements, ids |-> d.ids, cls |-> d.cls, ends |-> ends,
             wire |-> d.wire, opp |-> d.opp, owner |-> d.owner, subs |-> d.subs]
    BY <2>1 DEF IsDoc
  <2>5. d.wire \in [Ports(d) -> Nat] /\ d.opp \in [Ports(d) -> Nat]
    BY <2>1 DEF Typed
  <2> HIDE DEF u
  <2>6. Replugged(u, d) /\ u.wire = d.wire
    BY <2>2, <2>4, <2>5, Replug
  <2>7. Torn(u, d, {})
    <3>1. d.ids = d.ids \ {}
      OBVIOUS
    <3>2. QED BY <2>6, <3>1 DEF Replugged, Torn
  <2>8. Torn(Erase(u, p), u, {p})
    BY <2>6, Erased, PrunedTorn DEF Replugged
  <2>9. {} \cup {p} = {p}
    OBVIOUS
  <2>10. QED BY <2>3, <2>7, <2>8, <2>9, TornTwice
<1>3. QED BY <1>1, <1>2

\* An element goes with its ports, and their wires lose these ends.
LEMMA OwnerTorn ==
  ASSUME NEW d, Shape(d), NEW o \in Owners(d), IsInjective(d.subs[o]),
         \A k \in 1..Len(d.subs[o]) :
           d.subs[o][k] \in Ports(d) /\ d.wire[d.subs[o][k]] \in Wires(d) \cup {None}
  PROVE  Shape(EraseOwner(d, o))
<1>0. SUFFICES
        ASSUME NEW s, s = d.subs[o], IsInjective(s),
               \A k \in 1..Len(s) : s[k] \in Ports(d) /\ d.wire[s[k]] \in Wires(d) \cup {None},
               NEW r, r = EraseOwner(d, o)
        PROVE  Shape(r)
  OBVIOUS
<1>1. s \in Seq(Nat) /\ Len(s) \in Nat /\ DOMAIN s = 1..Len(s)
  <2>1. s \in Seq(Nat)
    BY <1>0 DEF Shape, Typed
  <2>2. QED BY <2>1, LenProperties
<1>2. PICK g : Sequel("erase", 0, d, s, g) /\ FoldLeft(ErasePort, d, s) = g[Len(s)]
  BY <1>1, ErasesFold
<1>3. g[0] = d /\ \A i \in 1..Len(s) : g[i] = ErasePort(g[i - 1], s[i])
  BY <1>2 DEF Sequel, Step
<1> DEFINE T == {i \in 0..Len(s) : Torn(g[i], d, Firsts(s, i))}
<1>4. 0 \in T
  <2>1. Firsts(s, 0) = {} /\ 0 \in 0..Len(s)
    BY <1>1 DEF Firsts
  <2>2. Torn(g[0], d, {})
    <3>1. d.ids = d.ids \ {}
      OBVIOUS
    <3>2. QED BY <1>3, <3>1 DEF Torn
  <2>3. QED BY <2>1, <2>2
<1>5. ASSUME NEW i \in 1..Len(s), i - 1 \in T PROVE i \in T
  <2> DEFINE h == g[i - 1]
  <2>1. Torn(h, d, Firsts(s, i - 1)) /\ Shape(h)
    BY <1>5 DEF Torn
  <2>2. s[i] \notin Firsts(s, i - 1)
    <3>1. SUFFICES ASSUME NEW k \in 1..(i - 1), s[k] = s[i] PROVE FALSE
      BY DEF Firsts
    <3>2. k \in 1..Len(s) /\ k # i
      BY <1>1
    <3>3. QED BY <1>0, <1>1, <3>1, <3>2 DEF IsInjective
  <2>3. Firsts(s, i) = Firsts(s, i - 1) \cup {s[i]}
    <3>1. \A k \in 1..i : k \in 1..(i - 1) \/ k = i
      OBVIOUS
    <3>2. \A k \in 1..(i - 1) : k \in 1..i
      OBVIOUS
    <3>3. i \in 1..i
      OBVIOUS
    <3>4. QED BY <3>1, <3>2, <3>3 DEF Firsts
  <2>4. g[i] = ErasePort(h, s[i])
    BY <1>3
  <2> HIDE DEF h
  <2>5. s[i] \in Ports(h) /\ h.wire[s[i]] = d.wire[s[i]]
    <3>1. s[i] \in Ports(h)
      BY <1>0, <2>1, <2>2, TornKinds
    <3>2. QED BY <2>1, <3>1 DEF Torn
  <2>6. h.wire[s[i]] \in Wires(h) \cup {None}
    <3>1. ASSUME NEW w \in Wires(d) PROVE w \in Wires(h)
      <4>1. SUFFICES ASSUME w \in Firsts(s, i - 1) PROVE FALSE
        BY <2>1, TornKinds
      <4>2. PICK k \in 1..(i - 1) : w = s[k]
        BY <4>1 DEF Firsts
      <4>3. k \in 1..Len(s)
        BY <1>1
      <4>4. w \in Ports(d) /\ Typed(d)
        BY <1>0, <4>2, <4>3 DEF Shape
      <4>5. QED BY <4>4, Kinds
    <3>2. QED BY <1>0, <2>5, <3>1
  <2>7. Torn(g[i], h, {s[i]})
    BY <2>1, <2>4, <2>5, <2>6, PortTorn
  <2>8. Torn(g[i], d, Firsts(s, i))
    BY <2>1, <2>3, <2>7, TornTwice
  <2>9. i \in 0..Len(s)
    OBVIOUS
  <2>10. QED BY <2>8, <2>9
<1>6. Shape(g[Len(s)])
  <2> HIDE DEF T
  <2>1. \A i \in 0..Len(s) : i \in T
    BY <1>1, <1>4, <1>5, CountUp
  <2>2. Len(s) \in T
    BY <1>1, <2>1
  <2>3. QED BY <2>2 DEF T, Torn
<1>7. r = Erase(g[Len(s)], o)
  BY <1>0, <1>2 DEF EraseOwner
<1>8. QED BY <1>6, <1>7, EraseShape

LEMMA PartRemoved ==
  ASSUME NEW d, Sound(d, {}), NEW p \in Of(d, {"pin", "joint"})
  PROVE  /\ p \in Nat \ {0}
         /\ Shape(IF p \in Joints(d) THEN EraseOwner(d, p) ELSE ErasePort(d, p))
<1>1. Shape(d) /\ Typed(d) /\ Listing(d) /\ Owned(d) /\ Plugged(d, {})
  BY DEF Sound, Shape
<1>2. p \in d.ids /\ d.cls[p] \in {"pin", "joint"}
  BY <1>1, Kinds DEF Of
<1>3. p \in Nat \ {0}
  BY <1>1, <1>2 DEF Listing
<1>4. \A q \in Ports(d) : d.wire[q] \in Wires(d) \cup {None}
  BY <1>1 DEF Plugged
<1>5. CASE p \in Joints(d)
  <2>1. p \in Owners(d)
    BY <1>5 DEF Owners
  <2>2. IsInjective(d.subs[p]) /\ \A k \in 1..Len(d.subs[p]) : d.subs[p][k] \in Ports(d)
    BY <1>1, <2>1 DEF Owned
  <2>3. Shape(EraseOwner(d, p))
    BY <1>1, <1>4, <2>1, <2>2, OwnerTorn
  <2>4. QED BY <1>3, <1>5, <2>3
<1>6. CASE p \notin Joints(d)
  <2>1. p \in Ports(d)
    BY <1>1, <1>2, <1>6, Kinds
  <2>2. Shape(ErasePort(d, p))
    BY <1>1, <1>4, <2>1, PortTorn DEF Torn
  <2>3. QED BY <1>3, <1>6, <2>2
<1>7. QED BY <1>5, <1>6

-----------------------------------------------------------------------------
(* The inductive invariant: until a part is deleted alone the document is      *)
(* sound, and the wire being drawn is the only one without an end; when it is  *)
(* deleted under the hand there is none.                                     *)

Inv ==
  /\ Shape(doc)
  /\ handler \in Handlers /\ hint \in Nat /\ edits \in 0..MaxEdits /\ freed \in Nat
  /\ handler \in {"select", "wire"} => hint = None
  /\ handler = "wire2" => hint # None
  /\ Intact => /\ Sound(doc, {})
               /\ Open(doc) = IF freed = None THEN {hint} \ {None} ELSE {}

\* What the invariant says where a handler of the editor runs.
LEMMA InvSane ==
  ASSUME Inv, freed = None
  PROVE  Sound(doc, {}) /\ Open(doc) = {hint} \ {None}
BY DEF Inv, Intact

LEMMA EmptySound ==
  Sound(Empty, {}) /\ Open(Empty) = {}
<1>0. SUFFICES ASSUME NEW d, d = Empty PROVE Sound(d, {}) /\ Open(d) = {}
  OBVIOUS
<1>1. /\ d.elements = <<>> /\ d.ids = {} /\ d.cls = <<>> /\ d.ends = <<>>
      /\ d.wire = <<>> /\ d.opp = <<>> /\ d.owner = <<>> /\ d.subs = <<>>
  BY <1>0 DEF Empty
<1>2. IsDoc(d)
  BY <1>0 DEF IsDoc, Empty
<1>3. DOMAIN << >> = {} /\ \A S : << >> \in [{} -> S]
  OBVIOUS
<1>4. Wires(d) = {} /\ Ports(d) = {} /\ Joints(d) = {} /\ Components(d) = {} /\ Owners(d) = {}
  BY <1>1, <1>3 DEF Wires, Ports, Joints, Components, Owners, Of
<1>5. Typed(d)
  BY <1>1, <1>3, <1>4 DEF Typed
<1>6. Listing(d)
  <2>1. IsFiniteSet({})
    BY FS_EmptySet
  <2>2. << >> \in Seq({}) /\ IsInjective(<< >>)
    BY <1>3 DEF IsInjective
  <2>3. QED BY <1>1, <1>2, <2>1, <2>2 DEF Listing
<1>7. Owned(d) /\ Plugged(d, {})
  BY <1>4 DEF Owned, Plugged
<1>8. Forest(d, {})
  BY <1>4 DEF Forest
<1>9. Open(d) = {}
  BY <1>4 DEF Open
<1>10. QED BY <1>5, <1>6, <1>7, <1>8, <1>9 DEF Sound, Shape

LEMMA InitInv ==
  Init => Inv
<1>1. SUFFICES ASSUME Init PROVE Inv
  OBVIOUS
<1>2. Sound(doc, {}) /\ Open(doc) = {}
  BY <1>1, EmptySound DEF Init
<1>3. handler = "select" /\ hint = None /\ edits = 0 /\ freed = None
  BY <1>1 DEF Init
<1>4. 0 \in 0..MaxEdits
  BY EditorAssumption
<1>5. Shape(doc)
  BY <1>2 DEF Sound
<1>6. QED BY <1>2, <1>3, <1>4, <1>5 DEF Inv, Handlers, None

\* A step after which the document is sound keeps the invariant.
LEMMA SaneInv ==
  ASSUME Sound(doc', {}), Open(doc') = {hint'} \ {None}, handler' \in Handlers, hint' \in Nat,
         edits' \in 0..MaxEdits, freed' = None,
         handler' \in {"select", "wire"} => hint' = None, handler' = "wire2" => hint' # None
  PROVE  Inv'
<1>1. Shape(doc') /\ freed' \in Nat
  BY DEF Sound, None
<1>2. QED BY <1>1 DEF Inv, Intact, Open, Wires

\* Giving up the wire that is being drawn.
LEMMA SelectionInv ==
  ASSUME Inv, Sane, Selection(doc), UNCHANGED edits
  PROVE  Inv'
<1>1. /\ Sound(doc, {}) /\ Open(doc) = {hint} \ {None} /\ edits \in 0..MaxEdits
  BY InvSane DEF Inv, Sane
<1>2. doc' = (IF hint = None THEN doc ELSE ReleaseWire(doc, hint))
      /\ hint' = None /\ handler' = "select" /\ edits' = edits /\ freed' = None
  BY DEF Selection, Sane
<1>3. Sound(doc', {}) /\ Open(doc') = {}
  <2>1. CASE hint = None
    BY <1>1, <1>2, <2>1
  <2>2. CASE hint # None
    <3>1. hint \in Wires(doc) /\ Open(doc) = {hint}
      BY <1>1, <2>2 DEF Open
    <3>2. WireReleased(doc', doc, hint)
      BY <1>1, <1>2, <2>2, <3>1, ReleaseWireIs
    <3>3. \A h \in Open(doc') : h \in Open(doc)
      BY <3>2 DEF WireReleased, Frame
    <3>4. QED BY <3>1, <3>2, <3>3 DEF WireReleased
  <2>3. QED BY <2>1, <2>2
<1>4. QED
  <2>1. Open(doc') = {hint'} \ {None}
    BY <1>2, <1>3
  <2>2. handler' \in Handlers /\ hint' \in Nat
    BY <1>2 DEF Handlers, None
  <2>3. edits' \in 0..MaxEdits /\ handler' # "wire2"
    BY <1>1, <1>2
  <2>4. QED BY <1>2, <1>3, <2>1, <2>2, <2>3, SaneInv

\* One edit more.
LEMMA OneEdit ==
  ASSUME Inv, Edit
  PROVE  edits' \in 0..MaxEdits
<1>1. edits \in 0..MaxEdits /\ MaxEdits \in Nat /\ edits < MaxEdits /\ edits' = edits + 1
  BY EditorAssumption DEF Inv, Edit
<1>2. QED BY <1>1

\* The components of a selection are each in it once.
LEMMA SelectionIs ==
  ASSUME NEW d, Sound(d, {}), NEW C, C \subseteq Components(d), NEW sel \in SetToSeqs(C)
  PROVE  /\ Len(sel) \in Nat /\ DOMAIN sel = 1..Len(sel) /\ IsInjective(sel)
         /\ ToSet(sel) \subseteq C /\ \A i \in 1..Len(sel) : sel[i] \in Components(d)
<1>1. IsFiniteSet(C)
  <2>1. Components(d) \subseteq d.ids /\ IsFiniteSet(d.ids)
    BY Kinds DEF Sound, Shape, Listing
  <2>2. QED BY <2>1, FS_Subset
<1>2. PICK n \in Nat : n = Cardinality(C)
  BY <1>1, FS_CardinalityType
<1>3. sel \in [1..n -> C] /\ \A i, j \in 1..n : i # j => sel[i] # sel[j]
  BY <1>2 DEF SetToSeqs
<1>4. Len(sel) = n /\ DOMAIN sel = 1..n
  BY <1>3
<1>5. IsInjective(sel)
  BY <1>3 DEF IsInjective
<1>6. ToSet(sel) \subseteq C
  BY <1>3 DEF ToSet
<1>7. QED BY <1>3, <1>4, <1>5, <1>6

\* The wire being drawn went with the component it starts from.
LEMMA DanglingInv ==
  ASSUME Sound(doc', {}), Open(doc') = {}, handler' \in Handlers, hint' \in Nat,
         edits' \in 0..MaxEdits, freed' = hint', hint' # None,
         handler' \in {"select", "wire"} => hint' = None
  PROVE  Inv'
<1>1. Shape(doc')
  BY DEF Sound
<1>2. QED BY <1>1 DEF Inv, Intact, Open, Wires

LEMMA DeleteInv ==
  ASSUME Inv, KeyPressDelete
  PROVE  Inv'
<1>1. /\ Sound(doc, {}) /\ Open(doc) = {hint} \ {None}
      /\ handler \in Handlers /\ hint \in Nat
      /\ (handler \in {"select", "wire"} => hint = None)
      /\ (handler = "wire2" => hint # None)
  BY InvSane DEF Inv, KeyPressDelete
<1>2. hint' = hint /\ handler' = handler /\ edits' \in 0..MaxEdits
  BY OneEdit DEF KeyPressDelete
<1>3. PICK sel \in Selections(doc) :
        /\ doc' = FoldLeft(ReleaseComponent, doc, sel)
        /\ freed' = IF hint # None /\ doc.owner[doc.ends[hint][1]] \in ToSet(sel)
                      THEN hint ELSE None
  BY DEF KeyPressDelete
<1>4. PICK C \in SUBSET Components(doc) : sel \in SetToSeqs(C)
  BY <1>3 DEF Selections
<1>5. /\ Len(sel) \in Nat /\ DOMAIN sel = 1..Len(sel) /\ IsInjective(sel)
      /\ ToSet(sel) \subseteq C /\ \A i \in 1..Len(sel) : sel[i] \in Components(doc)
  BY <1>1, <1>4, SelectionIs
<1>6. Edited(doc', doc, ToSet(sel))
  BY <1>1, <1>3, <1>5, DeleteSelection
<1>7. Sound(doc', {}) /\ \A h \in Open(doc') : h \in Open(doc) /\ doc'.ends[h] = doc.ends[h]
  BY <1>6 DEF Edited
<1>8. CASE hint # None /\ doc.owner[doc.ends[hint][1]] \in ToSet(sel)
  <2>1. ASSUME NEW h \in Open(doc') PROVE FALSE
    <3>1. h = hint /\ doc'.ends[h] = doc.ends[h]
      BY <1>1, <1>7
    <3>2. doc'.ends[h][1] \in Pins(doc') /\ doc'.owner[doc'.ends[h][1]] \in Components(doc')
      <4> DEFINE p == doc'.ends[h][1]
      <4>1. h \in Wires(doc') /\ doc'.ends[h][2] = None
        BY DEF Open
      <4>2. Typed(doc') /\ p \in Ports(doc') /\ doc'.cls[p] = "pin"
        BY <1>7, <4>1 DEF Sound, Shape, Plugged
      <4>3. doc'.owner[p] \in Owners(doc') /\ doc'.cls[doc'.owner[p]] = "component"
        BY <1>7, <4>2 DEF Sound, Owned
      <4> HIDE DEF p
      <4>4. p \in Pins(doc')
        BY <4>2, Kinds, PinKinds
      <4>5. doc'.owner[p] \in Components(doc')
        BY <4>2, <4>3, Kinds
      <4>6. QED BY <4>4, <4>5 DEF p
    <3>3. doc'.owner[doc'.ends[h][1]] = doc.owner[doc.ends[hint][1]]
      BY <1>6, <3>1, <3>2 DEF Edited
    <3>4. Components(doc') = Components(doc) \ ToSet(sel)
      BY <1>6 DEF Edited
    <3>5. QED BY <1>8, <3>2, <3>3, <3>4
  <2>2. Open(doc') = {} /\ freed' = hint /\ hint # None
    BY <1>3, <1>8, <2>1
  <2>3. Shape(doc')
    BY <1>7 DEF Sound
  <2>4. QED BY <1>1, <1>2, <1>7, <2>2, <2>3, DanglingInv
<1>9. CASE ~(hint # None /\ doc.owner[doc.ends[hint][1]] \in ToSet(sel))
  <2>1. hint # None => hint \in Open(doc')
    <3>1. SUFFICES ASSUME hint # None PROVE hint \in Open(doc')
      OBVIOUS
    <3>2. hint \in Open(doc) /\ doc.owner[doc.ends[hint][1]] \notin ToSet(sel)
      BY <1>1, <1>9, <3>1
    <3>3. QED BY <1>6, <3>2 DEF Edited, OpenKept
  <2>2. Open(doc') = {hint'} \ {None} /\ freed' = None
    BY <1>1, <1>2, <1>3, <1>7, <1>9, <2>1
  <2>3. QED BY <1>1, <1>2, <1>7, <2>2, SaneInv
<1>10. QED BY <1>8, <1>9

LEMMA NextInv ==
  ASSUME Inv, [Next]_vars
  PROVE  Inv'
<1>1. /\ freed = None => Sound(doc, {}) /\ Open(doc) = {hint} \ {None}
      /\ handler \in Handlers /\ hint \in Nat /\ edits \in 0..MaxEdits
      /\ (handler \in {"select", "wire"} => hint = None)
      /\ (handler = "wire2" => hint # None)
  BY InvSane DEF Inv
<1>3. CASE UNCHANGED vars \/ Undefined
  <2>1. doc' = doc /\ handler' = handler /\ hint' = hint /\ edits' = edits /\ freed' = freed
    BY <1>3 DEF vars, Undefined
  <2>2. QED BY <2>1 DEF Inv, Intact, Open, Wires
<1>4. ASSUME NEW s \in Symbols, DragEnter(s) PROVE Inv'
  <2>1. /\ doc' = CreateOwner(doc, "component", "pin", s) /\ hint' = hint /\ handler' = "drag" /\ Edit
        /\ freed = None /\ freed' = None
    BY <1>4 DEF DragEnter, Sane
  <2>2. Sound(doc', {}) /\ Open(doc') = Open(doc)
    <3>1. s \in Nat
      BY EditorAssumption
    <3>2. QED BY <1>1, <2>1, <3>1, ComponentCreated
  <2>3. edits' \in 0..MaxEdits
    BY <2>1, OneEdit
  <2>4. handler' \in Handlers
    BY <2>1 DEF Handlers
  <2>5. Open(doc') = {hint'} \ {None} /\ hint' \in Nat
    BY <1>1, <2>1, <2>2
  <2>6. (handler' \in {"select", "wire"} => hint' = None) /\ (handler' = "wire2" => hint' # None)
    BY <2>1
  <2>7. QED BY SaneInv, <2>1, <2>2, <2>3, <2>4, <2>5, <2>6
<1>5. CASE DropOrLeave \/ GiveUp
  BY <1>5, SelectionInv DEF DropOrLeave, GiveUp
<1>6. CASE HoverPin
  <2>1. /\ handler = "select" /\ handler' = "wire" /\ doc' = doc /\ hint' = hint /\ edits' = edits
        /\ freed = None /\ freed' = None
    BY <1>6 DEF HoverPin, Sane
  <2>2. Sound(doc', {}) /\ Open(doc') = {hint'} \ {None} /\ hint' \in Nat /\ hint' = None
    BY <1>1, <2>1
  <2>3. handler' \in Handlers
    BY <2>1 DEF Handlers
  <2>4. handler' # "wire2" /\ edits' \in 0..MaxEdits
    BY <1>1, <2>1
  <2>5. QED BY SaneInv, <2>1, <2>2, <2>3, <2>4
<1>7. ASSUME NEW p, PressFirstPin(p) PROVE Inv'
  <2>1. /\ handler = "wire" /\ p \in FreePins(doc) /\ Edit /\ hint' = Alloc(doc)
        /\ doc' = ConnectStartPort(CreateWire(doc), hint', p) /\ handler' = "wire2"
        /\ freed = None /\ freed' = None
    BY <1>7 DEF PressFirstPin, Sane
  <2>2. hint = None /\ Open(doc) = {} /\ p \in Pins(doc) /\ doc.wire[p] = None
    BY <1>1, <2>1 DEF FreePins, Pins
  <2>3. Sound(doc', {}) /\ Open(doc') = {hint'}
    BY <1>1, <2>1, <2>2, FirstPin
  <2>4. hint' \in Nat \ {0}
    BY <1>1, <2>1, AllocFresh DEF Sound, Shape
  <2>5. hint' # None /\ hint' \in Nat /\ Open(doc') = {hint'} \ {None}
    BY <2>3, <2>4 DEF None
  <2>6. edits' \in 0..MaxEdits
    BY <2>1, OneEdit
  <2>7. handler' \in Handlers
    BY <2>1 DEF Handlers
  <2>8. handler' \notin {"select", "wire"}
    BY <2>1
  <2>9. QED BY SaneInv, <2>1, <2>3, <2>5, <2>6, <2>7, <2>8
<1>8. ASSUME NEW d, NEW p, Accept(d, p), Sane, UNCHANGED edits,
             Sound(doc', {}), Open(doc') = {}
      PROVE  Inv'
  <2>1. hint' = None /\ handler' = "select" /\ edits' = edits /\ freed' = None
    BY <1>8 DEF Accept, Sane
  <2>2. handler' \in Handlers /\ hint' \in Nat
    BY <2>1 DEF Handlers, None
  <2>3. Open(doc') = {hint'} \ {None}
    BY <1>8, <2>1
  <2>4. handler' # "wire2"
    BY <2>1
  <2>5. QED BY <1>1, SaneInv, <1>8, <2>1, <2>2, <2>3, <2>4
<1>9. ASSUME NEW p, PressSecondPin(p) PROVE Inv'
  <2>1. /\ handler = "wire2" /\ p \in FreePins(doc) /\ Accept(doc, p) /\ UNCHANGED edits
        /\ doc' = ConnectEndPort(doc, hint, p) /\ Sane /\ freed = None
    BY <1>9 DEF PressSecondPin, Accept, Sane
  <2>2. Open(doc) = {hint} /\ p \in Pins(doc) /\ doc.wire[p] = None
    BY <1>1, <2>1 DEF FreePins, Pins
  <2>3. Sound(doc', {}) /\ Open(doc') = {}
    BY <1>1, <2>1, <2>2, SecondPin
  <2>4. QED BY <1>8, <2>1, <2>3
<1>10. ASSUME NEW w, PressWire(w) PROVE Inv'
  <2>1. /\ handler = "wire2" /\ w \in Wires(doc) /\ w # hint /\ UNCHANGED edits
        /\ Accept(AddJoint(doc, w), JointPort(doc, w))
        /\ doc' = ConnectEndPort(AddJoint(doc, w), hint, JointPort(doc, w)) /\ Sane /\ freed = None
    BY <1>10 DEF PressWire, Accept, Sane
  <2>2. Open(doc) = {hint}
    BY <1>1, <2>1
  <2>3. Sound(doc', {}) /\ Open(doc') = {}
    BY <1>1, <2>1, <2>2, AcceptedAtWire
  <2>4. QED BY <1>8, <2>1, <2>3
<1>11. ASSUME NEW w, OnRemoveSelected(w) PROVE Inv'
  <2>1. /\ handler = "select" /\ w \in Wires(doc) /\ Edit /\ doc' = ReleaseWire(doc, w)
        /\ handler' = handler /\ hint' = hint /\ freed = None /\ freed' = None
    BY <1>11 DEF OnRemoveSelected, Sane
  <2>2. WireReleased(doc', doc, w)
    BY <1>1, <2>1, ReleaseWireIs
  <2>3. Sound(doc', {}) /\ \A h \in Open(doc') : h \in Open(doc)
    BY <2>2 DEF WireReleased, Frame
  <2>4. hint = None /\ Open(doc) = {}
    BY <1>1, <2>1
  <2>5. Open(doc') = {hint'} \ {None}
    BY <2>1, <2>3, <2>4
  <2>6. edits' \in 0..MaxEdits
    BY <2>1, OneEdit
  <2>7. QED BY <1>1, SaneInv, <2>1, <2>3, <2>4, <2>5, <2>6
<1>12. CASE KeyPressDelete
  BY <1>12, DeleteInv
<1>13. CASE SaveAndOpen
  <2>1. /\ hint = freed /\ Edit /\ doc' = Reloaded(doc) /\ handler' = "select"
        /\ hint' = None /\ freed' = None
    BY <1>13 DEF SaveAndOpen
  <2>2. Sound(doc, {}) /\ Open(doc) = {}
    BY <2>1 DEF Inv, Intact
  <2>3. Sound(doc', {}) /\ Open(doc') = {}
    BY <2>1, <2>2, ReloadedIs
  <2>4. Open(doc') = {hint'} \ {None} /\ hint' \in Nat
    BY <2>1, <2>3 DEF None
  <2>5. edits' \in 0..MaxEdits
    BY <2>1, OneEdit
  <2>6. handler' \in Handlers
    BY <2>1 DEF Handlers
  <2>7. handler' # "wire2"
    BY <2>1
  <2>8. QED BY SaneInv, <2>1, <2>3, <2>4, <2>5, <2>6, <2>7
<1>14. CASE Close
  <2>1. /\ doc' = ReleaseAll(doc) /\ handler' = "select" /\ hint' = None /\ edits' = 0
        /\ Intact /\ freed' = None
    BY <1>14 DEF Close
  <2>2. Sound(doc, {})
    BY <2>1 DEF Inv
  <2>3. Sound(doc', {}) /\ Open(doc') = {}
    BY <2>1, <2>2, ReleaseAllIs
  <2>4. Open(doc') = {hint'} \ {None} /\ hint' \in Nat
    BY <2>1, <2>3 DEF None
  <2>5. edits' \in 0..MaxEdits
    BY <2>1, EditorAssumption
  <2>6. handler' \in Handlers
    BY <2>1 DEF Handlers
  <2>7. handler' # "wire2"
    BY <2>1
  <2>8. QED BY SaneInv, <2>1, <2>3, <2>4, <2>5, <2>6, <2>7
<1>15. ASSUME NEW p \in Of(doc, {"pin", "joint"}), RemovePart(p) PROVE Inv'
  <2>1. /\ freed = None /\ handler \in {"select", "wire"} /\ Edit
        /\ doc' = IF p \in Joints(doc) THEN EraseOwner(doc, p) ELSE ErasePort(doc, p)
        /\ freed' = p /\ handler' = handler /\ hint' = hint
    BY <1>15 DEF RemovePart
  <2>2. p \in Nat \ {0} /\ Shape(doc')
    BY <1>1, <2>1, PartRemoved
  <2>3. hint' = None /\ freed' \notin {None, hint'} /\ freed' \in Nat
    BY <1>1, <2>1, <2>2 DEF None
  <2>4. edits' \in 0..MaxEdits
    BY <2>1, OneEdit
  <2>5. handler' \in Handlers /\ handler' # "wire2" /\ hint' \in Nat
    BY <1>1, <2>1
  <2>6. QED BY <2>2, <2>3, <2>4, <2>5 DEF Inv, Intact
<1>16. QED
  BY <1>3, <1>4, <1>5, <1>6, <1>7, <1>9, <1>10, <1>11, <1>12, <1>13, <1>14, <1>15 DEF Next

LEMMA InvAlways ==
  Spec => []Inv
<1>1. Inv /\ [Next]_vars => Inv'
  BY NextInv
<1>2. QED BY <1>1, InitInv, PTL DEF Spec

LEMMA InvTypeOK ==
  ASSUME Inv
  PROVE  TypeOK
<1>1. /\ handler \in Handlers /\ hint \in Nat /\ edits \in 0..MaxEdits /\ freed \in Nat
  BY DEF Inv
<1>2. Shape(doc) /\ Typed(doc) /\ Listing(doc)
  BY DEF Inv, Shape
<1>3. /\ DOMAIN doc.ends = Wires(doc) /\ DOMAIN doc.wire = Ports(doc) /\ DOMAIN doc.opp = Ports(doc)
      /\ DOMAIN doc.owner = Ports(doc) /\ DOMAIN doc.subs = Owners(doc) /\ DOMAIN doc.cls = doc.ids
  BY <1>2, PlugDomains
<1>4. doc.cls \in [doc.ids -> Classes]
  BY <1>2 DEF Typed
<1> DEFINE s == doc.elements
<1>5. s \in Seq(doc.ids) /\ IsInjective(s) /\ IsFiniteSet(doc.ids)
      /\ (\A e \in doc.ids : \E i \in 1..Len(s) : s[i] = e)
  BY <1>2 DEF Listing
<1>6. Len(s) \in Nat /\ DOMAIN s = 1..Len(s) /\ s \in [1..Len(s) -> doc.ids]
  BY <1>5, LenProperties
<1> HIDE DEF s
<1>7. doc.ids = ToSet(s)
  BY <1>5, <1>6 DEF ToSet
<1>8. Len(s) = Cardinality(doc.ids)
  <2>1. s \in Injection(1..Len(s), doc.ids)
    BY <1>5, <1>6 DEF Injection
  <2>2. s \in Surjection(1..Len(s), doc.ids)
    BY <1>5, <1>6 DEF Surjection
  <2>3. Cardinality(1..Len(s)) = Cardinality(doc.ids)
    BY <1>5, <2>1, <2>2, FS_Injection
  <2>4. \A n \in Nat : Cardinality(1..n) = n
    BY FS_Interval
  <2>5. QED BY <1>6, <2>3, <2>4
<1>9. QED BY <1>1, <1>3, <1>4, <1>7, <1>8 DEF TypeOK, s, Owners

LEMMA InvLinksAgree ==
  ASSUME Inv
  PROVE  LinksAgree
<1>0. SUFFICES ASSUME Intact, NEW drawn, drawn = IF freed = None THEN hint ELSE None
               PROVE  /\ \A w \in Wires(doc) :
                           LET s == doc.ends[w][1]
                               e == doc.ends[w][2]
                           IN  /\ s \in Ports(doc) /\ doc.wire[s] = w
                               /\ IF w = drawn THEN e = None
                                  ELSE /\ e \in Ports(doc) \ {s} /\ doc.wire[e] = w
                                       /\ doc.opp[s] = e /\ doc.opp[e] = s
                      /\ \A p \in Ports(doc) :
                           /\ doc.wire[p] # None => p \in ToSet(doc.ends[doc.wire[p]])
                           /\ doc.owner[p] \in DOMAIN doc.subs
                           /\ p \in ToSet(doc.subs[doc.owner[p]])
                      /\ \A j \in Joints(doc) : \A k \in 1..3 : doc.wire[doc.subs[j][k]] # None
                      /\ freed = None => (hint # None <=> hint \in Wires(doc))
  BY DEF LinksAgree
<1>1. Sound(doc, {}) /\ Open(doc) = {drawn} \ {None}
  BY <1>0 DEF Inv
<1>2. Shape(doc) /\ Typed(doc) /\ Owned(doc) /\ Plugged(doc, {})
  BY <1>1 DEF Sound, Shape
<1>3. \A w \in Wires(doc) : w # None
  BY <1>2, Kinds DEF Shape, Listing, None
<1>4. \A w \in Wires(doc) : w = drawn <=> doc.ends[w][2] = None
  <2>1. \A w : w \in Open(doc) <=> w \in Wires(doc) /\ doc.ends[w][2] = None
    BY DEF Open
  <2>2. QED BY <1>1, <1>3, <2>1
<1>5. ASSUME NEW w \in Wires(doc), NEW s, s = doc.ends[w][1], NEW e, e = doc.ends[w][2]
      PROVE  /\ s \in Ports(doc) /\ doc.wire[s] = w
             /\ (IF w = drawn THEN e = None
                 ELSE e \in Ports(doc) \ {s} /\ doc.wire[e] = w
                      /\ doc.opp[s] = e /\ doc.opp[e] = s)
  <2>1. /\ s \in Ports(doc) /\ doc.wire[s] = w
        /\ (e # None => e \in Ports(doc) /\ e # s /\ doc.wire[e] = w
                        /\ doc.opp[s] = e /\ doc.opp[e] = s)
    BY <1>2, <1>5 DEF Plugged
  <2>2. QED BY <1>4, <1>5, <2>1
<1>6. ASSUME NEW p \in Ports(doc)
      PROVE  /\ doc.wire[p] # None => p \in ToSet(doc.ends[doc.wire[p]])
             /\ doc.owner[p] \in DOMAIN doc.subs /\ p \in ToSet(doc.subs[doc.owner[p]])
  <2>1. ASSUME doc.wire[p] # None PROVE p \in ToSet(doc.ends[doc.wire[p]])
    <3>1. PICK w \in Wires(doc) : w = doc.wire[p] /\ p \in {doc.ends[w][1], doc.ends[w][2]}
      BY <1>2, <2>1 DEF Plugged
    <3>2. doc.ends[w] \in Nat \X Nat
      BY <1>2 DEF Typed
    <3>3. DOMAIN doc.ends[w] = 1..2
      BY <3>2
    <3>4. 1 \in 1..2 /\ 2 \in 1..2
      OBVIOUS
    <3>5. QED BY <3>1, <3>3, <3>4 DEF ToSet
  <2>2. doc.owner[p] \in Owners(doc)
        /\ \E k \in 1..Len(doc.subs[doc.owner[p]]) : doc.subs[doc.owner[p]][k] = p
    BY <1>2 DEF Owned
  <2>3. DOMAIN doc.subs = Owners(doc) /\ doc.subs[doc.owner[p]] \in Seq(Nat)
    BY <1>2, <2>2 DEF Typed
  <2>4. p \in ToSet(doc.subs[doc.owner[p]])
    BY <2>2, <2>3, LenProperties DEF ToSet
  <2>5. QED BY <2>1, <2>2, <2>3, <2>4
<1>7. ASSUME NEW j \in Joints(doc), NEW k \in 1..3 PROVE doc.wire[doc.subs[j][k]] # None
  <2>1. j \in Owners(doc) /\ Len(doc.subs[j]) = 3
    BY <1>2 DEF Owned, Owners
  <2>2. doc.subs[j][k] \in Ports(doc) /\ doc.owner[doc.subs[j][k]] = j
    BY <1>2, <2>1 DEF Owned
  <2>3. doc.cls[doc.subs[j][k]] = "jointport"
    BY <1>2, <2>2, JointPorts
  <2>4. QED BY <1>2, <2>2, <2>3 DEF Plugged
<1>8. freed = None => (hint # None <=> hint \in Wires(doc))
  BY <1>0, <1>1, <1>3 DEF Open
<1>9. QED BY <1>5, <1>6, <1>7, <1>8

-----------------------------------------------------------------------------
\* The document is well formed, whatever is drawn, deleted, saved and opened.
THEOREM TypeCorrect == Spec => []TypeOK
BY InvAlways, InvTypeOK, PTL

\* Until a part is deleted alone, after every handler of the editor: wires and the
\* ports at their ends name each other, only the wire being drawn has no end, a joint
\* joins three wires; a component deleted while a wire is drawn from it takes that
\* wire along and leaves the rest in order.
THEOREM LinksAlwaysAgree == Spec => []LinksAgree
BY InvAlways, InvLinksAgree, PTL

\* ~SchemaView: to delete the components is enough for no wire or joint to be left,
\* until a part is deleted alone.
THEOREM ClosedViewIsEmpty == Spec => CloseReleasesAll
<1>1. Inv /\ [Next]_vars => [Close => doc'.elements = <<>>]_vars
  <2>1. SUFFICES ASSUME Inv, Close PROVE doc'.elements = <<>>
    OBVIOUS
  <2>2. Sound(doc, {}) /\ doc' = ReleaseAll(doc)
    BY <2>1 DEF Inv, Close
  <2>3. QED BY <2>2, ReleaseAllIs
<1>2. QED BY <1>1, InvAlways, PTL DEF Spec, CloseReleasesAll
=============================================================================
