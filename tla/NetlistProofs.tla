--------------------------- MODULE NetlistProofs ---------------------------
(***************************************************************************)
(* Proofs about Netlist: every edit changes the nets of a document as the    *)
(* user was promised, and generateNetlist finds the nets.                   *)
(*                                                                         *)
(* Two ports are connected if no set of ports that is closed under wires and *)
(* joints holds one of them only.                                           *)
(***************************************************************************)
EXTENDS Netlist, SchemaProofs

-----------------------------------------------------------------------------
(* Connections.                                                            *)

\* No wire but w leads out of K, and no joint is cut by it; w is None for all wires.
Closed(d, w, K) ==
  /\ \A v \in Wires(d) \ {w} :
       d.ends[v][2] # None => (d.ends[v][1] \in K <=> d.ends[v][2] \in K)
  /\ \A p, q \in Ports(d) :
       d.owner[p] = d.owner[q] /\ d.owner[p] \in Joints(d) => (p \in K <=> q \in K)

\* Without the wire w, p and q are connected.
Conn(d, w, p, q) == \A K : Closed(d, w, K) => (p \in K <=> q \in K)
Comp(d, w, p) == {q \in Ports(d) : Conn(d, w, p, q)}

Ends(d, w, s, e) == \/ s = d.ends[w][1] /\ e = d.ends[w][2]
                    \/ s = d.ends[w][2] /\ e = d.ends[w][1]

LEMMA ConnEquivalence ==
  ASSUME NEW d, NEW w
  PROVE  /\ \A p : Conn(d, w, p, p)
         /\ \A p, q : Conn(d, w, p, q) <=> Conn(d, w, q, p)
         /\ \A p, q, r : Conn(d, w, p, q) /\ Conn(d, w, q, r) => Conn(d, w, p, r)
BY DEF Conn

LEMMA PortIsSome ==
  ASSUME NEW d, Shape(d)
  PROVE  \A p : p \in Ports(d) \/ p \in Wires(d) => p # None
<1>1. \A p : p \in Ports(d) \/ p \in Wires(d) => p \in d.ids
  BY Kinds DEF Shape
<1>2. 0 \notin d.ids
  BY DEF Shape, Listing
<1>3. QED BY <1>1, <1>2 DEF None

LEMMA WireEnds ==
  ASSUME NEW d, Sound(d, {}), NEW w \in Wires(d), d.ends[w][2] # None,
         NEW s, NEW e, Ends(d, w, s, e)
  PROVE  /\ s \in Ports(d) /\ e \in Ports(d) /\ s # e /\ w # None
         /\ d.wire[s] = w /\ d.wire[e] = w /\ d.opp[s] = e /\ d.opp[e] = s
<1>1. /\ d.ends[w][1] \in Ports(d) /\ d.ends[w][2] \in Ports(d) /\ d.ends[w][2] # d.ends[w][1]
      /\ d.wire[d.ends[w][1]] = w /\ d.wire[d.ends[w][2]] = w
      /\ d.opp[d.ends[w][1]] = d.ends[w][2] /\ d.opp[d.ends[w][2]] = d.ends[w][1]
  BY DEF Sound, Plugged
<1>2. w # None
  BY PortIsSome DEF Sound
<1>3. QED BY <1>1, <1>2 DEF Ends

LEMMA JointEnds ==
  ASSUME NEW d, Sound(d, {}), NEW p \in Ports(d), d.owner[p] \in Joints(d)
  PROVE  /\ d.wire[p] \in Wires(d) /\ d.ends[d.wire[p]][2] # None
         /\ Ends(d, d.wire[p], p, d.opp[p]) /\ d.opp[p] \in Ports(d) /\ d.opp[p] # p
         /\ d.owner[d.opp[p]] # d.owner[p] /\ d.opp[d.opp[p]] = p
<1>1. d.cls[p] = "jointport"
  BY JointPorts DEF Sound
<1> DEFINE w == d.wire[p]
           a == d.opp[p]
<1>2. /\ w \in Wires(d) /\ a \in Ports(d) /\ a # p
      /\ d.opp[a] = p /\ d.owner[a] # d.owner[p] /\ Ends(d, w, p, a)
  BY <1>1, Partner DEF Ends
<1>3. d.ends[w][2] # None
  <2>1. a # None /\ p # None
    BY <1>2, PortIsSome DEF Sound
  <2> HIDE DEF w, a
  <2>2. QED BY <1>2, <2>1 DEF Ends
<1>4. QED BY <1>2, <1>3

LEMMA CompClosed ==
  ASSUME NEW d, Sound(d, {}), NEW w, NEW p
  PROVE  Closed(d, w, Comp(d, w, p))
<1> DEFINE C == Comp(d, w, p)
<1>1. ASSUME NEW v \in Wires(d) \ {w}, d.ends[v][2] # None
      PROVE  d.ends[v][1] \in C <=> d.ends[v][2] \in C
  <2>1. d.ends[v][1] \in Ports(d) /\ d.ends[v][2] \in Ports(d)
    BY <1>1 DEF Sound, Plugged
  <2>2. Conn(d, w, d.ends[v][1], d.ends[v][2])
    BY <1>1 DEF Conn, Closed
  <2>3. QED BY <2>1, <2>2, ConnEquivalence DEF Comp
<1>2. ASSUME NEW x \in Ports(d), NEW y \in Ports(d), d.owner[x] = d.owner[y], d.owner[x] \in Joints(d)
      PROVE  x \in C <=> y \in C
  <2>1. Conn(d, w, x, y)
    BY <1>2 DEF Conn, Closed
  <2>2. QED BY <2>1, ConnEquivalence DEF Comp
<1> HIDE DEF C
<1>3. QED BY <1>1, <1>2 DEF Closed, C

\* A pin is in no link but its wire.
LEMMA PinClosed ==
  ASSUME NEW d, Sound(d, {}), NEW w, NEW p \in Pins(d), d.wire[p] \in {w, None} \cup Open(d)
  PROVE  Closed(d, w, {p})
<1>1. p \in Ports(d) /\ d.cls[p] = "pin"
  BY PinKinds DEF Sound, Shape
<1>2. ASSUME NEW v \in Wires(d) \ {w}, d.ends[v][2] # None
      PROVE  d.ends[v][1] # p /\ d.ends[v][2] # p
  <2>1. d.wire[d.ends[v][1]] = v /\ d.wire[d.ends[v][2]] = v /\ v # None
    <3>1. Ends(d, v, d.ends[v][1], d.ends[v][2])
      BY DEF Ends
    <3>2. QED BY <1>2, <3>1, WireEnds
  <2>2. v \notin Open(d)
    BY <1>2 DEF Open
  <2>3. QED BY <1>2, <2>1, <2>2
<1>3. ASSUME NEW x \in Ports(d), d.owner[x] \in Joints(d)
      PROVE  x # p
  <2>1. d.cls[x] = "jointport"
    BY <1>3, JointPorts DEF Sound
  <2>2. QED BY <1>1, <2>1
<1>4. QED BY <1>2, <1>3 DEF Closed

-----------------------------------------------------------------------------
(* A wire holds its net together: without it the ports at its ends are not    *)
(* connected, because wires and joints form a forest.                       *)

\* The joints J lead from the joint a to the joint b without the port s of a.
Bridged(d, s, a, b, J) ==
  /\ a \in J /\ b \in J
  /\ \A I \in SUBSET J : a \in I /\ b \notin I =>
       \E p \in Ports(d) : p # s /\ d.owner[p] \in I /\ d.owner[d.opp[p]] \in J \ I

LEMMA AllBridged ==
  ASSUME NEW d, Sound(d, {}), NEW w \in Wires(d), d.ends[w][2] # None,
         NEW s, NEW e, Ends(d, w, s, e), Conn(d, w, s, e),
         NEW a, a = d.owner[s], NEW b, b = d.owner[e], a \in Joints(d), b \in Joints(d)
  PROVE  Bridged(d, s, a, b, Joints(d))
<1>1. s \in Ports(d) /\ e \in Ports(d) /\ d.wire[s] = w /\ d.opp[s] = e /\ d.opp[e] = s
  BY WireEnds
<1>2. SUFFICES ASSUME NEW I \in SUBSET Joints(d), a \in I, b \notin I,
                      \A p \in Ports(d) : p # s /\ d.owner[p] \in I
                        => d.owner[d.opp[p]] \notin Joints(d) \ I
      PROVE FALSE
  BY DEF Bridged
<1> DEFINE In(p) == \/ d.owner[p] \in I
                    \/ d.owner[p] \notin Joints(d) /\ d.owner[d.opp[p]] \in I
           K == {p \in Ports(d) : In(p)}
<1>3. ASSUME NEW v \in Wires(d) \ {w}, NEW p, NEW q, d.ends[v][2] # None, Ends(d, v, p, q), p \in K
      PROVE  q \in K
  <2>1. p \in Ports(d) /\ q \in Ports(d) /\ d.opp[p] = q /\ d.opp[q] = p /\ d.wire[p] = v /\ p # s
    BY <1>1, <1>3, WireEnds
  <2>2. CASE d.owner[p] \in I
    <3>1. d.owner[q] \notin Joints(d) \ I
      BY <1>2, <2>1, <2>2
    <3>2. QED BY <2>1, <2>2, <3>1
  <2>3. CASE d.owner[p] \notin I
    <3>1. d.owner[d.opp[p]] \in I
      BY <1>3, <2>3
    <3>2. QED BY <2>1, <3>1
  <2>4. QED BY <2>2, <2>3
<1>4. ASSUME NEW v \in Wires(d) \ {w}, d.ends[v][2] # None
      PROVE  d.ends[v][1] \in K <=> d.ends[v][2] \in K
  <2>1. Ends(d, v, d.ends[v][1], d.ends[v][2]) /\ Ends(d, v, d.ends[v][2], d.ends[v][1])
    BY DEF Ends
  <2> HIDE DEF K
  <2>2. QED BY <1>3, <1>4, <2>1
<1>5. ASSUME NEW p \in Ports(d), NEW q \in Ports(d), d.owner[p] = d.owner[q], d.owner[p] \in Joints(d)
      PROVE  p \in K <=> q \in K
  BY <1>5
<1>6. s \in K /\ e \notin K
  BY <1>1, <1>2
<1> HIDE DEF K
<1>7. Closed(d, w, K)
  BY <1>4, <1>5 DEF Closed
<1>8. QED BY <1>6, <1>7 DEF Conn

\* A bridge without a leaf of it is a bridge.
LEMMA Pruneable ==
  ASSUME NEW d, Sound(d, {}), NEW s \in Ports(d), NEW J \in SUBSET Joints(d),
         NEW a, a = d.owner[s], NEW b, b = d.owner[d.opp[s]], a # b,
         Bridged(d, s, a, b, J), NEW j \in J, Leaf(d, {}, J, j)
  PROVE  j # a /\ j # b /\ Bridged(d, s, a, b, J \ {j})
<1>1. a \in J /\ b \in J
  BY DEF Bridged
<1>2. \A p \in Ports(d) : d.owner[p] \in J =>
        d.opp[p] \in Ports(d) /\ d.opp[d.opp[p]] = p
  BY JointEnds
<1>3. \A p, q \in Ports(d) : d.owner[p] = j /\ d.owner[q] = j
         /\ d.owner[d.opp[p]] \in J /\ d.owner[d.opp[q]] \in J => p = q
  BY DEF Leaf
<1>4. \A I \in SUBSET J : a \in I /\ b \notin I =>
        \E p \in Ports(d) : p # s /\ d.owner[p] \in I /\ d.owner[d.opp[p]] \in J \ I
  BY DEF Bridged
<1>5. j # a
  <2>1. SUFFICES ASSUME j = a PROVE FALSE
    OBVIOUS
  <2>2. {a} \in SUBSET J /\ a \in {a} /\ b \notin {a}
    BY <1>1
  <2>3. PICK p \in Ports(d) : p # s /\ d.owner[p] \in {a} /\ d.owner[d.opp[p]] \in J \ {a}
    BY <1>4, <2>2
  <2>4. d.owner[p] = j /\ d.owner[s] = j /\ d.owner[d.opp[p]] \in J /\ d.owner[d.opp[s]] \in J
    BY <1>1, <2>1, <2>3
  <2>5. QED BY <1>3, <2>3, <2>4
<1>6. j # b
  <2>1. SUFFICES ASSUME j = b PROVE FALSE
    OBVIOUS
  <2>2. J \ {b} \in SUBSET J /\ a \in J \ {b} /\ b \notin J \ {b}
    BY <1>1
  <2>3. PICK p \in Ports(d) : p # s /\ d.owner[p] \in J \ {b} /\ d.owner[d.opp[p]] \in J \ (J \ {b})
    BY <1>4, <2>2
  <2> DEFINE q == d.opp[p]
             e == d.opp[s]
  <2>4. d.owner[q] = j /\ q \in Ports(d) /\ d.opp[q] = p /\ d.owner[d.opp[q]] \in J
    BY <1>2, <2>1, <2>3
  <2>5. d.owner[e] = j /\ e \in Ports(d) /\ d.opp[e] = s /\ d.owner[d.opp[e]] \in J
    BY <1>1, <1>2, <2>1
  <2> HIDE DEF q, e
  <2>6. q = e
    BY <1>3, <2>4, <2>5
  <2>7. QED BY <2>3, <2>4, <2>5, <2>6
<1>7. ASSUME NEW I \in SUBSET (J \ {j}), a \in I, b \notin I
      PROVE  \E p \in Ports(d) : p # s /\ d.owner[p] \in I /\ d.owner[d.opp[p]] \in (J \ {j}) \ I
  <2>1. I \in SUBSET J
    OBVIOUS
  <2>2. PICK p \in Ports(d) : p # s /\ d.owner[p] \in I /\ d.owner[d.opp[p]] \in J \ I
    BY <1>4, <1>7, <2>1
  <2>3. CASE d.owner[d.opp[p]] # j
    BY <2>2, <2>3
  <2>4. CASE d.owner[d.opp[p]] = j
    <3>1. I \cup {j} \in SUBSET J /\ a \in I \cup {j} /\ b \notin I \cup {j}
      BY <1>6, <1>7
    <3>2. PICK x \in Ports(d) : x # s /\ d.owner[x] \in I \cup {j}
                                /\ d.owner[d.opp[x]] \in J \ (I \cup {j})
      BY <1>4, <3>1
    <3>3. CASE d.owner[x] \in I
      BY <3>2, <3>3
    <3>4. CASE d.owner[x] = j
      <4> DEFINE q == d.opp[p]
      <4>1. q \in Ports(d) /\ d.opp[q] = p /\ d.owner[q] = j
        BY <1>2, <2>2, <2>4
      <4> HIDE DEF q
      <4>2. d.owner[d.opp[q]] \in J /\ d.owner[d.opp[x]] \in J
        BY <2>2, <3>2, <4>1
      <4>3. q = x
        BY <1>3, <3>4, <4>1, <4>2
      <4>4. QED BY <2>2, <3>2, <4>1, <4>3
    <3>5. QED BY <3>2, <3>3, <3>4
  <2>5. QED BY <2>3, <2>4
<1>8. QED
  <2>1. a \in J \ {j} /\ b \in J \ {j}
    BY <1>1, <1>5, <1>6
  <2>2. QED BY <1>5, <1>6, <1>7, <2>1 DEF Bridged

LEMMA JointsFinite ==
  ASSUME NEW d, Shape(d)
  PROVE  IsFiniteSet(Joints(d)) /\ IsFiniteSet(Ports(d)) /\ IsFiniteSet(Wires(d)) /\ IsFiniteSet(Pins(d))
<1>1. IsFiniteSet(d.ids)
  BY DEF Shape, Listing
<1>2. /\ Joints(d) \subseteq d.ids /\ Ports(d) \subseteq d.ids /\ Wires(d) \subseteq d.ids
      /\ Pins(d) \subseteq d.ids
  BY Kinds, PinKinds DEF Shape
<1>3. QED BY <1>1, <1>2, FS_Subset

\* No set of joints leads around a wire.
LEMMA NoBridge ==
  ASSUME NEW d, Sound(d, {}), NEW s \in Ports(d), NEW a, a = d.owner[s],
         NEW b, b = d.owner[d.opp[s]], a # b
  PROVE  ~\E J \in SUBSET Joints(d) : Bridged(d, s, a, b, J)
<1> DEFINE T == {n \in Nat : \E J \in SUBSET Joints(d) : Bridged(d, s, a, b, J) /\ Cardinality(J) = n}
<1>1. \A J \in SUBSET Joints(d) : IsFiniteSet(J) /\ Cardinality(J) \in Nat
  BY JointsFinite, FS_Subset, FS_CardinalityType DEF Sound
<1>2. SUFFICES ASSUME NEW J0 \in SUBSET Joints(d), Bridged(d, s, a, b, J0) PROVE FALSE
  OBVIOUS
<1>3. T \subseteq Nat /\ T # {}
  BY <1>1, <1>2
<1>4. PICK n \in T : \A m \in T : n <= m
  <2> HIDE DEF T
  <2>1. QED BY <1>3, LeastNat
<1>5. PICK J \in SUBSET Joints(d) : Bridged(d, s, a, b, J) /\ Cardinality(J) = n
  BY <1>4
<1>6. PICK j \in J : Leaf(d, {}, J, j)
  <2>1. J # {}
    BY <1>5 DEF Bridged
  <2>2. QED BY <2>1 DEF Sound, Forest
<1>7. Bridged(d, s, a, b, J \ {j})
  BY <1>5, <1>6, Pruneable
<1>8. J \ {j} \in SUBSET Joints(d) /\ Cardinality(J \ {j}) = n - 1 /\ n \in Nat
  <2>1. IsFiniteSet(J)
    BY <1>1
  <2>2. QED BY <1>4, <1>5, <1>6, <2>1, FS_RemoveElement
<1>9. n - 1 \in T
  BY <1>1, <1>7, <1>8
<1> HIDE DEF T
<1>10. n <= n - 1
  BY <1>4, <1>9
<1>11. QED BY <1>8, <1>10

LEMMA SidesApart ==
  ASSUME NEW d, Sound(d, {}), NEW w \in Wires(d), d.ends[w][2] # None,
         NEW s, NEW e, Ends(d, w, s, e)
  PROVE  ~Conn(d, w, s, e)
<1>1. /\ s \in Ports(d) /\ e \in Ports(d) /\ s # e
      /\ d.wire[s] = w /\ d.wire[e] = w /\ d.opp[s] = e
  BY WireEnds
<1>2. SUFFICES ASSUME Conn(d, w, s, e) PROVE FALSE
  OBVIOUS
<1>3. \A p \in {s, e} : d.cls[p] = "jointport"
  <2>1. ASSUME NEW p \in {s, e}, d.cls[p] # "jointport" PROVE FALSE
    <3>1. p \in Pins(d) /\ d.wire[p] = w
      BY <1>1, <2>1, Kinds, PinKinds DEF Sound, Shape
    <3>2. Closed(d, w, {p})
      BY <3>1, PinClosed
    <3>3. QED BY <1>1, <1>2, <3>2 DEF Conn
  <2>2. QED BY <2>1
<1>4. d.owner[s] \in Joints(d) /\ d.owner[e] \in Joints(d)
  <2>1. ASSUME NEW p \in {s, e} PROVE d.owner[p] \in Joints(d)
    <3>1. d.owner[p] \in Owners(d) /\ d.cls[d.owner[p]] # "component"
      BY <1>1, <1>3 DEF Sound, Owned
    <3>2. QED BY <3>1, Kinds DEF Sound, Shape, Owners
  <2>2. QED BY <2>1
<1>5. d.owner[e] # d.owner[s]
  BY <1>1, <1>4, JointEnds
<1>6. Bridged(d, s, d.owner[s], d.owner[e], Joints(d))
  BY <1>2, <1>4, AllBridged
<1>7. QED BY <1>1, <1>5, <1>6, NoBridge

LEMMA JointOfPort ==
  ASSUME NEW d, Sound(d, {}), NEW p \in Ports(d) \ Pins(d)
  PROVE  d.cls[p] = "jointport" /\ d.owner[p] \in Joints(d)
<1>1. d.cls[p] = "jointport"
  BY Kinds, PinKinds DEF Sound, Shape
<1>2. d.owner[p] \in Owners(d) /\ d.cls[d.owner[p]] # "component"
  BY <1>1 DEF Sound, Owned
<1>3. QED BY <1>1, <1>2, Kinds DEF Sound, Shape, Owners

LEMMA ThreePorts ==
  ASSUME NEW d, Sound(d, {}), NEW j \in Joints(d)
  PROVE  \E x, y, z : /\ x # y /\ y # z /\ z # x
                      /\ d.subs[j] = <<x, y, z>>
                      /\ \A p : p \in {x, y, z} <=> p \in Ports(d) /\ d.owner[p] = j
<1> DEFINE s == d.subs[j]
<1>1. s \in Seq(Nat) /\ Len(s) = 3 /\ IsInjective(s)
      /\ \A k \in 1..3 : s[k] \in Ports(d) /\ d.owner[s[k]] = j
  <2>1. j \in Owners(d) /\ Owned(d) /\ Typed(d)
    BY DEF Owners, Sound, Shape
  <2>2. s \in Seq(Nat) /\ Len(s) = 3 /\ IsInjective(s)
    BY <2>1 DEF Owned, Typed
  <2>3. \A k \in 1..3 : s[k] \in Ports(d) /\ d.owner[s[k]] = j
    BY <2>1, <2>2 DEF Owned
  <2>4. QED BY <2>2, <2>3
<1>2. \A p \in Ports(d) : d.owner[p] = j => \E k \in 1..3 : s[k] = p
  <2>1. ASSUME NEW p \in Ports(d), d.owner[p] = j PROVE \E k \in 1..3 : s[k] = p
    <3>1. PICK k \in 1..Len(d.subs[d.owner[p]]) : d.subs[d.owner[p]][k] = p
      BY DEF Sound, Owned
    <3>2. d.subs[d.owner[p]] = s
      BY <2>1
    <3> HIDE DEF s
    <3>3. QED BY <1>1, <3>1, <3>2
  <2> HIDE DEF s
  <2>2. QED BY <2>1
<1>3. DOMAIN s = 1..3
  BY <1>1, LenProperties
<1> HIDE DEF s
<1>4. s[1] # s[2] /\ s[2] # s[3] /\ s[3] # s[1]
  BY <1>3, <1>1 DEF IsInjective
<1>5. s = <<s[1], s[2], s[3]>>
  BY <1>1
<1>6. \A p : p \in {s[1], s[2], s[3]} <=> p \in Ports(d) /\ d.owner[p] = j
  <2>1. \A k \in 1..3 : k = 1 \/ k = 2 \/ k = 3
    OBVIOUS
  <2>2. \A p : p \in {s[1], s[2], s[3]} <=> \E k \in 1..3 : s[k] = p
    BY <2>1
  <2>3. QED BY <1>1, <1>2, <2>2
<1>7. QED BY <1>4, <1>5, <1>6 DEF s

\* On either side of a wire there is a pin: the last joint on that side has a port whose
\* wire leads to no joint.
LEMMA HasPin ==
  ASSUME NEW d, Sound(d, {}), NEW w \in Wires(d), d.ends[w][2] # None,
         NEW s, NEW e, Ends(d, w, s, e)
  PROVE  \E q \in Pins(d) : Conn(d, w, s, q)
<1> DEFINE A == Comp(d, w, s)
           J == {j \in Joints(d) : \E p \in A : d.owner[p] = j}
<1>1. s \in Ports(d) /\ e \in Ports(d) /\ d.wire[s] = w /\ d.wire[e] = w
  BY WireEnds
<1>2. s \in A /\ e \notin A
  <2>1. ~Conn(d, w, s, e)
    BY SidesApart
  <2>2. QED BY <1>1, <2>1, ConnEquivalence DEF Comp
<1>3. SUFFICES ASSUME A \cap Pins(d) = {} PROVE FALSE
  BY PinKinds DEF Comp, Sound, Shape
<1>4. A \subseteq Ports(d) /\ Closed(d, w, A)
  BY CompClosed DEF Comp
<1> HIDE DEF A
<1>5. \A p \in A : d.cls[p] = "jointport" /\ d.owner[p] \in J
  BY <1>3, <1>4, JointOfPort
<1>6. PICK j \in J : Leaf(d, {}, J, j)
  <2>1. J \in SUBSET Joints(d) /\ J # {}
    BY <1>2, <1>5
  <2> HIDE DEF J
  <2>2. QED BY <2>1 DEF Sound, Forest
<1>7. \A p \in Ports(d) : d.owner[p] = j => p \in A
  <2>1. PICK q \in A : d.owner[q] = j
    BY <1>6
  <2>2. j \in Joints(d)
    BY <1>6
  <2>3. QED BY <1>4, <2>1, <2>2 DEF Closed
<1>8. \A p \in A : p # s => d.owner[d.opp[p]] \in J
  <2>1. ASSUME NEW p \in A, p # s PROVE d.owner[d.opp[p]] \in J
    <3>1. p \in Ports(d) /\ d.owner[p] \in Joints(d)
      BY <1>4, <1>5
    <3>2. /\ d.wire[p] \in Wires(d) /\ d.ends[d.wire[p]][2] # None
          /\ Ends(d, d.wire[p], p, d.opp[p])
      BY <3>1, JointEnds
    <3>3. d.wire[p] # w
      <4>1. Ends(d, w, p, d.opp[p]) => p = s \/ p = e
        BY DEF Ends
      <4>2. QED BY <1>2, <2>1, <3>2, <4>1
    <3>4. d.opp[p] \in A
      BY <1>4, <2>1, <3>2, <3>3 DEF Closed, Ends
    <3> HIDE DEF J
    <3>5. QED BY <1>5, <3>4
  <2>2. QED BY <2>1
<1>9. j \in Joints(d)
  BY <1>6
<1> HIDE DEF J
<1>10. PICK x, y, z : /\ x # y /\ y # z /\ z # x
                      /\ d.subs[j] = <<x, y, z>>
                      /\ \A p : p \in {x, y, z} <=> p \in Ports(d) /\ d.owner[p] = j
  BY <1>9, ThreePorts
<1>11. \A p, q \in {x, y, z} : p # s /\ q # s => p = q
  <2>1. \A p \in {x, y, z} : p \in Ports(d) /\ d.owner[p] = j /\ p \in A
    BY <1>7, <1>10
  <2>2. QED BY <1>6, <1>8, <2>1 DEF Leaf
<1>12. QED BY <1>10, <1>11

-----------------------------------------------------------------------------
(* The nets of a document are the classes of connected pins.                *)

Net(d, p) == {q \in Pins(d) : Conn(d, None, p, q)}

\* What is computed by repeating a step.
Iteration(f, b, G, n) == f[0] = b /\ \A k \in 1..n : f[k] = G[f[k - 1]]

LEMMA Iterates ==
  ASSUME NEW V, NEW b \in V, NEW G \in [V -> V], NEW n \in Nat
  PROVE  \E f \in [0..n -> V] : Iteration(f, b, G, n)
<1> DEFINE T == {m \in Nat : ~\E f \in [0..m -> V] : Iteration(f, b, G, m)}
<1>1. SUFFICES ASSUME T # {} PROVE FALSE
  OBVIOUS
<1>2. PICK m \in T : \A i \in T : m <= i
  <2>1. T \subseteq Nat
    OBVIOUS
  <2> HIDE DEF T
  <2>2. QED BY <1>1, <2>1, LeastNat
<1>3. m \in Nat /\ ~\E f \in [0..m -> V] : Iteration(f, b, G, m)
  BY <1>2
<1>4. CASE m = 0
  <2> DEFINE f == [k \in 0..m |-> b]
  <2>1. f \in [0..m -> V] /\ f[0] = b
    BY <1>4
  <2>2. Iteration(f, b, G, m)
    BY <1>4, <2>1 DEF Iteration
  <2>3. QED BY <1>3, <2>1, <2>2
<1>5. CASE m > 0
  <2>1. m - 1 \in Nat /\ m - 1 \notin T
    <3> HIDE DEF T
    <3>1. m - 1 \in Nat /\ ~(m <= m - 1)
      BY <1>3, <1>5
    <3>2. QED BY <1>2, <3>1
  <2>2. PICK f \in [0..(m - 1) -> V] : Iteration(f, b, G, m - 1)
    BY <2>1
  <2> DEFINE g == [k \in 0..m |-> IF k = m THEN G[f[m - 1]] ELSE f[k]]
  <2>3. m - 1 \in 0..(m - 1) /\ \A k \in 0..m : k # m => k \in 0..(m - 1)
    BY <1>3, <1>5
  <2>4. g \in [0..m -> V]
    BY <2>3
  <2>5. g[0] = b
    <3>1. 0 \in 0..m /\ 0 # m
      BY <1>3, <1>5
    <3>2. QED BY <2>2, <3>1 DEF Iteration
  <2>6. ASSUME NEW k \in 1..m PROVE g[k] = G[g[k - 1]]
    <3>1. k \in 0..m /\ k - 1 \in 0..m /\ k - 1 # m
      BY <1>3
    <3>2. g[k - 1] = f[k - 1]
      BY <3>1
    <3>3. CASE k = m
      BY <3>1, <3>2, <3>3
    <3>4. CASE k # m
      <4>1. k \in 1..(m - 1)
        BY <1>3, <3>4
      <4>2. f[k] = G[f[k - 1]]
        BY <2>2, <4>1 DEF Iteration
      <4>3. g[k] = f[k]
        BY <3>1, <3>4
      <4> HIDE DEF g
      <4>4. QED BY <3>2, <4>2, <4>3
    <3>5. QED BY <3>3, <3>4
  <2> HIDE DEF g
  <2>7. Iteration(g, b, G, m)
    BY <2>5, <2>6 DEF Iteration
  <2>8. QED BY <1>3, <2>4, <2>7
<1>6. QED BY <1>3, <1>4, <1>5

\* The links of a document that lead to no open end.
Tied(d) == {l \in Links(d) : None \notin l}

LEMMA TiedKinds ==
  ASSUME NEW d, Sound(d, {})
  PROVE  /\ IsFiniteSet(Tied(d))
         /\ \A l \in Tied(d) :
              \/ \E v \in Wires(d) : d.ends[v][2] # None /\ l = {d.ends[v][1], d.ends[v][2]}
              \/ \E j \in Joints(d) : l = {p \in Ports(d) : d.owner[p] = j}
         /\ \A v \in Wires(d) : d.ends[v][2] # None => {d.ends[v][1], d.ends[v][2]} \in Tied(d)
         /\ \A j \in Joints(d) : {p \in Ports(d) : d.owner[p] = j} \in Tied(d)
<1>0. Typed(d) /\ DOMAIN d.cls = d.ids /\ Shape(d)
  BY Kinds DEF Sound, Shape
<1> DEFINE E == Of(d, {"wire", "joint"})
<1>1. E = Wires(d) \cup Joints(d)
  BY DEF Of, Wires, Joints
<1>2. ASSUME NEW v \in Wires(d) PROVE ToSet(PortsOf(d, v)) = {d.ends[v][1], d.ends[v][2]}
  <2>1. PortsOf(d, v) = d.ends[v] /\ d.ends[v] \in Nat \X Nat
    BY <1>0, Kinds DEF PortsOf, Typed
  <2>2. PICK a, b : d.ends[v] = <<a, b>>
    BY <2>1
  <2>3. ToSet(<<a, b>>) = {a, b}
    BY DEF ToSet
  <2>4. QED BY <2>1, <2>2, <2>3
<1>3. ASSUME NEW j \in Joints(d)
      PROVE  ToSet(PortsOf(d, j)) = {p \in Ports(d) : d.owner[p] = j}
  <2>1. PICK x, y, z : /\ x # y /\ y # z /\ z # x
                       /\ d.subs[j] = <<x, y, z>>
                       /\ \A p : p \in {x, y, z} <=> p \in Ports(d) /\ d.owner[p] = j
    BY ThreePorts
  <2>2. PortsOf(d, j) = <<x, y, z>>
    BY <1>0, <2>1, Kinds DEF PortsOf
  <2>3. ToSet(<<x, y, z>>) = {x, y, z}
    BY DEF ToSet
  <2>4. QED BY <2>1, <2>2, <2>3
<1>4. IsFiniteSet(Tied(d))
  <2>1. IsFiniteSet(E)
    <3>1. E \subseteq d.ids
      BY <1>0, <1>1, Kinds
    <3>2. QED BY <1>0, <3>1, FS_Subset DEF Shape, Listing
  <2> DEFINE f == [e \in E |-> ToSet(PortsOf(d, e))]
  <2>2. f \in Surjection(E, Links(d))
    BY DEF Surjection, Links
  <2>3. IsFiniteSet(Links(d))
    BY <2>1, <2>2, FS_Surjection
  <2>4. Tied(d) \subseteq Links(d)
    BY DEF Tied
  <2>5. QED BY <2>3, <2>4, FS_Subset
<1>5. \A l : l \in Tied(d) <=> None \notin l /\ \E e \in E : l = ToSet(PortsOf(d, e))
  BY DEF Tied, Links
<1> HIDE DEF E
<1>6. ASSUME NEW l \in Tied(d)
      PROVE  \/ \E v \in Wires(d) : d.ends[v][2] # None /\ l = {d.ends[v][1], d.ends[v][2]}
             \/ \E j \in Joints(d) : l = {p \in Ports(d) : d.owner[p] = j}
  <2>1. PICK e \in E : l = ToSet(PortsOf(d, e))
    BY <1>5
  <2>2. CASE e \in Wires(d)
    <3>1. l = {d.ends[e][1], d.ends[e][2]} /\ None \notin l
      BY <1>2, <1>5, <2>1, <2>2
    <3>2. QED BY <2>2, <3>1
  <2>3. CASE e \in Joints(d)
    BY <1>3, <2>1, <2>3
  <2>4. QED BY <1>1, <2>2, <2>3
<1>7. ASSUME NEW v \in Wires(d), d.ends[v][2] # None
      PROVE {d.ends[v][1], d.ends[v][2]} \in Tied(d)
  <2>1. d.ends[v][1] # None
    <3>1. d.ends[v][1] \in Ports(d)
      BY DEF Sound, Plugged
    <3>2. QED BY <1>0, <3>1, PortIsSome
  <2>2. v \in E
    BY <1>1
  <2>3. None \notin {d.ends[v][1], d.ends[v][2]}
    BY <1>7, <2>1
  <2>4. QED BY <1>2, <1>5, <2>2, <2>3
<1>8. ASSUME NEW j \in Joints(d)
      PROVE {p \in Ports(d) : d.owner[p] = j} \in Tied(d)
  <2>1. None \notin Ports(d)
    BY <1>0, PortIsSome
  <2>2. j \in E /\ None \notin {p \in Ports(d) : d.owner[p] = j}
    BY <1>1, <2>1
  <2>3. QED BY <1>3, <1>5, <2>2
<1>9. QED BY <1>4, <1>6, <1>7, <1>8

\* Closed under links is closed under wires and joints.
Unsplit(L, K) == \A l \in L : l \cap K # {} => l \subseteq K

LEMMA TiedClosed ==
  ASSUME NEW d, Sound(d, {}), NEW K
  PROVE  Unsplit(Tied(d), K) <=> Closed(d, None, K)
<1>1. \A v \in Wires(d) : v # None
  BY PortIsSome DEF Sound
<1>2. ASSUME Unsplit(Tied(d), K) PROVE Closed(d, None, K)
  <2>1. ASSUME NEW v \in Wires(d), d.ends[v][2] # None
        PROVE  d.ends[v][1] \in K <=> d.ends[v][2] \in K
    <3>1. {d.ends[v][1], d.ends[v][2]} \in Tied(d)
      BY <2>1, TiedKinds
    <3>2. QED BY <1>2, <3>1 DEF Unsplit
  <2>2. ASSUME NEW p \in Ports(d), NEW q \in Ports(d), d.owner[p] = d.owner[q], d.owner[p] \in Joints(d)
        PROVE  p \in K <=> q \in K
    <3>1. {x \in Ports(d) : d.owner[x] = d.owner[p]} \in Tied(d)
      BY <2>2, TiedKinds
    <3>2. PICK l \in Tied(d) : p \in l /\ q \in l
      BY <2>2, <3>1
    <3>3. QED BY <1>2, <3>2 DEF Unsplit
  <2>3. QED BY <2>1, <2>2 DEF Closed
<1>3. ASSUME Closed(d, None, K), NEW l \in Tied(d), l \cap K # {} PROVE l \subseteq K
  <2>1. CASE \E v \in Wires(d) : d.ends[v][2] # None /\ l = {d.ends[v][1], d.ends[v][2]}
    <3>1. PICK v \in Wires(d) : d.ends[v][2] # None /\ l = {d.ends[v][1], d.ends[v][2]}
      BY <2>1
    <3>2. d.ends[v][1] \in K <=> d.ends[v][2] \in K
      BY <1>1, <1>3, <3>1 DEF Closed
    <3>3. QED BY <1>3, <3>1, <3>2
  <2>2. CASE \E j \in Joints(d) : l = {p \in Ports(d) : d.owner[p] = j}
    BY <1>3, <2>2 DEF Closed
  <2>3. QED BY <2>1, <2>2, TiedKinds
<1>4. QED BY <1>2, <1>3 DEF Unsplit

Near(L, A) == A \cup UNION {l \in L : l \cap A # {}}
Touched(L, A) == {l \in L : l \cap A # {}}

\* A is the least set that holds p and that no link leads out of.
Reached(L, p, A) ==
  Unsplit(L, A) /\ p \in A /\ \A K : Unsplit(L, K) /\ p \in K => A \subseteq K

\* After as many steps as there are links nothing more is reached.
LEMMA ReachCloses ==
  ASSUME NEW L, IsFiniteSet(L), NEW n, n = Cardinality(L), NEW p, NEW g,
         g[0] = {p}, \A k \in 1..n : g[k] = Near(L, g[k - 1])
  PROVE  Reached(L, p, g[n])
<1> DEFINE Least(A) == p \in A /\ \A K : Unsplit(L, K) /\ p \in K => A \subseteq K
           Many(A, k) == Unsplit(L, A) \/ Cardinality(Touched(L, A)) >= k + 1
           T == {k \in 0..n : Least(g[k]) /\ Many(g[k], k)}
<1>0. n \in Nat
  BY FS_CardinalityType
<1>1. \A A : IsFiniteSet(Touched(L, A)) /\ Cardinality(Touched(L, A)) \in Nat
             /\ Cardinality(Touched(L, A)) <= n
  <2>1. ASSUME NEW A PROVE IsFiniteSet(Touched(L, A)) /\ Cardinality(Touched(L, A)) \in Nat
                           /\ Cardinality(Touched(L, A)) <= n
    <3>1. Touched(L, A) \in SUBSET L
      BY DEF Touched
    <3>2. QED BY <3>1, FS_Subset, FS_CardinalityType
  <2>2. QED BY <2>1
<1>2. 0 \in T
  <2>1. 0 \in 0..n /\ Least(g[0])
    BY <1>0
  <2>2. ASSUME ~Unsplit(L, g[0]) PROVE Cardinality(Touched(L, g[0])) >= 0 + 1
    <3>1. PICK l : l \in Touched(L, g[0])
      BY <2>2 DEF Unsplit, Touched
    <3>2. Cardinality(Touched(L, g[0])) # 0
      BY <1>1, <3>1, FS_EmptySet
    <3>3. QED BY <1>1, <3>2
  <2> HIDE DEF Least
  <2>3. QED BY <2>1, <2>2
<1>3. ASSUME NEW k \in 1..n, k - 1 \in T PROVE k \in T
  <2>0. PICK A : A = g[k - 1]
    OBVIOUS
  <2>1. k \in 0..n /\ g[k] = Near(L, A) /\ Least(A) /\ Many(A, k - 1)
    BY <1>0, <1>3, <2>0
  <2>2. A \subseteq Near(L, A) /\ \A l \in Touched(L, A) : l \subseteq Near(L, A)
    BY DEF Near, Touched
  <2>3. Least(Near(L, A))
    <3>1. ASSUME NEW K, Unsplit(L, K), p \in K PROVE Near(L, A) \subseteq K
      <4>1. A \subseteq K
        BY <2>1, <3>1
      <4>2. \A l \in L : l \cap A # {} => l \subseteq K
        BY <3>1, <4>1 DEF Unsplit
      <4>3. QED BY <4>1, <4>2 DEF Near
    <3>2. QED BY <2>1, <2>2, <3>1
  <2>4. Many(Near(L, A), k)
    <3>1. SUFFICES ASSUME ~Unsplit(L, Near(L, A))
                   PROVE  Cardinality(Touched(L, Near(L, A))) >= k + 1
      OBVIOUS
    <3>2. ~Unsplit(L, A)
      <4>1. SUFFICES ASSUME Unsplit(L, A) PROVE FALSE
        OBVIOUS
      <4>2. Near(L, A) = A
        BY <4>1 DEF Near, Unsplit
      <4>3. QED BY <3>1, <4>1, <4>2
    <3>3. PICK l \in L : l \cap Near(L, A) # {} /\ ~(l \subseteq Near(L, A))
      BY <3>1 DEF Unsplit
    <3>4. l \notin Touched(L, A) /\ Touched(L, A) \cup {l} \subseteq Touched(L, Near(L, A))
      BY <2>2, <3>3 DEF Touched
    <3>5. Cardinality(Touched(L, A) \cup {l}) = Cardinality(Touched(L, A)) + 1
      BY <1>1, <3>4, FS_AddElement
    <3>6. Cardinality(Touched(L, A) \cup {l}) <= Cardinality(Touched(L, Near(L, A)))
      BY <1>1, <3>4, FS_Subset
    <3>7. Cardinality(Touched(L, A)) >= (k - 1) + 1
      BY <2>1, <3>2
    <3>8. PICK x \in Nat, y \in Nat : x = Cardinality(Touched(L, A))
                                      /\ y = Cardinality(Touched(L, Near(L, A)))
      BY <1>1
    <3>9. x + 1 <= y /\ x >= (k - 1) + 1
      BY <3>5, <3>6, <3>7, <3>8
    <3>10. y >= k + 1
      BY <3>9
    <3>11. QED BY <3>8, <3>10
  <2> HIDE DEF Least, Many
  <2>5. QED BY <2>1, <2>3, <2>4
<1>4. \A k \in 0..n : k \in T
  <2> HIDE DEF T
  <2>1. QED BY <1>0, <1>2, <1>3, CountUp
<1>5. Least(g[n]) /\ Many(g[n], n)
  <2>1. n \in T
    BY <1>0, <1>4
  <2> HIDE DEF Least, Many
  <2>2. QED BY <2>1
<1>6. Unsplit(L, g[n])
  <2>1. ~(Cardinality(Touched(L, g[n])) >= n + 1)
    BY <1>0, <1>1
  <2>2. QED BY <1>5, <2>1
<1>7. QED BY <1>5, <1>6 DEF Reached

Reaching(d, L, n, f) ==
  f = [k \in 0..n |-> [p \in Ports(d) |-> IF k = 0 THEN {p} ELSE Near(L, f[k - 1][p])]]

LEMMA ReachExists ==
  ASSUME NEW d, Sound(d, {}), NEW L, L = Tied(d), NEW n \in Nat
  PROVE  \E f : Reaching(d, L, n, f)
<1> DEFINE P == Ports(d)
           V == [P -> SUBSET P]
           b == [p \in P |-> {p}]
           G == [h \in V |-> [p \in P |-> Near(L, h[p])]]
<1>1. \A l \in L : l \subseteq P
  <2>1. ASSUME NEW l \in L PROVE l \subseteq P
    <3>1. CASE \E v \in Wires(d) : d.ends[v][2] # None /\ l = {d.ends[v][1], d.ends[v][2]}
      BY <3>1 DEF Sound, Plugged
    <3>2. CASE \E j \in Joints(d) : l = {p \in Ports(d) : d.owner[p] = j}
      BY <3>2
    <3>3. QED BY <3>1, <3>2, TiedKinds
  <2>2. QED BY <2>1
<1> HIDE DEF P
<1>2. b \in V
  OBVIOUS
<1>3. G \in [V -> V]
  <2>1. ASSUME NEW h \in V PROVE [p \in P |-> Near(L, h[p])] \in V
    <3>1. ASSUME NEW p \in P PROVE Near(L, h[p]) \in SUBSET P
      <4>1. h[p] \in SUBSET P
        OBVIOUS
      <4>2. QED BY <1>1, <4>1 DEF Near
    <3>2. QED BY <3>1
  <2> HIDE DEF V
  <2>2. QED BY <2>1
<1>4. PICK f \in [0..n -> V] : Iteration(f, b, G, n)
  <2> HIDE DEF V, b, G
  <2>1. QED BY <1>2, <1>3, Iterates
<1>5. ASSUME NEW k \in 0..n
      PROVE  f[k] = [p \in P |-> IF k = 0 THEN {p} ELSE Near(L, f[k - 1][p])]
  <2>1. CASE k = 0
    <3>1. f[0] = b
      BY <1>4 DEF Iteration
    <3>2. QED BY <2>1, <3>1
  <2>2. CASE k # 0
    <3>1. k \in 1..n /\ k - 1 \in 0..n
      BY <2>2
    <3>2. f[k] = G[f[k - 1]] /\ f[k - 1] \in V
      BY <1>4, <3>1 DEF Iteration
    <3>3. f[k] = [p \in P |-> Near(L, f[k - 1][p])]
      <4> HIDE DEF V
      <4>1. QED BY <3>2
    <3>4. QED BY <2>2, <3>3
  <2>3. QED BY <2>1, <2>2
<1>6. Reaching(d, L, n, f)
  <2>1. f = [k \in 0..n |-> f[k]]
    BY <1>4
  <2>2. QED BY <1>5, <2>1 DEF Reaching, P
<1>7. QED BY <1>6

\* What PinNets computes are the classes of connected pins.
LEMMA PinNetsIs ==
  ASSUME NEW d, Sound(d, {})
  PROVE  PinNets(d) = {Net(d, p) : p \in Pins(d)}
<1>0. SUFFICES ASSUME NEW L, L = Tied(d), NEW n, n = Cardinality(L)
               PROVE  PinNets(d) = {Net(d, p) : p \in Pins(d)}
  OBVIOUS
<1>1. IsFiniteSet(L) /\ n \in Nat
  BY <1>0, TiedKinds, FS_CardinalityType
<1> DEFINE f == CHOOSE f : f = [k \in 0..n |->
                  [p \in Ports(d) |-> IF k = 0 THEN {p} ELSE Near(L, f[k - 1][p])]]
<1>2. PinNets(d) = {{q \in f[n][p] : d.cls[q] = "pin"} : p \in Pins(d)}
  BY <1>0 DEF PinNets, Tied, Near, Pins
<1>3. f = [k \in 0..n |-> [p \in Ports(d) |-> IF k = 0 THEN {p} ELSE Near(L, f[k - 1][p])]]
  <2>1. PICK g : Reaching(d, L, n, g)
    BY <1>0, <1>1, ReachExists
  <2>2. g = [k \in 0..n |-> [p \in Ports(d) |-> IF k = 0 THEN {p} ELSE Near(L, g[k - 1][p])]]
    BY <2>1 DEF Reaching
  <2>3. QED BY <2>2
<1> HIDE DEF f
<1>4. \A p \in Pins(d) : p \in Ports(d)
  BY PinKinds DEF Sound, Shape
<1>5. ASSUME NEW p \in Pins(d) PROVE {q \in f[n][p] : d.cls[q] = "pin"} = Net(d, p)
  <2> DEFINE g == [k \in 0..n |-> f[k][p]]
  <2>1. g[0] = {p}
    <3>1. f[0] = [x \in Ports(d) |-> {x}]
      BY <1>1, <1>3
    <3>2. QED BY <1>1, <1>4, <3>1
  <2>2. ASSUME NEW k \in 1..n PROVE g[k] = Near(L, g[k - 1])
    <3>1. k \in 0..n /\ k - 1 \in 0..n /\ k # 0
      BY <1>1
    <3>2. f[k] = [x \in Ports(d) |-> Near(L, f[k - 1][x])]
      BY <1>3, <3>1
    <3>3. f[k][p] = Near(L, f[k - 1][p])
      BY <1>4, <3>2
    <3>4. QED BY <3>1, <3>3
  <2>3. PICK A : A = g[n] /\ A = f[n][p]
    BY <1>1
  <2> HIDE DEF g
  <2>4. Unsplit(L, A) /\ p \in A /\ \A K : Unsplit(L, K) /\ p \in K => A \subseteq K
    <3>1. Reached(L, p, g[n])
      BY <1>0, <1>1, <2>1, <2>2, ReachCloses
    <3>2. QED BY <2>3, <3>1 DEF Reached
  <2>5. A \subseteq Ports(d)
    <3>1. Closed(d, None, Ports(d))
      BY DEF Closed, Sound, Plugged
    <3>2. QED BY <1>0, <1>4, <2>4, <3>1, TiedClosed
  <2>6. ASSUME NEW q \in A PROVE Conn(d, None, p, q)
    <3>1. SUFFICES ASSUME NEW K, Closed(d, None, K) PROVE p \in K <=> q \in K
      BY DEF Conn
    <3>2. ASSUME p \in K PROVE q \in K
      BY <1>0, <2>4, <2>6, <3>1, <3>2, TiedClosed
    <3>3. ASSUME p \notin K PROVE q \notin K
      <4> DEFINE M == Ports(d) \ K
      <4>1. Closed(d, None, M)
        BY <3>1 DEF Closed, Sound, Plugged
      <4>2. p \in M
        BY <1>4, <3>3
      <4> HIDE DEF M
      <4>3. q \in M
        BY <1>0, <2>4, <2>6, <4>1, <4>2, TiedClosed
      <4>4. QED BY <4>3 DEF M
    <3>4. QED BY <3>2, <3>3
  <2>7. ASSUME NEW q, Conn(d, None, p, q) PROVE q \in A
    <3>1. Closed(d, None, A)
      BY <1>0, <2>4, TiedClosed
    <3>2. QED BY <2>4, <2>7, <3>1 DEF Conn
  <2>8. \A q : q \in Ports(d) => (d.cls[q] = "pin" <=> q \in Pins(d))
    BY Kinds, PinKinds DEF Sound, Shape
  <2>9. \A q : q \in A /\ d.cls[q] = "pin" <=> q \in Net(d, p)
    BY <1>4, <2>5, <2>6, <2>7, <2>8 DEF Net
  <2>10. QED BY <2>3, <2>9
<1>6. QED BY <1>2, <1>5

-----------------------------------------------------------------------------
(* What one wire does to the nets.                                          *)

\* The pins connected to p without the wire w, and the nets there would be.
Class(d, w, p) == {q \in Pins(d) : Conn(d, w, p, q)}
Partition(d, w) == {Class(d, w, p) : p \in Pins(d)}

LEMMA PinNetsPartition ==
  ASSUME NEW d, Sound(d, {})
  PROVE  PinNets(d) = Partition(d, None)
<1>1. \A p : Net(d, p) = Class(d, None, p)
  BY DEF Net, Class
<1>2. QED BY <1>1, PinNetsIs DEF Partition

\* Each pin is in one class, its own.
LEMMA ClassOf ==
  ASSUME NEW d, NEW w
  PROVE  /\ UNION Partition(d, w) = Pins(d)
         /\ \A p \in Pins(d) : p \in Class(d, w, p)
         /\ \A p : \A q \in Class(d, w, p) : Class(d, w, q) = Class(d, w, p)
         /\ {} \notin Partition(d, w)
<1>1. \A p \in Pins(d) : p \in Class(d, w, p)
  BY ConnEquivalence DEF Class
<1>2. ASSUME NEW p, NEW q \in Class(d, w, p) PROVE Class(d, w, q) = Class(d, w, p)
  <2>1. Conn(d, w, p, q)
    BY <1>2 DEF Class
  <2>2. \A x : Conn(d, w, q, x) <=> Conn(d, w, p, x)
    BY <2>1, ConnEquivalence
  <2>3. QED BY <2>2 DEF Class
<1>3. \A p : Class(d, w, p) \subseteq Pins(d)
  BY DEF Class
<1>4. {} \notin Partition(d, w)
  BY <1>1 DEF Partition
<1>5. UNION Partition(d, w) = Pins(d)
  <2>1. \A p \in Pins(d) : Class(d, w, p) \in Partition(d, w)
    BY DEF Partition
  <2>2. \A n \in Partition(d, w) : n \subseteq Pins(d)
    BY <1>3 DEF Partition
  <2>3. QED BY <1>1, <2>1, <2>2
<1>6. QED BY <1>1, <1>2, <1>4, <1>5

LEMMA SameClass ==
  ASSUME NEW d, NEW w, NEW p, NEW q, q \in Class(d, w, p)
  PROVE  Class(d, w, q) = Class(d, w, p)
BY ClassOf

LEMMA ClosedWith ==
  ASSUME NEW d, Sound(d, {}), NEW w \in Wires(d), d.ends[w][2] # None,
         NEW s, NEW e, Ends(d, w, s, e), NEW K
  PROVE  Closed(d, None, K) <=> Closed(d, w, K) /\ (s \in K <=> e \in K)
<1>1. \A v \in Wires(d) : v # None
  BY PortIsSome DEF Sound
<1>2. (s \in K <=> e \in K) <=> (d.ends[w][1] \in K <=> d.ends[w][2] \in K)
  BY DEF Ends
<1>3. QED BY <1>1, <1>2 DEF Closed

\* With the wire two ports are connected if they were, or if they were on its two sides.
LEMMA LinkAdds ==
  ASSUME NEW d, Sound(d, {}), NEW w \in Wires(d), d.ends[w][2] # None,
         NEW s, NEW e, Ends(d, w, s, e), NEW x \in Ports(d), NEW y \in Ports(d)
  PROVE  Conn(d, None, x, y) <=> \/ Conn(d, w, x, y)
                                 \/ Conn(d, w, x, s) /\ Conn(d, w, y, e)
                                 \/ Conn(d, w, x, e) /\ Conn(d, w, y, s)
<1>0. s \in Ports(d) /\ e \in Ports(d)
  BY WireEnds
<1>1. ASSUME \/ Conn(d, w, x, y)
             \/ Conn(d, w, x, s) /\ Conn(d, w, y, e)
             \/ Conn(d, w, x, e) /\ Conn(d, w, y, s)
      PROVE  Conn(d, None, x, y)
  <2>1. SUFFICES ASSUME NEW K, Closed(d, None, K) PROVE x \in K <=> y \in K
    BY DEF Conn
  <2>2. Closed(d, w, K) /\ (s \in K <=> e \in K)
    BY <2>1, ClosedWith
  <2>3. QED BY <1>1, <2>2 DEF Conn
<1>2. ASSUME Conn(d, None, x, y), ~Conn(d, w, x, y) PROVE
             \/ Conn(d, w, x, s) /\ Conn(d, w, y, e)
             \/ Conn(d, w, x, e) /\ Conn(d, w, y, s)
  <2> DEFINE A == Comp(d, w, x)
  <2>0. Closed(d, w, A)
    BY CompClosed
  <2>1. Closed(d, w, A) /\ x \in A /\ y \notin A
    BY <1>2, <2>0, ConnEquivalence DEF Comp
  <2>2. (s \in A <=> Conn(d, w, x, s)) /\ (e \in A <=> Conn(d, w, x, e))
    BY <1>0 DEF Comp
  <2> HIDE DEF A
  <2>3. ~(s \in A <=> e \in A)
    BY <1>2, <2>1, ClosedWith DEF Conn
  <2>4. ASSUME NEW a, NEW b, a \in A, b \notin A, b \in Ports(d),
               (a = s /\ b = e) \/ (a = e /\ b = s)
        PROVE  Conn(d, w, y, b)
    <3> DEFINE B == Comp(d, w, b)
               AB == A \cup B
    <3>0. Closed(d, w, B)
      BY CompClosed
    <3>1. Closed(d, w, B) /\ b \in B /\ \A z \in B : Conn(d, w, b, z)
      BY <2>4, <3>0, ConnEquivalence DEF Comp
    <3> HIDE DEF B
    <3>2. Closed(d, w, AB)
      BY <2>1, <3>1 DEF Closed
    <3>3. s \in AB /\ e \in AB
      BY <2>4, <3>1
    <3>4. x \in AB
      BY <2>1
    <3> HIDE DEF AB
    <3>5. y \in AB
      BY <1>2, <3>2, <3>3, <3>4, ClosedWith DEF Conn
    <3>6. y \in B
      BY <2>1, <3>5 DEF AB
    <3>7. QED BY <3>1, <3>6, ConnEquivalence
  <2>5. CASE s \in A
    BY <1>0, <2>2, <2>3, <2>4, <2>5
  <2>6. CASE e \in A
    BY <1>0, <2>2, <2>3, <2>4, <2>6
  <2>7. QED BY <2>3, <2>5, <2>6
<1>3. QED BY <1>1, <1>2

\* N is M with the net A joined to the net B.
Fused(N, M, A, B) ==
  /\ A # {} /\ B # {} /\ A \cap B = {} /\ A \in M /\ B \in M
  /\ A \cup B \in N
  /\ N = (M \ {A, B}) \cup {A \cup B}
  /\ M = (N \ {A \cup B}) \cup {A, B}

LEMMA Severed ==
  ASSUME NEW d, Sound(d, {}), NEW w \in Wires(d), d.ends[w][2] # None,
         NEW s, NEW e, Ends(d, w, s, e)
  PROVE  Fused(Partition(d, None), Partition(d, w), Class(d, w, s), Class(d, w, e))
<1> DEFINE A == Class(d, w, s)
           B == Class(d, w, e)
           N == Partition(d, None)
           M == Partition(d, w)
<1>0. s \in Ports(d) /\ e \in Ports(d) /\ Ends(d, w, e, s)
  <2>1. Ends(d, w, e, s)
    BY DEF Ends
  <2>2. QED BY <2>1, WireEnds
<1>1. PICK a \in Pins(d) : Conn(d, w, s, a)
  BY HasPin
<1>2. PICK b \in Pins(d) : Conn(d, w, e, b)
  BY <1>0, HasPin
<1>3. a \in A /\ b \in B
  BY <1>1, <1>2 DEF Class
<1>4. Class(d, w, a) = A /\ Class(d, w, b) = B
  BY <1>3, SameClass
<1>5. A \cap B = {}
  <2>1. ASSUME NEW q, q \in A, q \in B PROVE FALSE
    <3>1. Conn(d, w, s, q) /\ Conn(d, w, e, q)
      BY <2>1 DEF Class
    <3>2. Conn(d, w, s, e)
      BY <3>1, ConnEquivalence
    <3>3. QED BY <3>2, SidesApart
  <2>2. QED BY <2>1
<1>6. \A p \in Pins(d) : p \in Ports(d)
  BY PinKinds DEF Sound, Shape
<1>7. ASSUME NEW p \in Pins(d)
      PROVE  /\ p \in A \cup B => Class(d, None, p) = A \cup B
             /\ p \notin A \cup B => Class(d, None, p) = Class(d, w, p)
             /\ p \in A => Class(d, w, p) = A
             /\ p \in B => Class(d, w, p) = B
  <2>1. /\ p \in A <=> Conn(d, w, s, p)
        /\ p \in B <=> Conn(d, w, e, p)
    BY DEF Class
  <2>2. \A q \in Pins(d) : Conn(d, None, p, q) <=> \/ Conn(d, w, p, q)
                                                   \/ Conn(d, w, p, s) /\ Conn(d, w, q, e)
                                                   \/ Conn(d, w, p, e) /\ Conn(d, w, q, s)
    BY <1>6, LinkAdds
  <2>3. p \in A => Class(d, w, p) = A
    BY SameClass
  <2>4. p \in B => Class(d, w, p) = B
    BY SameClass
  <2>5. ASSUME p \notin A \cup B PROVE Class(d, None, p) = Class(d, w, p)
    <3>1. ~Conn(d, w, p, s) /\ ~Conn(d, w, p, e)
      BY <2>1, <2>5, ConnEquivalence
    <3>2. QED BY <2>2, <3>1 DEF Class
  <2>6. ASSUME p \in A PROVE Class(d, None, p) = A \cup B
    <3>1. Conn(d, w, p, s) /\ ~Conn(d, w, p, e)
      BY <1>5, <2>1, <2>6, ConnEquivalence
    <3>2. \A q \in Pins(d) : Conn(d, w, q, e) <=> q \in B
      BY ConnEquivalence DEF Class
    <3>3. \A q \in Pins(d) : Conn(d, w, p, q) <=> q \in A
      BY <2>3, <2>6 DEF Class
    <3>4. \A q \in Pins(d) : Conn(d, None, p, q) <=> q \in A \cup B
      BY <2>2, <3>1, <3>2, <3>3
    <3>5. A \cup B \subseteq Pins(d)
      BY DEF Class
    <3> HIDE DEF A, B
    <3>6. QED BY <3>4, <3>5 DEF Class
  <2>7. ASSUME p \in B PROVE Class(d, None, p) = A \cup B
    <3>1. Conn(d, w, p, e) /\ ~Conn(d, w, p, s)
      BY <1>5, <2>1, <2>7, ConnEquivalence
    <3>2. \A q \in Pins(d) : Conn(d, w, q, s) <=> q \in A
      BY ConnEquivalence DEF Class
    <3>3. \A q \in Pins(d) : Conn(d, w, p, q) <=> q \in B
      BY <2>4, <2>7 DEF Class
    <3>4. \A q \in Pins(d) : Conn(d, None, p, q) <=> q \in A \cup B
      BY <2>2, <3>1, <3>2, <3>3
    <3>5. A \cup B \subseteq Pins(d)
      BY DEF Class
    <3> HIDE DEF A, B
    <3>6. QED BY <3>4, <3>5 DEF Class
  <2>8. QED BY <2>3, <2>4, <2>5, <2>6, <2>7
<1>8. A \in M /\ B \in M /\ A \cup B \in N
  <2>1. A \in M /\ B \in M
    BY <1>4 DEF Partition
  <2>2. Class(d, None, a) \in N
    BY DEF Partition
  <2> HIDE DEF A, B, N
  <2>3. QED BY <1>3, <1>7, <2>1, <2>2
<1>9. \A n : n \in N <=> \E p \in Pins(d) : n = Class(d, None, p)
  BY DEF Partition
<1>10. \A m : m \in M <=> \E p \in Pins(d) : m = Class(d, w, p)
  BY DEF Partition
<1>11. \A p \in Pins(d) : p \in Class(d, w, p) /\ p \in Class(d, None, p)
  BY ClassOf
<1> HIDE DEF A, B, N, M
<1>12. N = (M \ {A, B}) \cup {A \cup B}
  <2>1. ASSUME NEW n \in N PROVE n \in (M \ {A, B}) \cup {A \cup B}
    <3>1. PICK p \in Pins(d) : n = Class(d, None, p)
      BY <1>9
    <3>2. CASE p \in A \cup B
      BY <1>7, <3>1, <3>2
    <3>3. CASE p \notin A \cup B
      BY <1>7, <1>10, <1>11, <3>1, <3>3
    <3>4. QED BY <3>2, <3>3
  <2>2. ASSUME NEW m \in M, m # A, m # B PROVE m \in N
    <3>1. PICK p \in Pins(d) : m = Class(d, w, p)
      BY <1>10
    <3>2. p \notin A \cup B
      BY <1>7, <2>2, <3>1
    <3>3. QED BY <1>7, <1>9, <3>1, <3>2
  <2>3. QED BY <1>8, <2>1, <2>2
<1>13. M = (N \ {A \cup B}) \cup {A, B}
  <2>1. ASSUME NEW m \in M, m # A, m # B PROVE m # A \cup B
    <3>1. PICK p \in Pins(d) : m = Class(d, w, p)
      BY <1>10
    <3>2. p \notin A \cup B
      BY <1>7, <2>1, <3>1
    <3>3. QED BY <1>11, <3>1, <3>2
  <2>2. QED BY <1>8, <1>12, <2>1
<1>14. A # {} /\ B # {}
  BY <1>3
<1>15. Fused(N, M, A, B)
  BY <1>5, <1>8, <1>12, <1>13, <1>14 DEF Fused
<1>16. QED BY <1>15 DEF A, B, N, M

-----------------------------------------------------------------------------
(* What deleting does to the nets.                                          *)

\* The ports S are connected in r without v as they are in d without w.
Agree(r, v, d, w, S) == \A p, q \in S : Conn(r, v, p, q) <=> Conn(d, w, p, q)

LEMMA ClosedAgree ==
  ASSUME NEW r, NEW v, NEW d, NEW w, \A K : Closed(r, v, K) <=> Closed(d, w, K), NEW S
  PROVE  Agree(r, v, d, w, S)
BY DEF Agree, Conn

LEMMA AgreeTwice ==
  ASSUME NEW r, NEW u, NEW q, NEW v, NEW d, NEW w, NEW S,
         Agree(r, u, q, v, S), Agree(q, v, d, w, S)
  PROVE  Agree(r, u, d, w, S)
BY DEF Agree

LEMMA AgreePartition ==
  ASSUME NEW r, NEW v, NEW d, NEW w, NEW S, Pins(r) = S, Pins(d) = S, Agree(r, v, d, w, S)
  PROVE  Partition(r, v) = Partition(d, w)
<1>1. \A p \in S : Class(r, v, p) = Class(d, w, p)
  BY DEF Class, Agree
<1>2. QED BY <1>1 DEF Partition

\* A joint that is spliced went on connecting what its wires lead to.
LEMMA SplicedAgree ==
  ASSUME NEW d, NEW X, NEW j, NEW p, NEW x, NEW y, NEW new, NEW r,
         Loosened(d, X, j, p, x, y), Spliced(r, d, j, p, x, y, new)
  PROVE  Agree(r, None, d, None, Ports(r))
<1>0. SUFFICES ASSUME NEW a, a = d.opp[x], NEW b, b = d.opp[y],
                      NEW u, u = d.wire[x], NEW v, v = d.wire[y]
               PROVE  Agree(r, None, d, None, Ports(r))
  OBVIOUS
<1>1. /\ a \in Ports(r) \ X /\ b \in Ports(r) \ X /\ a # b
      /\ a \notin {p, x, y} /\ b \notin {p, x, y}
      /\ u \in Wires(d) /\ v \in Wires(d) /\ u # v
      /\ {d.ends[u][1], d.ends[u][2]} = {a, x} /\ {d.ends[v][1], d.ends[v][2]} = {b, y}
      /\ Wires(r) = (Wires(d) \cup {new}) \ {u, v} /\ Ports(r) = Ports(d) \ {p, x, y}
      /\ Joints(r) = Joints(d) \ {j}
  BY <1>0, SplicedIs
<1>2. /\ r.ends[new] = <<a, b>> /\ \A w \in Wires(r) \ {new} : r.ends[w] = d.ends[w]
      /\ \A q \in Ports(r) : r.owner[q] = d.owner[q]
      /\ new \in Nat \ {0} /\ new \notin d.ids /\ Shape(r)
  BY <1>0 DEF Spliced
<1>3. /\ Sound(d, X) /\ j \in Joints(d) /\ x \in Ports(d) \ X /\ y \in Ports(d) \ X /\ x # y
      /\ p \in Ports(d) \cap X /\ \A q \in Ports(d) : d.owner[q] = j <=> q \in {p, x, y}
  BY DEF Loosened
<1>4. /\ \A w \in Wires(d) \cup Wires(r) : w # None
      /\ \A q \in Ports(d) : q # None
      /\ new \in Wires(r)
  <2>1. Shape(d) /\ Typed(d) /\ Wires(d) \subseteq d.ids
    BY <1>3, Kinds DEF Sound, Shape
  <2>2. QED BY <1>1, <1>2, <2>1, PortIsSome
<1>5. ASSUME NEW K, Closed(d, None, K) PROVE Closed(r, None, K)
  <2>1. d.ends[u][1] \in K <=> d.ends[u][2] \in K
    <3>1. d.ends[u][2] # None
      BY <1>1, <1>3, <1>4
    <3>2. QED BY <1>1, <1>4, <1>5, <3>1 DEF Closed
  <2>2. d.ends[v][1] \in K <=> d.ends[v][2] \in K
    <3>1. d.ends[v][2] # None
      BY <1>1, <1>3, <1>4
    <3>2. QED BY <1>1, <1>4, <1>5, <3>1 DEF Closed
  <2>3. x \in K <=> y \in K
    <3>1. d.owner[x] = j /\ d.owner[y] = j /\ x \in Ports(d) /\ y \in Ports(d)
      BY <1>3
    <3>2. QED BY <1>3, <1>5, <3>1 DEF Closed
  <2>4. (a \in K <=> x \in K) /\ (b \in K <=> y \in K)
    BY <1>1, <2>1, <2>2
  <2>5. ASSUME NEW w \in Wires(r), r.ends[w][2] # None
        PROVE  r.ends[w][1] \in K <=> r.ends[w][2] \in K
    <3>1. CASE w = new
      BY <1>2, <2>3, <2>4, <3>1
    <3>2. CASE w # new
      <4>1. w \in Wires(d) /\ r.ends[w] = d.ends[w]
        BY <1>1, <1>2, <3>2
      <4>2. QED BY <1>4, <1>5, <2>5, <4>1 DEF Closed
    <3>3. QED BY <3>1, <3>2
  <2>6. ASSUME NEW q1 \in Ports(r), NEW q2 \in Ports(r), r.owner[q1] = r.owner[q2], r.owner[q1] \in Joints(r)
        PROVE  q1 \in K <=> q2 \in K
    <3>1. /\ q1 \in Ports(d) /\ q2 \in Ports(d) /\ d.owner[q1] = d.owner[q2]
          /\ d.owner[q1] \in Joints(d)
      BY <1>1, <1>2, <2>6
    <3>2. QED BY <1>5, <3>1 DEF Closed
  <2>7. QED BY <2>5, <2>6 DEF Closed
<1>6. ASSUME NEW K, Closed(r, None, K)
      PROVE  \E M : Closed(d, None, M) /\ \A q \in Ports(r) : q \in M <=> q \in K
  <2> DEFINE M == (K \ {p, x, y}) \cup (IF a \in K THEN {p, x, y} ELSE {})
  <2>1. /\ \A q : q \notin {p, x, y} => (q \in M <=> q \in K)
        /\ \A q : q \in {p, x, y} => (q \in M <=> a \in K)
    OBVIOUS
  <2> HIDE DEF M
  <2>2. a \in K <=> b \in K
    <3>1. r.ends[new][1] = a /\ r.ends[new][2] = b /\ b # None
      BY <1>1, <1>2, <1>4
    <3>2. QED BY <1>4, <1>6, <3>1 DEF Closed
  <2>3. ASSUME NEW w \in Wires(d), d.ends[w][2] # None
        PROVE  d.ends[w][1] \in M <=> d.ends[w][2] \in M
    <3>1. CASE w = u
      BY <1>1, <2>1, <3>1
    <3>2. CASE w = v
      BY <1>1, <2>1, <2>2, <3>2
    <3>3. CASE w # u /\ w # v
      <4>1. w \in Wires(r) /\ w # new
        <5>1. Wires(d) \subseteq d.ids
          BY <1>3, Kinds DEF Sound, Shape
        <5>2. QED BY <1>1, <1>2, <3>3, <5>1
      <4>2. d.ends[w][1] \in K <=> d.ends[w][2] \in K
        BY <1>2, <1>4, <1>6, <2>3, <4>1 DEF Closed
      <4>3. /\ d.ends[w][1] \in Ports(d) \ X /\ d.wire[d.ends[w][1]] = w
            /\ d.ends[w][2] \in Ports(d) \ X /\ d.wire[d.ends[w][2]] = w
        BY <1>3, <2>3 DEF Sound, Plugged
      <4>4. d.ends[w][1] \notin {p, x, y} /\ d.ends[w][2] \notin {p, x, y}
        BY <1>0, <1>3, <3>3, <4>3
      <4>5. QED BY <2>1, <4>2, <4>4
    <3>4. QED BY <3>1, <3>2, <3>3
  <2>4. ASSUME NEW q1 \in Ports(d), NEW q2 \in Ports(d), d.owner[q1] = d.owner[q2], d.owner[q1] \in Joints(d)
        PROVE  q1 \in M <=> q2 \in M
    <3>1. CASE d.owner[q1] = j
      BY <1>3, <2>1, <2>4, <3>1
    <3>2. CASE d.owner[q1] # j
      <4>1. q1 \notin {p, x, y} /\ q2 \notin {p, x, y}
        BY <1>3, <2>4, <3>2
      <4>2. /\ q1 \in Ports(r) /\ q2 \in Ports(r) /\ r.owner[q1] = r.owner[q2]
            /\ r.owner[q1] \in Joints(r)
        BY <1>1, <1>2, <2>4, <3>2, <4>1
      <4>3. q1 \in K <=> q2 \in K
        BY <1>6, <4>2 DEF Closed
      <4>4. QED BY <2>1, <4>1, <4>3
    <3>3. QED BY <3>1, <3>2
  <2>5. Closed(d, None, M)
    BY <2>3, <2>4 DEF Closed
  <2>6. \A q \in Ports(r) : q \in M <=> q \in K
    BY <1>1, <2>1
  <2>7. QED BY <2>5, <2>6
<1>7. QED
  <2>1. ASSUME NEW q1 \in Ports(r), NEW q2 \in Ports(r)
        PROVE  Conn(r, None, q1, q2) <=> Conn(d, None, q1, q2)
    <3>1. ASSUME Conn(r, None, q1, q2) PROVE Conn(d, None, q1, q2)
      BY <1>5, <3>1 DEF Conn
    <3>2. ASSUME Conn(d, None, q1, q2), NEW K, Closed(r, None, K) PROVE q1 \in K <=> q2 \in K
      <4>1. PICK M : Closed(d, None, M) /\ \A q \in Ports(r) : q \in M <=> q \in K
        BY <1>6, <3>2
      <4>2. QED BY <3>2, <4>1 DEF Conn
    <3>3. ASSUME Conn(d, None, q1, q2) PROVE Conn(r, None, q1, q2)
      BY <3>2, <3>3 DEF Conn
    <3>4. QED BY <3>1, <3>3
  <2>2. QED BY <2>1 DEF Agree

LEMMA DisconnectedAgree ==
  ASSUME NEW d, NEW X, Sound(d, X), NEW p \in Ports(d) \cap X,
         d.cls[p] = "jointport" => \A q \in Ports(d) \cap X : d.owner[q] = d.owner[p] => q = p
  PROVE  Agree(Disconnected(d, p), None, d, None, Pins(d))
<1> DEFINE r == Disconnected(d, p)
           j == d.owner[p]
<1>0. r = Disconnected(d, p) /\ j = d.owner[p] /\ Typed(d) /\ Shape(d) /\ IsDoc(d)
  BY DEF Sound, Shape, Listing
<1>1. CASE d.cls[p] = "jointport"
  <2>1. \A q \in Ports(d) \cap X : d.owner[q] = j => q = p
    BY <1>1
  <2> HIDE DEF r, j
  <2>2. PICK x, y, new : Loosened(d, X, j, p, x, y) /\ Spliced(r, d, j, p, x, y, new)
    BY <1>0, <1>1, <2>1, DisconnectJoint
  <2>3. Agree(r, None, d, None, Ports(r))
    BY <2>2, SplicedAgree
  <2>4. Pins(d) \subseteq Ports(r)
    <3>1. Frame(r, d) /\ Sound(r, X \ {p})
      BY <1>0, DisconnectedIs DEF PortFreed
    <3>2. QED BY <3>1, PinKinds DEF Frame, Sound, Shape
  <2>5. Agree(r, None, d, None, Pins(d))
    BY <2>3, <2>4 DEF Agree
  <2>6. QED BY <2>5 DEF r
<1>2. CASE d.cls[p] = "pin"
  <2>1. r = [d EXCEPT !.wire[p] = None]
    BY <1>2 DEF Disconnected
  <2>2. r.ends = d.ends /\ r.owner = d.owner /\ r.cls = d.cls
    BY <1>0, <2>1 DEF IsDoc
  <2> HIDE DEF r, j
  <2>3. Wires(r) = Wires(d) /\ Ports(r) = Ports(d) /\ Joints(r) = Joints(d)
    BY <2>2 DEF Wires, Ports, Joints, Of
  <2>4. \A K : Closed(r, None, K) <=> Closed(d, None, K)
    BY <2>2, <2>3 DEF Closed
  <2>5. QED BY <2>4, ClosedAgree DEF r
<1>3. d.cls[p] \in {"pin", "jointport"}
  BY <1>0, Kinds
<1>4. QED BY <1>1, <1>2, <1>3

\* Deleting a wire leaves its two sides connected each as they were.
LEMMA ReleaseWireAgree ==
  ASSUME NEW d, Sound(d, {}), NEW w \in Wires(d)
  PROVE  Agree(ReleaseWire(d, w), None, d, w, Pins(d))
<1>0. SUFFICES ASSUME NEW s, s = d.ends[w][1], NEW e, e = d.ends[w][2],
                      NEW cut, cut = Erase(d, w), NEW started, started = Disconnected(cut, s),
                      NEW r, r = IF e = None THEN started ELSE Disconnected(started, e)
               PROVE  Agree(r, None, d, w, Pins(d))
  BY DEF ReleaseWire
<1>1. /\ Sound(cut, {s, e}) /\ Frame(cut, d)
      /\ s \in Ports(cut) /\ (e # None => e \in Ports(cut) /\ e # s)
      /\ cut.cls[s] = "jointport" => e # None /\ cut.owner[e] # cut.owner[s]
  <2>1. cut = Erase(d, w) /\ s = d.ends[w][1] /\ e = d.ends[w][2]
    BY <1>0
  <2>2. /\ Sound(cut, {s, e}) /\ Frame(cut, d) /\ OpenKept(cut, d, Open(d) \ {w}) /\ w \notin Open(cut)
        /\ s \in Ports(cut) /\ (e # None => e \in Ports(cut) /\ e # s)
        /\ cut.cls[s] = "jointport" => e # None /\ cut.owner[e] # cut.owner[s]
        /\ \A p \in Pins(d) : d.wire[p] = w => p \in {s, e}
    BY <2>1, CutWire
  <2>3. QED BY <2>2
<1>2. Agree(cut, None, d, w, Pins(d))
  <2>1. Pruned(cut, d, {w}) /\ Shape(d) /\ Typed(d)
    BY <1>0, Erased DEF Sound, Shape
  <2>2. /\ Wires(cut) = Wires(d) \ {w} /\ Ports(cut) = Ports(d) \ {w} /\ Joints(cut) = Joints(d) \ {w}
    BY <2>1, PrunedKinds
  <2>3. w \notin Ports(d) /\ w \notin Joints(d)
    BY <2>1, Kinds
  <2>4. \A v \in Wires(cut) : v # None
    BY <1>1, PortIsSome DEF Sound
  <2>5. /\ \A v \in Wires(cut) : cut.ends[v] = d.ends[v]
        /\ \A q \in Ports(cut) : cut.owner[q] = d.owner[q]
    BY <2>1 DEF Pruned
  <2>6. ASSUME NEW K PROVE Closed(cut, None, K) <=> Closed(d, w, K)
    BY <2>2, <2>3, <2>4, <2>5 DEF Closed
  <2>7. QED BY <2>6, ClosedAgree
<1>3. PortFreed(started, cut, {s, e}, s) /\ Agree(started, None, cut, None, Pins(cut))
  <2>1. cut.cls[s] = "jointport" =>
          \A q \in Ports(cut) \cap {s, e} : cut.owner[q] = cut.owner[s] => q = s
    BY <1>1
  <2>2. s \in Ports(cut) \cap {s, e}
    BY <1>1
  <2>3. PortFreed(started, cut, {s, e}, s)
    BY <1>0, <1>1, <2>1, <2>2, DisconnectedIs
  <2>4. Agree(started, None, cut, None, Pins(cut))
    BY <1>0, <1>1, <2>1, <2>2, DisconnectedAgree
  <2>5. QED BY <2>3, <2>4
<1>4. Pins(cut) = Pins(d) /\ Pins(started) = Pins(d)
  BY <1>1, <1>3 DEF PortFreed, Frame
<1>5. Agree(started, None, d, w, Pins(d))
  BY <1>2, <1>3, <1>4, AgreeTwice
<1>6. CASE e = None
  BY <1>0, <1>5, <1>6
<1>7. CASE e # None
  <2>1. r = Disconnected(started, e)
    BY <1>0, <1>7
  <2>2. Sound(started, {e}) /\ e \in Ports(started) \cap {e}
    <3>1. {s, e} \ {s} = {e}
      BY <1>1, <1>7
    <3>2. Sound(started, {e})
      BY <1>3, <3>1 DEF PortFreed
    <3>3. e \in Ports(started)
      BY <1>1, <1>3, <1>7 DEF PortFreed
    <3>4. QED BY <3>2, <3>3
  <2>3. Agree(r, None, started, None, Pins(started))
    BY <2>1, <2>2, DisconnectedAgree
  <2>4. QED BY <1>4, <1>5, <2>3, AgreeTwice
<1>8. QED BY <1>6, <1>7

LEMMA OpenAgree ==
  ASSUME NEW d, Sound(d, {}), NEW w \in Wires(d), d.ends[w][2] = None, NEW S
  PROVE  Agree(d, w, d, None, S)
<1>1. \A v \in Wires(d) : v # None
  BY PortIsSome DEF Sound
<1>2. ASSUME NEW K PROVE Closed(d, w, K) <=> Closed(d, None, K)
  BY <1>1 DEF Closed
<1>3. QED BY <1>2, ClosedAgree

\* A pin that loses its wire was connected to others through it, and none of them
\* was connected through the pin.
LEMMA UnwiredAgree ==
  ASSUME NEW d, Sound(d, {}), NEW p \in Pins(d)
  PROVE  Agree(Unwired(d, p), None, d, None, Pins(d) \ {p})
<1>1. Typed(d) /\ Plugged(d, {}) /\ p \in Ports(d) /\ Pins(d) \subseteq Ports(d)
  BY PinKinds DEF Sound, Shape
<1>2. CASE d.wire[p] = None
  <2>1. Unwired(d, p) = d
    BY <1>2 DEF Unwired
  <2>2. QED BY <2>1 DEF Agree
<1>3. CASE d.wire[p] # None
  <2>0. SUFFICES ASSUME NEW w, w = d.wire[p], NEW r, r = Unwired(d, p)
                 PROVE  Agree(r, None, d, None, Pins(d) \ {p})
    OBVIOUS
  <2>1. r = ReleaseWire(d, w)
    BY <1>3, <2>0 DEF Unwired
  <2>2. w \in Wires(d) /\ p \in {d.ends[w][1], d.ends[w][2]}
    BY <1>1, <1>3, <2>0 DEF Plugged
  <2>3. Agree(r, None, d, w, Pins(d))
    BY <2>1, <2>2, ReleaseWireAgree
  <2>4. Agree(r, None, d, w, Pins(d) \ {p})
    BY <2>3 DEF Agree
  <2>5. Agree(d, w, d, None, Pins(d) \ {p})
    <3>1. CASE d.ends[w][2] = None
      BY <2>2, <3>1, OpenAgree
    <3>2. CASE d.ends[w][2] # None
      <4>1. PICK e : Ends(d, w, p, e)
        BY <2>2 DEF Ends
      <4>2. Closed(d, w, {p})
        BY <2>0, PinClosed
      <4>3. ASSUME NEW x \in Pins(d) \ {p}, NEW y \in Pins(d) \ {p}
            PROVE  Conn(d, None, x, y) <=> Conn(d, w, x, y)
        <5>1. ~Conn(d, w, x, p) /\ ~Conn(d, w, y, p)
          BY <4>2 DEF Conn
        <5>2. x \in Ports(d) /\ y \in Ports(d)
          BY <1>1
        <5>3. QED BY <2>2, <3>2, <4>1, <5>1, <5>2, LinkAdds
      <4>4. QED BY <4>3 DEF Agree
    <3>3. QED BY <3>1, <3>2
  <2>6. QED BY <2>4, <2>5, AgreeTwice
<1>4. QED BY <1>2, <1>3

\* Pins are gone and the others are connected as they were.
Trimmed(r, d) == Pins(r) \subseteq Pins(d) /\ Agree(r, None, d, None, Pins(r))

LEMMA TrimmedTwice ==
  ASSUME NEW r, NEW q, NEW d, Trimmed(r, q), Trimmed(q, d)
  PROVE  Trimmed(r, d)
BY DEF Trimmed, Agree

LEMMA TrimmedNets ==
  ASSUME NEW r, NEW d, Trimmed(r, d), NEW P, P = Pins(d) \ Pins(r)
  PROVE  Partition(r, None) = {n \ P : n \in Partition(d, None)} \ {{}}
<1>1. ASSUME NEW p \in Pins(r) PROVE Class(r, None, p) = Class(d, None, p) \ P /\ p \in Pins(d)
  BY DEF Class, Trimmed, Agree
<1>2. ASSUME NEW n \in Partition(r, None) PROVE \E m \in Partition(d, None) : n = m \ P
  BY <1>1 DEF Partition
<1>3. {} \notin Partition(r, None)
  BY ClassOf
<1>4. ASSUME NEW m \in Partition(d, None), m \ P # {} PROVE m \ P \in Partition(r, None)
  <2>1. PICK p \in Pins(d) : m = Class(d, None, p)
    BY DEF Partition
  <2>2. PICK q \in m : q \notin P
    BY <1>4
  <2>3. m = Class(d, None, q)
    BY <2>1, SameClass
  <2>4. q \in Pins(r)
    BY <2>1, <2>2 DEF Class
  <2>5. Class(r, None, q) = m \ P
    BY <1>1, <2>3, <2>4
  <2>6. QED BY <2>4, <2>5 DEF Partition
<1> DEFINE N == Partition(r, None)
           M == Partition(d, None)
<1> HIDE DEF N, M
<1>5. \A n \in N : n # {} /\ \E m \in M : n = m \ P
  BY <1>2, <1>3 DEF N, M
<1>6. \A m \in M : m \ P # {} => m \ P \in N
  BY <1>4 DEF N, M
<1>7. N = {m \ P : m \in M} \ {{}}
  BY <1>5, <1>6
<1>8. QED BY <1>7 DEF N, M

LEMMA PrunedTrimmed ==
  ASSUME NEW d, Sound(d, {}), NEW c \in Components(d), Bare(d, c)
  PROVE  Trimmed(EraseOwner(d, c), d)
<1>0. SUFFICES ASSUME NEW r, r = EraseOwner(d, c), NEW s, s = d.subs[c],
                      NEW S, S = ToSet(s) \cup {c}
               PROVE  Trimmed(r, d)
  OBVIOUS
<1>1. Shape(d) /\ Typed(d) /\ Owned(d) /\ c \in Owners(d)
  BY DEF Sound, Shape, Owners
<1>2. Pruned(r, d, S)
  BY <1>0, <1>1, EraseOwnerIs
<1>3. ASSUME NEW q \in S PROVE q = c \/ (q \in Pins(d) /\ q \in Ports(d))
  <2>1. CASE q = c
    BY <2>1
  <2>2. CASE q # c
    <3>1. q \in ToSet(s)
      BY <1>0, <2>2
    <3>2. Len(s) \in Nat /\ DOMAIN s = 1..Len(s) /\ \A k \in 1..Len(s) : s[k] \in Ports(d) /\ s[k] \in Pins(d)
      BY <1>0, ComponentPins
    <3>3. QED BY <3>1, <3>2 DEF ToSet
  <2>3. QED BY <2>1, <2>2
<1>4. /\ Wires(r) = Wires(d) \ S /\ Ports(r) = Ports(d) \ S /\ Joints(r) = Joints(d) \ S
  BY <1>1, <1>2, PrunedKinds
<1>5. S \cap Wires(d) = {} /\ S \cap Joints(d) = {}
  BY <1>1, <1>3, Kinds
<1>6. /\ \A v \in Wires(r) : r.ends[v] = d.ends[v]
      /\ \A q \in Ports(r) : r.owner[q] = d.owner[q]
      /\ Shape(r) /\ r.ids = d.ids \ S /\ \A q \in r.ids : r.cls[q] = d.cls[q]
  BY <1>2 DEF Pruned
<1>7. ASSUME NEW q \in Ports(d), d.owner[q] \in Joints(d) PROVE q \in Ports(r)
  <2>1. d.cls[q] = "jointport"
    BY <1>1, <1>7, JointPorts
  <2>2. q # c /\ q \notin Pins(d)
    BY <1>1, <2>1, Kinds, PinKinds
  <2>3. QED BY <1>3, <1>4, <2>2
<1>8. ASSUME NEW K PROVE Closed(r, None, K) <=> Closed(d, None, K)
  <2>1. ASSUME Closed(d, None, K) PROVE Closed(r, None, K)
    <3>1. ASSUME NEW p \in Ports(r), NEW q \in Ports(r), r.owner[p] = r.owner[q], r.owner[p] \in Joints(r)
          PROVE  p \in K <=> q \in K
      BY <1>4, <1>6, <2>1, <3>1 DEF Closed
    <3>2. ASSUME NEW v \in Wires(r) \ {None}, r.ends[v][2] # None
          PROVE  r.ends[v][1] \in K <=> r.ends[v][2] \in K
      BY <1>4, <1>5, <1>6, <2>1, <3>2 DEF Closed
    <3>3. QED BY <3>1, <3>2 DEF Closed
  <2>2. ASSUME Closed(r, None, K) PROVE Closed(d, None, K)
    <3>1. ASSUME NEW p \in Ports(d), NEW q \in Ports(d), d.owner[p] = d.owner[q], d.owner[p] \in Joints(d)
          PROVE  p \in K <=> q \in K
      <4>1. /\ p \in Ports(r) /\ q \in Ports(r) /\ r.owner[p] = d.owner[p] /\ r.owner[q] = d.owner[q]
            /\ d.owner[p] \in Joints(r)
        BY <1>4, <1>5, <1>6, <1>7, <3>1
      <4>2. QED BY <2>2, <3>1, <4>1 DEF Closed
    <3>2. ASSUME NEW v \in Wires(d) \ {None}, d.ends[v][2] # None
          PROVE  d.ends[v][1] \in K <=> d.ends[v][2] \in K
      BY <1>4, <1>5, <1>6, <2>2, <3>2 DEF Closed
    <3>3. QED BY <3>1, <3>2 DEF Closed
  <2>3. QED BY <2>1, <2>2
<1>9. Pins(r) \subseteq Pins(d)
  <2>1. Typed(r)
    BY <1>6 DEF Shape
  <2>2. QED BY <1>1, <1>6, <2>1, PinKinds
<1>10. QED BY <1>8, <1>9, ClosedAgree DEF Trimmed

LEMMA ReleaseComponentTrimmed ==
  ASSUME NEW d, Sound(d, {}), NEW c \in Components(d)
  PROVE  Trimmed(ReleaseComponent(d, c), d)
<1>0. SUFFICES ASSUME NEW s, s = d.subs[c], NEW r, r = ReleaseComponent(d, c),
                      NEW S, S = Pins(r)
               PROVE  Trimmed(r, d)
  OBVIOUS
<1>1. /\ Len(s) \in Nat /\ DOMAIN s = 1..Len(s) /\ IsInjective(s)
      /\ \A k \in 1..Len(s) : s[k] \in Ports(d) /\ s[k] \in Pins(d) /\ d.owner[s[k]] = c
  BY <1>0, ComponentPins
<1>2. PICK g : Unwiring(g, d, c, s)
  BY <1>0, <1>1, UnwiresFold
<1>3. \A i \in 0..Len(s) : PinsFreed(g[i], d, c, s, i)
  BY <1>0, <1>2, UnwiresEach
<1>4. Edited(r, d, {c})
  BY <1>0, ReleaseComponentIs
<1>5. S \subseteq Pins(d) /\ \A k \in 1..Len(s) : s[k] \notin S
  <2>1. ASSUME NEW p \in S PROVE r.owner[p] # c
    <3>1. Sound(r, {}) /\ Components(r) = Components(d) \ {c}
      BY <1>4 DEF Edited
    <3>2. r.cls[p] = "pin" /\ p \in Ports(r)
      BY <1>0, <3>1, PinKinds DEF Sound, Shape
    <3>3. r.owner[p] \in Components(r)
      BY <3>1, <3>2, Kinds DEF Sound, Shape, Owned
    <3>4. QED BY <3>1, <3>3
  <2>2. QED BY <1>0, <1>1, <1>4, <2>1 DEF Edited
<1> DEFINE T == {i \in 0..Len(s) : Agree(g[i], None, d, None, S)}
<1>6. 0 \in T
  BY <1>1, <1>2 DEF Unwiring, Agree
<1>7. ASSUME NEW i \in 1..Len(s), i - 1 \in T PROVE i \in T
  <2>1. i \in 0..Len(s) /\ i - 1 \in 0..Len(s) /\ Agree(g[i - 1], None, d, None, S)
    BY <1>1, <1>7
  <2> HIDE DEF T
  <2>2. PICK x : x = g[i - 1]
    OBVIOUS
  <2>3. Sound(x, {}) /\ Frame(x, d)
    BY <1>3, <2>1, <2>2 DEF PinsFreed
  <2>4. Pins(x) = Pins(d) /\ s[i] \in Pins(x)
    BY <1>1, <2>3 DEF Frame
  <2>5. g[i] = Unwired(x, s[i])
    BY <1>2, <2>2 DEF Unwiring
  <2>6. Agree(g[i], None, x, None, Pins(x) \ {s[i]})
    BY <2>3, <2>4, <2>5, UnwiredAgree
  <2>7. Agree(g[i], None, x, None, S)
    BY <1>5, <2>4, <2>6 DEF Agree
  <2>8. Agree(g[i], None, d, None, S)
    BY <2>1, <2>2, <2>7, AgreeTwice
  <2>9. QED BY <2>1, <2>8 DEF T
<1>8. Len(s) \in T
  <2> HIDE DEF T
  <2>1. \A i \in 0..Len(s) : i \in T
    BY <1>1, <1>6, <1>7, CountUp
  <2>2. QED BY <1>1, <2>1
<1>9. PICK y : y = g[Len(s)]
  OBVIOUS
<1>10. Agree(y, None, d, None, S)
  BY <1>8, <1>9
<1>11. /\ Sound(y, {}) /\ Frame(y, d) /\ \A k \in 1..Len(s) : y.wire[s[k]] = None
  <2>1. PinsFreed(y, d, c, s, Len(s))
    BY <1>1, <1>3, <1>9
  <2>2. QED BY <2>1 DEF PinsFreed
<1>12. r = EraseOwner(y, c) /\ c \in Components(y)
  BY <1>0, <1>2, <1>9, <1>11 DEF Frame, Unwiring
<1>13. Bare(y, c)
  <2>1. y.subs[c] = s
    BY <1>0, <1>11 DEF Frame
  <2>2. ASSUME NEW k \in 1..Len(s) PROVE s[k] \in Ports(y) /\ y.wire[s[k]] = None
    <3>1. s[k] \in Pins(y) /\ Typed(y)
      BY <1>1, <1>11 DEF Frame, Sound, Shape
    <3>2. QED BY <1>11, <3>1, PinKinds
  <2>3. QED BY <1>1, <2>1, <2>2 DEF Bare
<1>14. Trimmed(r, y)
  BY <1>11, <1>12, <1>13, PrunedTrimmed
<1>15. Agree(r, None, d, None, S)
  BY <1>0, <1>10, <1>14, AgreeTwice DEF Trimmed
<1>16. QED BY <1>0, <1>5, <1>15 DEF Trimmed

\* The Delete key withdraws the pins of the selected components.
LEMMA DeleteTrimmed ==
  ASSUME NEW d, Sound(d, {}), NEW s, Len(s) \in Nat, DOMAIN s = 1..Len(s), IsInjective(s),
         \A i \in 1..Len(s) : s[i] \in Components(d)
  PROVE  Trimmed(FoldLeft(ReleaseComponent, d, s), d)
<1>0. PICK g : Deleting(g, d, s)
  BY DeletesFold
<1>1. /\ g[0] = d /\ \A i \in 1..Len(s) : g[i] = ReleaseComponent(g[i - 1], s[i])
      /\ FoldLeft(ReleaseComponent, d, s) = g[Len(s)]
  BY <1>0 DEF Deleting
<1>2. \A i \in 0..Len(s) : Edited(g[i], d, Firsts(s, i))
  <2>1. g[0] = d
    BY <1>1
  <2>2. \A i \in 1..Len(s) : g[i] = IF s[i] \in Components(d) THEN ReleaseComponent(g[i - 1], s[i])
                                    ELSE g[i - 1]
    BY <1>1
  <2>3. QED BY <2>1, <2>2, DeletesEach
<1> DEFINE T == {i \in 0..Len(s) : Trimmed(g[i], d)}
<1>3. 0 \in T
  BY <1>1 DEF Trimmed, Agree
<1>4. ASSUME NEW i \in 1..Len(s), i - 1 \in T PROVE i \in T
  <2>1. i \in 0..Len(s) /\ i - 1 \in 0..Len(s) /\ Trimmed(g[i - 1], d)
    BY <1>4
  <2>2. PICK x : x = g[i - 1]
    OBVIOUS
  <2>3. Sound(x, {}) /\ Components(x) = Components(d) \ Firsts(s, i - 1)
    BY <1>2, <2>1, <2>2 DEF Edited
  <2>4. s[i] \notin Firsts(s, i - 1)
    <3>1. ASSUME NEW k \in 1..(i - 1) PROVE s[k] # s[i]
      <4>1. k \in DOMAIN s /\ i \in DOMAIN s /\ k # i
        BY <2>1
      <4>2. QED BY <4>1 DEF IsInjective
    <3>2. QED BY <3>1 DEF Firsts
  <2>5. s[i] \in Components(x)
    BY <2>3, <2>4
  <2>6. Trimmed(g[i], x)
    BY <1>1, <2>2, <2>3, <2>5, ReleaseComponentTrimmed
  <2>7. Trimmed(g[i], d)
    BY <2>1, <2>2, <2>6, TrimmedTwice
  <2>8. QED BY <2>1, <2>7
<1>5. Len(s) \in T
  <2> HIDE DEF T
  <2>1. \A i \in 0..Len(s) : i \in T
    BY <1>3, <1>4, CountUp
  <2>2. QED BY <2>1
<1>6. QED BY <1>1, <1>5

-----------------------------------------------------------------------------
(* What drawing does to the nets.                                           *)

\* A component comes with pins that are alone.
LEMMA CreatedNets ==
  ASSUME NEW d, Sound(d, {}), NEW n \in Nat, NEW r, r = CreateOwner(d, "component", "pin", n),
         NEW N, N = Partition(d, None), NEW M, M = Partition(r, None)
  PROVE  N \subseteq M /\ M \ N = {{p} : p \in (UNION M) \ UNION N}
<1>0. SUFFICES ASSUME NEW o, o = Alloc(d), NEW S, S = Parts(r, o, n)
               PROVE  N \subseteq M /\ M \ N = {{p} : p \in (UNION M) \ UNION N}
  OBVIOUS
<1>1. Shape(d) /\ Typed(d) /\ Sound(r, {})
  BY ComponentCreated DEF Sound, Shape
<1>2. Owning(r, d, o, "component", "pin", n)
  BY <1>0, <1>1, CreateOwnerIs
<1>3. Grown(r, d, o, "component", S)
  BY <1>0, <1>1, <1>2, OwningKinds
<1>4. /\ r.ends = d.ends /\ \A q \in Ports(d) : r.owner[q] = d.owner[q]
      /\ \A q \in S : r.cls[q] = "pin" /\ r.owner[q] = o /\ r.wire[q] = None
      /\ \A q \in d.ids : r.cls[q] = d.cls[q]
  BY <1>0, <1>2 DEF Owning, Parts
<1>5. /\ Wires(r) = Wires(d) /\ Ports(r) = Ports(d) \cup S /\ Joints(r) = Joints(d)
      /\ S \cap d.ids = {} /\ o \notin Joints(d)
  BY <1>1, <1>3, Kinds DEF Grown
<1>6. ASSUME NEW K PROVE Closed(r, None, K) <=> Closed(d, None, K)
  <2>1. ASSUME NEW q \in Ports(r), r.owner[q] \in Joints(r) PROVE q \in Ports(d)
    BY <1>4, <1>5, <2>1
  <2>2. QED BY <1>4, <1>5, <2>1 DEF Closed
<1>7. Pins(r) = Pins(d) \cup S /\ S \cap Pins(d) = {}
  <2>1. \A x : x \in Pins(r) <=> x \in Ports(r) /\ r.cls[x] = "pin"
    BY DEF Pins, Ports, Of
  <2>2. \A x : x \in Pins(d) <=> x \in Ports(d) /\ d.cls[x] = "pin"
    BY DEF Pins, Ports, Of
  <2>3. Ports(d) \subseteq d.ids
    BY <1>1, Kinds
  <2>4. QED BY <1>4, <1>5, <2>1, <2>2, <2>3
<1>8. \A p, q : Conn(r, None, p, q) <=> Conn(d, None, p, q)
  BY <1>6 DEF Conn
<1>9. ASSUME NEW p \in S PROVE Class(r, None, p) = {p} /\ \A q \in Pins(r) : Conn(r, None, q, p) => q = p
  <2>1. p \in Pins(r) /\ r.wire[p] \in {None, None} \cup Open(r)
    BY <1>4, <1>7
  <2>2. Closed(r, None, {p})
    BY <1>1, <2>1, PinClosed
  <2>3. QED BY <2>1, <2>2, ConnEquivalence DEF Conn, Class
<1>10. ASSUME NEW p \in Pins(d) PROVE Class(r, None, p) = Class(d, None, p)
  BY <1>7, <1>8, <1>9, <1>10 DEF Class
<1>11. \A m : m \in M <=> (m \in N \/ \E p \in S : m = {p})
  <2>1. \A m : m \in M <=> \E p \in Pins(r) : m = Class(r, None, p)
    BY <1>0 DEF Partition
  <2>2. \A m : m \in N <=> \E p \in Pins(d) : m = Class(d, None, p)
    BY <1>0 DEF Partition
  <2>3. QED BY <1>7, <1>9, <1>10, <2>1, <2>2
<1>12. UNION M = Pins(d) \cup S /\ UNION N = Pins(d)
  BY <1>7, ClassOf
<1>13. N \subseteq M
  BY <1>11
<1>14. \A x : x \in (UNION M) \ UNION N <=> x \in S
  BY <1>7, <1>12
<1>15. ASSUME NEW m \in M \ N PROVE \E p \in (UNION M) \ UNION N : m = {p}
  <2>1. PICK p \in S : m = {p}
    BY <1>11
  <2>2. QED BY <1>14, <2>1
<1>16. ASSUME NEW p \in (UNION M) \ UNION N PROVE {p} \in M \ N
  <2>1. p \in S
    BY <1>14
  <2>2. {p} \in M
    BY <1>11, <2>1
  <2>3. ASSUME {p} \in N PROVE FALSE
    <3>1. p \in UNION N
      BY <2>3
    <3>2. QED BY <3>1
  <2>4. QED BY <2>2, <2>3
<1>17. QED BY <1>13, <1>15, <1>16

\* A wire that is begun at a pin connects nothing.
LEMMA FirstPinNets ==
  ASSUME NEW d, Sound(d, {}), Open(d) = {}, NEW p \in Pins(d), d.wire[p] = None,
         NEW h, h = Alloc(d), NEW r, r = ConnectStartPort(CreateWire(d), h, p)
  PROVE  Partition(r, None) = Partition(d, None)
<1>0. SUFFICES ASSUME NEW m, m = CreateWire(d)
               PROVE  Partition(r, None) = Partition(d, None)
  OBVIOUS
<1>1. Shape(d) /\ Typed(d) /\ p \in Ports(d)
  BY PinKinds DEF Sound, Shape
<1>2. /\ Shape(m) /\ h \notin d.ids /\ h \in Nat \ {0} /\ m.ends[h] = <<None, None>>
      /\ \A x \in Wires(d) : m.ends[x] = d.ends[x]
      /\ m.wire = d.wire /\ m.owner = d.owner
  BY <1>0, <1>1, CreateWireIs
<1>3. Relinked(m, d, {h})
  BY <1>0, <1>1, WireAdded
<1>4. /\ Wires(m) = Wires(d) \cup {h} /\ Ports(m) = Ports(d) /\ Joints(m) = Joints(d)
      /\ \A q \in Ports(d) : m.cls[q] = d.cls[q]
  BY <1>1, <1>3, RelinkedKinds
<1>5. StartConnected(r, m, h, p)
  BY <1>0, <1>1, <1>2, <1>4, ConnectStartAt
<1>6. /\ r.ends[h][2] = None /\ \A v \in Wires(m) \ {h} : r.ends[v] = m.ends[v]
      /\ Replugged(r, m)
  BY <1>2, <1>5 DEF StartConnected
<1>7. /\ Wires(r) = Wires(d) \cup {h} /\ Ports(r) = Ports(d) /\ Joints(r) = Joints(d)
      /\ r.owner = d.owner /\ \A q \in Ports(d) : r.cls[q] = d.cls[q]
  BY <1>2, <1>4, <1>6, ReplugKinds DEF Replugged
<1>8. h \notin Wires(d)
  BY <1>1, <1>2, Kinds
<1>9. ASSUME NEW K PROVE Closed(r, None, K) <=> Closed(d, None, K)
  <2>1. \A v \in Wires(d) : r.ends[v] = d.ends[v]
    BY <1>2, <1>4, <1>6, <1>8
  <2>2. QED BY <1>6, <1>7, <1>8, <2>1 DEF Closed
<1>10. Pins(r) = Pins(d)
  <2>1. \A x : x \in Pins(r) <=> x \in Ports(r) /\ r.cls[x] = "pin"
    BY DEF Pins, Ports, Of
  <2>2. \A x : x \in Pins(d) <=> x \in Ports(d) /\ d.cls[x] = "pin"
    BY DEF Pins, Ports, Of
  <2>3. QED BY <1>7, <2>1, <2>2
<1>11. QED BY <1>9, <1>10, ClosedAgree, AgreePartition

\* A pin that was alone is connected to a net.
Joining(N, M) == \E p \in UNION N, n \in N : /\ {p} \in N \ {n}
                                             /\ M = (N \ {{p}, n}) \cup {n \cup {p}}

Alone(B) == \E p : B = {p}

LEMMA FusedJoins ==
  ASSUME NEW N, NEW M, NEW A, NEW B, Alone(B), Fused(M, N, A, B) \/ Fused(M, N, B, A)
  PROVE  Joining(N, M)
<1>0. PICK p : B = {p}
  BY DEF Alone
<1>1. /\ A \in N /\ {p} \in N \ {A} /\ M = (N \ {{p}, A}) \cup {A \cup {p}}
  <2>1. A \in N /\ B \in N \ {A} /\ M = (N \ {B, A}) \cup {A \cup B}
    BY DEF Fused
  <2>2. QED BY <1>0, <2>1
<1>2. p \in UNION N
  BY <1>1
<1>3. QED BY <1>1, <1>2 DEF Joining

LEMMA SecondPinNets ==
  ASSUME NEW d, Sound(d, {}), NEW h, Open(d) = {h}, NEW p \in Pins(d), d.wire[p] = None,
         NEW r, r = ConnectEndPort(d, h, p)
  PROVE  Joining(Partition(d, None), Partition(r, None))
<1>0. SUFFICES ASSUME NEW c, c = d.ends[h][1]
               PROVE  Joining(Partition(d, None), Partition(r, None))
  OBVIOUS
<1>1. /\ Shape(d) /\ Typed(d) /\ p \in Ports(d) /\ h \in Wires(d) /\ d.ends[h][2] = None
      /\ \A v \in Wires(d) : v # None
  BY PinKinds, PortIsSome DEF Sound, Shape, Open
<1>2. Sound(r, {})
  BY SecondPin
<1>3. EndConnected(r, d, h, p)
  BY <1>1, ConnectEndAt
<1>4. /\ Replugged(r, d) /\ r.ends[h] = <<c, p>> /\ \A v \in Wires(d) \ {h} : r.ends[v] = d.ends[v]
      /\ r.wire[p] = h
  BY <1>0, <1>1, <1>3 DEF EndConnected
<1>5. /\ Wires(r) = Wires(d) /\ Ports(r) = Ports(d) /\ Joints(r) = Joints(d)
      /\ r.owner = d.owner /\ r.cls = d.cls
  BY <1>4, ReplugKinds DEF Replugged
<1>6. ASSUME NEW K PROVE Closed(r, h, K) <=> Closed(d, None, K)
  BY <1>1, <1>4, <1>5 DEF Closed
<1>7. Pins(r) = Pins(d)
  BY <1>5 DEF Pins, Of
<1>8. Partition(r, h) = Partition(d, None)
  BY <1>6, <1>7, ClosedAgree, AgreePartition
<1>9. h \in Wires(r) /\ r.ends[h][2] # None /\ Ends(r, h, c, p)
  BY <1>1, <1>4, <1>5, PortIsSome DEF Ends
<1>10. Fused(Partition(r, None), Partition(r, h), Class(r, h, c), Class(r, h, p))
  BY <1>2, <1>9, Severed
<1>11. Alone(Class(r, h, p))
  <2>1. p \in Pins(r) /\ r.wire[p] \in {h, None} \cup Open(r)
    BY <1>4, <1>7
  <2>2. Closed(r, h, {p})
    BY <1>2, <2>1, PinClosed
  <2>3. Class(r, h, p) = {p}
    BY <2>1, <2>2, ConnEquivalence DEF Conn, Class
  <2>4. QED BY <2>3 DEF Alone
<1>12. QED BY <1>8, <1>10, <1>11, FusedJoins

\* The wire ends at a joint in another wire, which goes on connecting its ends.
LEMMA SplitNets ==
  ASSUME NEW d, Sound(d, {}), NEW h, Open(d) = {h}, NEW w \in Wires(d), w # h,
         NEW r, r = ConnectEndPort(AddJoint(d, w), h, JointPort(d, w))
  PROVE  Joining(Partition(d, None), Partition(r, None))
<1>0. SUFFICES ASSUME NEW a, a = d.ends[w][1], NEW b, b = d.ends[w][2], NEW c, c = d.ends[h][1]
               PROVE  Joining(Partition(d, None), Partition(r, None))
  OBVIOUS
<1>1. /\ Shape(d) /\ Typed(d) /\ Owned(d) /\ h \in Wires(d) /\ d.ends[h][2] = None /\ d.ends[w][2] # None
      /\ \A v \in Wires(d) : v # None
  BY PortIsSome DEF Sound, Shape, Open
<1>2. Sound(r, {})
  BY AcceptedAtWire
<1>3. PICK n, x, y, z, new : Split(r, d, h, w, n, x, y, z, new)
  BY <1>1, SplitIs
<1>4. /\ Wires(r) = Wires(d) \cup {new} /\ new \notin Wires(d) /\ new # None
      /\ Ports(r) = Ports(d) \cup {x, y, z} /\ {x, y, z} \cap Ports(d) = {}
      /\ Joints(r) = Joints(d) \cup {n} /\ n \notin Owners(d)
      /\ \A q \in Ports(d) : r.cls[q] = d.cls[q] /\ r.owner[q] = d.owner[q]
      /\ \A q \in {x, y, z} : r.cls[q] = "jointport" /\ r.owner[q] = n
      /\ r.ends[w] = <<a, x>> /\ r.ends[new] = <<z, b>> /\ r.ends[h] = <<c, y>>
      /\ \A v \in Wires(d) \ {w, h} : r.ends[v] = d.ends[v]
  BY <1>0, <1>3 DEF Split
<1>5. /\ a \in Ports(d) /\ b \in Ports(d) /\ c \in Ports(d) /\ d.cls[c] = "pin" /\ d.wire[c] = h
  BY <1>0, <1>1 DEF Sound, Plugged
<1>6. /\ \A q \in Ports(d) : d.owner[q] \in Owners(d) /\ q # None
      /\ \A q \in {x, y, z} : q # None
  <2>1. \A q \in Ports(d) : q # None
    BY <1>1, PortIsSome
  <2>2. \A q \in Ports(r) : q # None
    BY <1>2, PortIsSome DEF Sound
  <2>3. QED BY <1>1, <1>4, <2>1, <2>2 DEF Owned
<1>7. ASSUME NEW K, Closed(r, h, K) PROVE Closed(d, None, K)
  <2>1. a \in K <=> b \in K
    <3>1. r.ends[w][1] \in K <=> r.ends[w][2] \in K
      BY <1>1, <1>4, <1>6, <1>7 DEF Closed
    <3>2. r.ends[new][1] \in K <=> r.ends[new][2] \in K
      BY <1>1, <1>4, <1>5, <1>6, <1>7 DEF Closed
    <3>3. x \in K <=> z \in K
      BY <1>4, <1>7 DEF Closed
    <3>4. QED BY <1>4, <3>1, <3>2, <3>3
  <2>2. ASSUME NEW v \in Wires(d), d.ends[v][2] # None
        PROVE  d.ends[v][1] \in K <=> d.ends[v][2] \in K
    <3>1. CASE v = w
      BY <1>0, <2>1, <3>1
    <3>2. CASE v # w
      <4>1. v # h /\ v \in Wires(r) /\ r.ends[v] = d.ends[v]
        BY <1>1, <1>4, <2>2, <3>2
      <4>2. QED BY <1>7, <2>2, <4>1 DEF Closed
    <3>3. QED BY <3>1, <3>2
  <2>3. ASSUME NEW p \in Ports(d), NEW q \in Ports(d), d.owner[p] = d.owner[q], d.owner[p] \in Joints(d)
        PROVE  p \in K <=> q \in K
    BY <1>4, <1>7, <2>3 DEF Closed
  <2>4. QED BY <2>2, <2>3 DEF Closed
<1>8. ASSUME NEW K, Closed(d, None, K)
      PROVE  \E M : Closed(r, h, M) /\ \A q \in Ports(d) : q \in M <=> q \in K
  <2> DEFINE M == (K \ {x, y, z}) \cup (IF a \in K THEN {x, y, z} ELSE {})
  <2>1. /\ \A q \in Ports(d) : q \in M <=> q \in K
        /\ \A q \in {x, y, z} : q \in M <=> a \in K
    BY <1>4
  <2> HIDE DEF M
  <2>2. a \in K <=> b \in K
    BY <1>0, <1>1, <1>8 DEF Closed
  <2>3. ASSUME NEW v \in Wires(r) \ {h}, r.ends[v][2] # None
        PROVE  r.ends[v][1] \in M <=> r.ends[v][2] \in M
    <3>1. CASE v = w
      BY <1>4, <1>5, <2>1, <3>1
    <3>2. CASE v = new
      BY <1>4, <1>5, <2>1, <2>2, <3>2
    <3>3. CASE v # w /\ v # new
      <4>1. v \in Wires(d) /\ r.ends[v] = d.ends[v]
        BY <1>4, <2>3, <3>3
      <4>2. d.ends[v][1] \in K <=> d.ends[v][2] \in K
        BY <1>1, <1>8, <2>3, <4>1 DEF Closed
      <4>3. d.ends[v][1] \in Ports(d) /\ d.ends[v][2] \in Ports(d)
        BY <2>3, <4>1 DEF Sound, Plugged
      <4>4. QED BY <2>1, <4>1, <4>2, <4>3
    <3>4. QED BY <3>1, <3>2, <3>3
  <2>4. ASSUME NEW p \in Ports(r), NEW q \in Ports(r), r.owner[p] = r.owner[q], r.owner[p] \in Joints(r)
        PROVE  p \in M <=> q \in M
    <3>1. CASE r.owner[p] = n
      <4>1. r.owner[q] = n
        BY <2>4, <3>1
      <4>2. p \in {x, y, z} /\ q \in {x, y, z}
        BY <1>4, <1>6, <2>4, <3>1, <4>1
      <4>3. QED BY <2>1, <4>2
    <3>2. CASE r.owner[p] # n
      <4>1. p \in Ports(d) /\ q \in Ports(d) /\ d.owner[p] = d.owner[q] /\ d.owner[p] \in Joints(d)
        BY <1>4, <2>4, <3>2
      <4>2. QED BY <1>8, <2>1, <4>1 DEF Closed
    <3>3. QED BY <3>1, <3>2
  <2>5. QED BY <2>1, <2>3, <2>4 DEF Closed
<1>9. Pins(r) = Pins(d) /\ Pins(d) \subseteq Ports(d)
  <2>1. \A q : q \in Pins(r) <=> q \in Ports(r) /\ r.cls[q] = "pin"
    BY DEF Pins, Ports, Of
  <2>2. \A q : q \in Pins(d) <=> q \in Ports(d) /\ d.cls[q] = "pin"
    BY DEF Pins, Ports, Of
  <2>3. /\ \A q \in Ports(d) : q \in Ports(r) /\ r.cls[q] = d.cls[q]
        /\ \A q \in Ports(r) \ Ports(d) : r.cls[q] = "jointport"
    BY <1>4
  <2>4. ASSUME NEW q \in Pins(r) PROVE q \in Pins(d)
    BY <2>1, <2>2, <2>3
  <2>5. ASSUME NEW q \in Pins(d) PROVE q \in Pins(r) /\ q \in Ports(d)
    BY <2>1, <2>2, <2>3
  <2>6. QED BY <2>4, <2>5
<1>10. ASSUME NEW p \in Pins(d), NEW q \in Pins(d) PROVE Conn(r, h, p, q) <=> Conn(d, None, p, q)
  <2>1. ASSUME Conn(d, None, p, q) PROVE Conn(r, h, p, q)
    BY <1>7, <2>1 DEF Conn
  <2>2. ASSUME Conn(r, h, p, q), NEW K, Closed(d, None, K) PROVE p \in K <=> q \in K
    <3>1. PICK M : Closed(r, h, M) /\ \A k \in Ports(d) : k \in M <=> k \in K
      BY <1>8, <2>2
    <3>2. QED BY <1>9, <2>2, <3>1 DEF Conn
  <2>3. ASSUME Conn(r, h, p, q) PROVE Conn(d, None, p, q)
    BY <2>2, <2>3 DEF Conn
  <2>4. QED BY <2>1, <2>3
<1>11. Partition(r, h) = Partition(d, None)
  <2>1. Agree(r, h, d, None, Pins(d))
    BY <1>10 DEF Agree
  <2>2. QED BY <1>9, <2>1, AgreePartition
<1>12. h \in Wires(r) /\ r.ends[h][2] # None /\ Ends(r, h, c, y)
  BY <1>1, <1>4, <1>6 DEF Ends
<1>13. Fused(Partition(r, None), Partition(r, h), Class(r, h, c), Class(r, h, y))
  BY <1>2, <1>12, Severed
<1>14. Alone(Class(r, h, c))
  <2>1. c \in Pins(r)
    BY <1>5, <1>9 DEF Pins, Ports, Of
  <2>2. r.wire[c] = h
    BY <1>2, <1>12, WireEnds
  <2>3. Closed(r, h, {c})
    BY <1>2, <2>1, <2>2, PinClosed
  <2>4. Class(r, h, c) = {c}
    BY <2>1, <2>3, ConnEquivalence DEF Conn, Class
  <2>5. QED BY <2>4 DEF Alone
<1>15. QED BY <1>11, <1>13, <1>14, FusedJoins

\* A document that is read back is connected as it was written.
LEMMA ReloadedNets ==
  ASSUME NEW d, Sound(d, {}), Open(d) = {}
  PROVE  Partition(Reloaded(d), None) = Partition(d, None)
<1>0. SUFFICES ASSUME NEW r, r = Reloaded(d) PROVE Partition(r, None) = Partition(d, None)
  OBVIOUS
<1>1. Replugged(r, d) /\ \A w \in Wires(d) : r.ends[w] = d.ends[w]
  BY <1>0, ReloadedIs
<1>2. /\ Wires(r) = Wires(d) /\ Ports(r) = Ports(d) /\ Joints(r) = Joints(d)
      /\ r.owner = d.owner /\ r.cls = d.cls
  BY <1>1, ReplugKinds DEF Replugged
<1>3. ASSUME NEW K PROVE Closed(r, None, K) <=> Closed(d, None, K)
  BY <1>1, <1>2 DEF Closed
<1>4. Pins(r) = Pins(d)
  BY <1>2 DEF Pins, Of
<1>5. QED BY <1>3, <1>4, ClosedAgree, AgreePartition

-----------------------------------------------------------------------------
(* Every edit changes the nets as it was promised.                          *)

\* A net is cut in two.
Cutting(N, M) ==
  \E n \in N : \E m \in (SUBSET n) \ {{}, n} : M = (N \ {n}) \cup {m, n \ m}

Placing(N, M) == N \subseteq M /\ M \ N = {{p} : p \in (UNION M) \ UNION N}

Withdrawing(N, M) == \E P \in SUBSET UNION N : M = {n \ P : n \in N} \ {{}}

Promised(N, M) ==
  M = N \/ Placing(N, M) \/ Joining(N, M) \/ Cutting(N, M) \/ Withdrawing(N, M)

LEMMA FusedCuts ==
  ASSUME NEW N, NEW M, NEW A, NEW B, Fused(N, M, A, B)
  PROVE  Cutting(N, M)
<1> DEFINE n == A \cup B
<1>1. n \in N /\ A \in (SUBSET n) \ {{}, n} /\ n \ A = B /\ M = (N \ {n}) \cup {A, B}
  BY DEF Fused
<1>2. QED BY <1>1 DEF Cutting

LEMMA WireDeleted ==
  ASSUME NEW d, Sound(d, {}), NEW w \in Wires(d), NEW r, r = ReleaseWire(d, w)
  PROVE  Promised(Partition(d, None), Partition(r, None))
<1>1. Pins(r) = Pins(d) /\ Agree(r, None, d, w, Pins(d))
  <2>1. Frame(r, d)
    BY ReleaseWireIs DEF WireReleased
  <2>2. QED BY <2>1, ReleaseWireAgree DEF Frame
<1>2. Partition(r, None) = Partition(d, w)
  BY <1>1, AgreePartition
<1>3. CASE d.ends[w][2] = None
  <2>1. Agree(d, w, d, None, Pins(d))
    BY <1>3, OpenAgree
  <2>2. Partition(d, w) = Partition(d, None)
    BY <2>1, AgreePartition
  <2>3. QED BY <1>2, <2>2 DEF Promised
<1>4. CASE d.ends[w][2] # None
  <2>1. PICK s, e : Ends(d, w, s, e)
    BY DEF Ends
  <2>2. Fused(Partition(d, None), Partition(d, w), Class(d, w, s), Class(d, w, e))
    BY <1>4, <2>1, Severed
  <2>3. Cutting(Partition(d, None), Partition(d, w))
    BY <2>2, FusedCuts
  <2>4. QED BY <1>2, <2>3 DEF Promised
<1>5. QED BY <1>3, <1>4

LEMMA TrimmedPromised ==
  ASSUME NEW d, NEW r, Trimmed(r, d)
  PROVE  Promised(Partition(d, None), Partition(r, None))
<1> DEFINE P == Pins(d) \ Pins(r)
           N == Partition(d, None)
<1>1. Partition(r, None) = {n \ P : n \in N} \ {{}}
  BY TrimmedNets
<1>2. P \in SUBSET UNION N
  BY ClassOf
<1> HIDE DEF P, N
<1>3. Withdrawing(N, Partition(r, None))
  BY <1>1, <1>2 DEF Withdrawing
<1>4. QED BY <1>3 DEF Promised, N

\* A part that has been deleted alone is missing for good.
LEMMA WasIntact ==
  ASSUME Next, Intact'
  PROVE  Intact
<1>1. freed = None \/ Intact \/ Undefined
  BY DEF Next, DragEnter, DropOrLeave, HoverPin, GiveUp, PressFirstPin, PressSecondPin, PressWire,
         OnRemoveSelected, RemovePart, KeyPressDelete, SaveAndOpen, Close, Sane, Intact
<1>2. CASE Undefined
  BY <1>2 DEF Undefined, vars, Intact
<1>3. QED BY <1>1, <1>2 DEF Intact

LEMMA NextPromised ==
  ASSUME Inv, Next, Intact'
  PROVE  Promised(Partition(doc, None), Partition(doc', None))
<1>1. /\ Sound(doc, {}) /\ (freed = None => Open(doc) = {hint} \ {None})
      /\ (freed = hint => Open(doc) = {})
      /\ (handler \in {"select", "wire"} => hint = None)
      /\ (handler = "wire2" => hint # None)
  BY WasIntact DEF Inv, Intact
<1>2. CASE doc' = doc
  BY <1>2 DEF Promised
<1>3. ASSUME NEW s \in Symbols, DragEnter(s) PROVE Promised(Partition(doc, None), Partition(doc', None))
  <2>1. doc' = CreateOwner(doc, "component", "pin", s) /\ s \in Nat
    BY <1>3, EditorAssumption DEF DragEnter
  <2>2. Placing(Partition(doc, None), Partition(doc', None))
    BY <1>1, <2>1, CreatedNets DEF Placing
  <2>3. QED BY <2>2 DEF Promised
<1>4. CASE DropOrLeave \/ GiveUp
  <2>1. freed = None /\ doc' = IF hint = None THEN doc ELSE ReleaseWire(doc, hint)
    BY <1>4 DEF DropOrLeave, GiveUp, Selection, Sane
  <2>2. CASE hint = None
    BY <1>2, <2>1, <2>2
  <2>3. CASE hint # None
    <3>1. hint \in Wires(doc)
      BY <1>1, <2>1, <2>3 DEF Open
    <3>2. QED BY <1>1, <2>1, <2>3, <3>1, WireDeleted
  <2>4. QED BY <2>2, <2>3
<1>5. CASE HoverPin
  BY <1>2, <1>5 DEF HoverPin
<1>6. ASSUME NEW p, PressFirstPin(p) PROVE Promised(Partition(doc, None), Partition(doc', None))
  <2>1. /\ handler = "wire" /\ p \in FreePins(doc) /\ hint' = Alloc(doc)
        /\ doc' = ConnectStartPort(CreateWire(doc), hint', p) /\ freed = None
    BY <1>6 DEF PressFirstPin, Sane
  <2>2. hint = None /\ Open(doc) = {} /\ p \in Pins(doc) /\ doc.wire[p] = None
    BY <1>1, <2>1 DEF FreePins, Pins
  <2>3. Partition(doc', None) = Partition(doc, None)
    BY <1>1, <2>1, <2>2, FirstPinNets
  <2>4. QED BY <2>3 DEF Promised
<1>7. ASSUME NEW p, PressSecondPin(p) PROVE Promised(Partition(doc, None), Partition(doc', None))
  <2>1. /\ handler = "wire2" /\ p \in FreePins(doc) /\ doc' = ConnectEndPort(doc, hint, p)
        /\ freed = None
    BY <1>7 DEF PressSecondPin, Accept, Sane
  <2>2. Open(doc) = {hint} /\ p \in Pins(doc) /\ doc.wire[p] = None
    BY <1>1, <2>1 DEF FreePins, Pins
  <2>3. QED BY <1>1, <2>1, <2>2, SecondPinNets DEF Promised
<1>8. ASSUME NEW w, PressWire(w) PROVE Promised(Partition(doc, None), Partition(doc', None))
  <2>1. /\ handler = "wire2" /\ w \in Wires(doc) /\ w # hint
        /\ doc' = ConnectEndPort(AddJoint(doc, w), hint, JointPort(doc, w)) /\ freed = None
    BY <1>8 DEF PressWire, Accept, Sane
  <2>2. Open(doc) = {hint}
    BY <1>1, <2>1
  <2>3. QED BY <1>1, <2>1, <2>2, SplitNets DEF Promised
<1>9. ASSUME NEW w, OnRemoveSelected(w) PROVE Promised(Partition(doc, None), Partition(doc', None))
  BY <1>1, <1>9, WireDeleted DEF OnRemoveSelected
<1>10. CASE KeyPressDelete
  <2>1. PICK sel \in Selections(doc) : doc' = FoldLeft(ReleaseComponent, doc, sel)
    BY <1>10 DEF KeyPressDelete
  <2>2. PICK C \in SUBSET Components(doc) : sel \in SetToSeqs(C)
    BY <2>1 DEF Selections
  <2>3. C \subseteq Components(doc)
    BY <2>2
  <2>4. /\ Len(sel) \in Nat /\ DOMAIN sel = 1..Len(sel) /\ IsInjective(sel)
        /\ ToSet(sel) \subseteq C /\ \A i \in 1..Len(sel) : sel[i] \in Components(doc)
    BY <1>1, <2>2, <2>3, SelectionIs
  <2>5. Trimmed(doc', doc)
    BY <1>1, <2>1, <2>4, DeleteTrimmed
  <2>6. QED BY <2>5, TrimmedPromised
<1>11. CASE SaveAndOpen
  <2>1. hint = freed /\ doc' = Reloaded(doc)
    BY <1>11 DEF SaveAndOpen
  <2>2. Open(doc) = {}
    BY <1>1, <2>1
  <2>3. Partition(doc', None) = Partition(doc, None)
    BY <1>1, <2>1, <2>2, ReloadedNets
  <2>4. QED BY <2>3 DEF Promised
<1>12. CASE Close
  <2>1. Sound(doc', {}) /\ doc'.elements = <<>>
    BY <1>1, <1>12, ReleaseAllIs DEF Close
  <2>2. Pins(doc') = {}
    <3>1. \A e \in doc'.ids : \E i \in 1..Len(doc'.elements) : doc'.elements[i] = e
      BY <2>1 DEF Sound, Shape, Listing
    <3>2. Len(doc'.elements) = 0
      BY <2>1
    <3>3. doc'.ids = {}
      BY <3>1, <3>2
    <3>4. QED BY <2>1, <3>3, PinKinds DEF Sound, Shape
  <2>3. Trimmed(doc', doc)
    BY <2>2 DEF Trimmed, Agree
  <2>4. QED BY <2>3, TrimmedPromised
<1>13. ASSUME NEW p \in Of(doc, {"pin", "joint"}), RemovePart(p) PROVE FALSE
  <2>1. freed' = p /\ hint' = hint /\ handler \in {"select", "wire"}
    BY <1>13 DEF RemovePart
  <2>2. p # None
    BY <1>1, PartRemoved DEF None
  <2>3. QED BY <1>1, <2>1, <2>2 DEF Intact
<1>14. CASE Undefined
  BY <1>2, <1>14 DEF Undefined, vars
<1>15. QED
  BY <1>3, <1>4, <1>5, <1>6, <1>7, <1>8, <1>9, <1>10, <1>11, <1>12, <1>13, <1>14 DEF Next

\* The inductive invariant: until a part is deleted alone the nets written down are
\* those of the document.
NetInv == Inv /\ (Intact => nets = PinNets(doc))

LEMMA NetInitInv ==
  NetInit => NetInv
<1>1. SUFFICES ASSUME NetInit PROVE Inv /\ nets = PinNets(doc)
  BY DEF NetInv
<1>2. Inv /\ doc = Empty /\ nets = {}
  BY <1>1, InitInv DEF NetInit, Init
<1>3. PinNets(Empty) = Partition(Empty, None)
  BY EmptySound, PinNetsPartition
<1>4. Pins(Empty) = {}
  BY DEF Pins, Of, Empty
<1>5. Partition(Empty, None) = {}
  BY <1>4 DEF Partition
<1>6. QED BY <1>2, <1>3, <1>5

LEMMA NetNextInv ==
  ASSUME NetInv, [NetNext]_<<vars, nets>>
  PROVE  NetInv' /\ Promised(nets, nets')
<1>1. Inv /\ (Intact => nets = PinNets(doc))
  BY DEF NetInv
<1>2. Inv'
  <2>1. [Next]_vars
    BY DEF NetNext
  <2>2. QED BY <1>1, <2>1, NextInv
<1>3. CASE UNCHANGED <<vars, nets>>
  <2>1. doc' = doc /\ nets' = nets /\ Intact' = Intact
    BY <1>3 DEF vars, Intact
  <2>2. QED BY <1>1, <1>2, <2>1 DEF NetInv, Promised
<1>4. CASE NetNext /\ ~Intact'
  <2>1. nets' = nets
    BY <1>4 DEF NetNext
  <2>2. QED BY <1>2, <1>4, <2>1 DEF NetInv, Promised
<1>5. CASE NetNext /\ Intact'
  <2>1. Next /\ nets' = PinNets(doc') /\ Intact /\ nets = PinNets(doc)
    BY <1>1, <1>5, WasIntact DEF NetNext
  <2>2. Sound(doc, {}) /\ Sound(doc', {})
    BY <1>1, <1>2, <1>5, <2>1 DEF Inv
  <2>3. nets = Partition(doc, None) /\ nets' = Partition(doc', None)
    BY <2>1, <2>2, PinNetsPartition
  <2>4. QED BY <1>1, <1>2, <1>5, <2>1, <2>3, NextPromised DEF NetInv
<1>6. QED BY <1>3, <1>4, <1>5

LEMMA PromisedSteps ==
  ASSUME Promised(nets, nets')
  PROVE  [Promise!Next]_nets
<1>1. CASE nets' = nets
  BY <1>1
<1>2. CASE Placing(nets, nets')
  BY <1>2 DEF Placing, Promise!Next, Promise!Place, Promise!Pins
<1>3. CASE Joining(nets, nets')
  <2>1. PICK p \in UNION nets, n \in nets :
           {p} \in nets \ {n} /\ nets' = (nets \ {{p}, n}) \cup {n \cup {p}}
    BY <1>3 DEF Joining
  <2>2. Promise!Connect(p, n) /\ p \in Promise!Pins
    BY <2>1 DEF Promise!Connect, Promise!Pins
  <2>3. QED BY <2>1, <2>2 DEF Promise!Next
<1>4. CASE Cutting(nets, nets')
  BY <1>4 DEF Cutting, Promise!Next, Promise!Cut
<1>5. CASE Withdrawing(nets, nets')
  BY <1>5 DEF Withdrawing, Promise!Next, Promise!Withdraw, Promise!Pins
<1>6. QED BY <1>1, <1>2, <1>3, <1>4, <1>5 DEF Promised

\* Until a part is deleted alone the nets change as the user was promised: components
\* bring and take their pins, even one deleted while a wire is drawn from it, a wire
\* connects a pin that was alone to one net, and deleting a wire cuts one net in two.
THEOREM EditingKeepsPromise == NetSpec => ImplementsNets
<1>1. NetInit => Promise!Init
  BY DEF NetInit, Promise!Init
<1>2. NetInv /\ [NetNext]_<<vars, nets>> => NetInv' /\ [Promise!Next]_nets
  BY NetNextInv, PromisedSteps
<1>3. QED BY <1>1, <1>2, NetInitInv, PTL DEF NetSpec, ImplementsNets, Promise!Spec

-----------------------------------------------------------------------------
(* The union-find of generateNetlist.                                       *)

\* The folds over ports and elements, as sequences of steps.
Adding(g, ps, s) ==
  /\ g[0] = ps /\ \A i \in 1..Len(s) : g[i] = Added(g[i - 1], s[i])
  /\ FoldLeft(Added, ps, s) = g[Len(s)]

LEMMA AddsFold ==
  ASSUME NEW ps, NEW s, Len(s) \in Nat, DOMAIN s = 1..Len(s)
  PROVE  \E g : Adding(g, ps, s)
<1> DEFINE f == CHOOSE f : f = [t \in SUBSET DOMAIN s |->
                  IF t = {} THEN ps ELSE Added(f[t \ {Max(t)}], s[Max(t)])]
<1>1. FoldLeft(Added, ps, s) = f[DOMAIN s]
  BY DEF FoldLeft, MapThenFoldSet
<1>2. f = [t \in SUBSET DOMAIN s |->
             IF t = {} THEN ps ELSE Added(f[t \ {Max(t)}], s[Max(t)])]
  <2>1. PICK g : Folding("add", 0, ps, s, Len(s), g)
    BY FoldExists
  <2>2. g = [t \in SUBSET DOMAIN s |->
               IF t = {} THEN ps ELSE Added(g[t \ {Max(t)}], s[Max(t)])]
    BY <2>1 DEF Folding, Step
  <2>3. QED BY <2>2
<1> HIDE DEF f
<1>3. Folding("add", 0, ps, s, Len(s), f)
  BY <1>2 DEF Folding, Step
<1>4. PICK g : Sequel("add", 0, ps, s, g) /\ f[DOMAIN s] = g[Len(s)]
  BY <1>3, FoldSteps
<1>5. g[0] = ps /\ \A i \in 1..Len(s) : g[i] = Added(g[i - 1], s[i])
  BY <1>4 DEF Sequel, Step
<1>6. QED BY <1>1, <1>4, <1>5 DEF Adding

Extracting(g, d, s) ==
  /\ g[0] = <<>> /\ \A i \in 1..Len(s) : g[i] = PortsAdded(d, g[i - 1], s[i])
  /\ Extracted(d) = g[Len(s)]

LEMMA ExtractsFold ==
  ASSUME NEW d, NEW s, s = d.elements, Len(s) \in Nat, DOMAIN s = 1..Len(s)
  PROVE  \E g : Extracting(g, d, s)
<1> DEFINE f == CHOOSE f : f = [t \in SUBSET DOMAIN s |->
                  IF t = {} THEN <<>> ELSE PortsAdded(d, f[t \ {Max(t)}], s[Max(t)])]
<1>0. Extracted(d) = FoldLeft(LAMBDA ps, e : PortsAdded(d, ps, e), <<>>, s)
  BY DEF Extracted, PortsAdded, Added
<1>1. Extracted(d) = f[DOMAIN s]
  BY <1>0 DEF FoldLeft, MapThenFoldSet
<1>2. f = [t \in SUBSET DOMAIN s |->
             IF t = {} THEN <<>> ELSE PortsAdded(d, f[t \ {Max(t)}], s[Max(t)])]
  <2>1. PICK g : Folding("extract", d, <<>>, s, Len(s), g)
    BY FoldExists
  <2>2. g = [t \in SUBSET DOMAIN s |->
               IF t = {} THEN <<>> ELSE PortsAdded(d, g[t \ {Max(t)}], s[Max(t)])]
    BY <2>1 DEF Folding, Step
  <2>3. QED BY <2>2
<1> HIDE DEF f
<1>3. Folding("extract", d, <<>>, s, Len(s), f)
  BY <1>2 DEF Folding, Step
<1>4. PICK g : Sequel("extract", d, <<>>, s, g) /\ f[DOMAIN s] = g[Len(s)]
  BY <1>3, FoldSteps
<1>5. g[0] = <<>> /\ \A i \in 1..Len(s) : g[i] = PortsAdded(d, g[i - 1], s[i])
  BY <1>4 DEF Sequel, Step
<1>6. QED BY <1>1, <1>4, <1>5 DEF Extracting

\* No port is merged with another one yet.
Fresh(n) == [sets |-> [i \in 1..n |-> i], next |-> [i \in 1..n |-> -1], last |-> [i \in 1..n |-> i]]

Merging(g, d, ports, s, b) ==
  /\ g[0] = b /\ \A i \in 1..Len(s) : g[i] = LinkMerged(d, ports, g[i - 1], s[i])
  /\ Merged(d, ports) = g[Len(s)]

LEMMA MergesFold ==
  ASSUME NEW d, NEW ports, NEW s, s = d.elements, Len(s) \in Nat, DOMAIN s = 1..Len(s),
         NEW b, b = Fresh(Len(ports))
  PROVE  \E g : Merging(g, d, ports, s, b)
<1> DEFINE f == CHOOSE f : f = [t \in SUBSET DOMAIN s |->
                  IF t = {} THEN b ELSE LinkMerged(d, ports, f[t \ {Max(t)}], s[Max(t)])]
<1>0. Merged(d, ports) = FoldLeft(LAMBDA u, e : LinkMerged(d, ports, u, e), b, s)
  BY DEF Merged, LinkMerged, IndexIn, Fresh
<1>1. Merged(d, ports) = f[DOMAIN s]
  BY <1>0 DEF FoldLeft, MapThenFoldSet
<1>2. f = [t \in SUBSET DOMAIN s |->
             IF t = {} THEN b ELSE LinkMerged(d, ports, f[t \ {Max(t)}], s[Max(t)])]
  <2>1. PICK g : Folding("merge", <<d, ports>>, b, s, Len(s), g)
    BY FoldExists
  <2>2. g = [t \in SUBSET DOMAIN s |->
               IF t = {} THEN b ELSE LinkMerged(d, ports, g[t \ {Max(t)}], s[Max(t)])]
    BY <2>1 DEF Folding, Step
  <2>3. QED BY <2>2
<1> HIDE DEF f
<1>3. Folding("merge", <<d, ports>>, b, s, Len(s), f)
  BY <1>2 DEF Folding, Step
<1>4. PICK g : Sequel("merge", <<d, ports>>, b, s, g) /\ f[DOMAIN s] = g[Len(s)]
  BY <1>3, FoldSteps
<1>5. g[0] = b /\ \A i \in 1..Len(s) : g[i] = LinkMerged(d, ports, g[i - 1], s[i])
  BY <1>4 DEF Sequel, Step
<1>6. QED BY <1>1, <1>4, <1>5 DEF Merging

\* ps lists the elements of S, each once.
Lists(ps, S) ==
  ps \in Seq(S) /\ IsInjective(ps) /\ \A p \in S : \E i \in 1..Len(ps) : ps[i] = p

LEMMA AddedLists ==
  ASSUME NEW ps, NEW S, Lists(ps, S), NEW p
  PROVE  Lists(Added(ps, p), S \cup {p})
<1>1. /\ ps \in Seq(S) /\ Len(ps) \in Nat /\ DOMAIN ps = 1..Len(ps)
      /\ \A i, j \in 1..Len(ps) : ps[i] = ps[j] => i = j
      /\ \A i \in 1..Len(ps) : ps[i] \in S
      /\ \A q \in S : \E i \in 1..Len(ps) : ps[i] = q
  <2>1. /\ ps \in Seq(S) /\ IsInjective(ps)
        /\ \A q \in S : \E i \in 1..Len(ps) : ps[i] = q
    BY DEF Lists
  <2>2. /\ Len(ps) \in Nat /\ DOMAIN ps = 1..Len(ps)
        /\ \A i \in 1..Len(ps) : ps[i] \in S
    BY <2>1, LenProperties
  <2>3. \A i, j \in 1..Len(ps) : ps[i] = ps[j] => i = j
    BY <2>1, <2>2 DEF IsInjective
  <2>4. QED BY <2>1, <2>2, <2>3
<1>2. CASE p \in ToSet(ps)
  <2>1. Added(ps, p) = ps
    BY <1>2 DEF Added
  <2>2. p \in S
    BY <1>1, <1>2 DEF ToSet
  <2>3. S \cup {p} = S
    BY <2>2
  <2>4. QED BY <2>1, <2>3
<1>3. CASE p \notin ToSet(ps)
  <2> DEFINE r == Append(ps, p)
             n == Len(ps)
  <2>1. Added(ps, p) = r
    BY <1>3 DEF Added
  <2>2. p \notin S
    BY <1>1, <1>3 DEF ToSet
  <2>3. /\ r \in Seq(S \cup {p}) /\ Len(r) = n + 1 /\ DOMAIN r = 1..(n + 1)
        /\ \A i \in 1..n : r[i] = ps[i]
        /\ r[n + 1] = p
    BY <1>1, AppendProperties
  <2> HIDE DEF r
  <2>4. ASSUME NEW i \in 1..(n + 1), NEW j \in 1..(n + 1), r[i] = r[j] PROVE i = j
    <3>1. CASE i = n + 1 /\ j # n + 1
      <4>1. j \in 1..n
        BY <1>1, <3>1
      <4>2. QED BY <1>1, <2>2, <2>3, <2>4, <3>1, <4>1
    <3>2. CASE j = n + 1 /\ i # n + 1
      <4>1. i \in 1..n
        BY <1>1, <3>2
      <4>2. QED BY <1>1, <2>2, <2>3, <2>4, <3>2, <4>1
    <3>3. CASE i # n + 1 /\ j # n + 1
      <4>1. i \in 1..n /\ j \in 1..n
        BY <1>1, <3>3
      <4>2. QED BY <1>1, <2>3, <2>4, <4>1
    <3>4. QED BY <3>1, <3>2, <3>3
  <2>5. IsInjective(r)
    BY <2>3, <2>4 DEF IsInjective
  <2>6. ASSUME NEW q \in S \cup {p} PROVE \E i \in 1..Len(r) : r[i] = q
    <3>1. CASE q = p
      <4>1. n + 1 \in 1..Len(r)
        BY <1>1, <2>3
      <4>2. QED BY <2>3, <3>1, <4>1
    <3>2. CASE q # p
      <4>1. PICK i \in 1..n : ps[i] = q
        BY <1>1, <3>2
      <4>2. i \in 1..Len(r)
        BY <1>1, <2>3
      <4>3. QED BY <2>3, <4>1, <4>2
    <3>3. QED BY <3>1, <3>2
  <2>7. Lists(r, S \cup {p})
    BY <2>3, <2>5, <2>6 DEF Lists
  <2>8. QED BY <2>1, <2>7
<1>4. QED BY <1>2, <1>3

LEMMA AllAdded ==
  ASSUME NEW ps, NEW S, Lists(ps, S), NEW s, Len(s) \in Nat, DOMAIN s = 1..Len(s)
  PROVE  Lists(FoldLeft(Added, ps, s), S \cup ToSet(s))
<1>0. PICK g : Adding(g, ps, s)
  BY AddsFold
<1>1. /\ g[0] = ps /\ \A i \in 1..Len(s) : g[i] = Added(g[i - 1], s[i])
      /\ FoldLeft(Added, ps, s) = g[Len(s)]
  BY <1>0 DEF Adding
<1> DEFINE T == {i \in 0..Len(s) : Lists(g[i], S \cup Firsts(s, i))}
<1>2. 0 \in T
  <2>1. Firsts(s, 0) = {}
    BY DEF Firsts
  <2>2. S \cup Firsts(s, 0) = S
    BY <2>1
  <2>3. Lists(g[0], S \cup Firsts(s, 0))
    BY <1>1, <2>2
  <2>4. QED BY <2>3
<1>3. ASSUME NEW i \in 1..Len(s), i - 1 \in T PROVE i \in T
  <2>1. i \in 0..Len(s) /\ Lists(g[i - 1], S \cup Firsts(s, i - 1))
    BY <1>3
  <2>2. (S \cup Firsts(s, i - 1)) \cup {s[i]} = S \cup Firsts(s, i)
    <3>1. \A k : k \in 1..i <=> k \in 1..(i - 1) \/ k = i
      OBVIOUS
    <3>2. Firsts(s, i) = Firsts(s, i - 1) \cup {s[i]}
      BY <3>1 DEF Firsts
    <3>3. QED BY <3>2
  <2>3. Lists(g[i], (S \cup Firsts(s, i - 1)) \cup {s[i]})
    BY <1>1, <2>1, AddedLists
  <2>4. QED BY <2>1, <2>2, <2>3
<1>4. Len(s) \in T
  <2> HIDE DEF T
  <2>1. \A i \in 0..Len(s) : i \in T
    BY <1>2, <1>3, CountUp
  <2>2. QED BY <2>1
<1>5. Firsts(s, Len(s)) = ToSet(s)
  BY DEF Firsts, ToSet
<1>6. QED BY <1>1, <1>4, <1>5

\* The ports of a link as they are listed.
LEMMA PortsOfIs ==
  ASSUME NEW d, Sound(d, {}), NEW e \in d.ids
  PROVE  /\ Len(PortsOf(d, e)) \in Nat /\ DOMAIN PortsOf(d, e) = 1..Len(PortsOf(d, e))
         /\ d.cls[e] = "wire" => PortsOf(d, e) = <<d.ends[e][1], d.ends[e][2]>>
         /\ d.cls[e] = "joint" => PortsOf(d, e) = d.subs[e]
         /\ d.cls[e] \notin {"wire", "joint"} => PortsOf(d, e) = <<>>
<1>1. Typed(d)
  BY DEF Sound, Shape
<1>2. CASE d.cls[e] = "wire"
  <2>1. PortsOf(d, e) = d.ends[e] /\ e \in Wires(d)
    BY <1>1, <1>2, Kinds DEF PortsOf
  <2>2. d.ends[e] \in Nat \X Nat
    BY <1>1, <2>1 DEF Typed
  <2>3. d.ends[e] = <<d.ends[e][1], d.ends[e][2]>>
    BY <2>2
  <2>4. QED BY <1>2, <2>1, <2>3
<1>3. CASE d.cls[e] = "joint"
  <2>1. PortsOf(d, e) = d.subs[e] /\ e \in Joints(d)
    BY <1>1, <1>3, Kinds DEF PortsOf
  <2>2. d.subs[e] \in Seq(Nat)
    BY <1>1, <2>1 DEF Typed, Owners
  <2>3. QED BY <1>3, <2>1, <2>2, LenProperties
<1>4. CASE d.cls[e] \notin {"wire", "joint"}
  <2>1. PortsOf(d, e) = <<>>
    BY <1>4 DEF PortsOf
  <2>2. QED BY <1>4, <2>1
<1>5. QED BY <1>2, <1>3, <1>4

\* The ports of the first i elements.
Linked(d, i) == UNION {ToSet(PortsOf(d, d.elements[k])) : k \in 1..i}

LEMMA ExtractedLists ==
  ASSUME NEW d, Sound(d, {})
  PROVE  Lists(Extracted(d), Linked(d, Len(d.elements)))
<1>0. SUFFICES ASSUME NEW s, s = d.elements
               PROVE  Lists(Extracted(d), Linked(d, Len(s)))
  OBVIOUS
<1>1. s \in Seq(d.ids) /\ Len(s) \in Nat /\ DOMAIN s = 1..Len(s) /\ \A i \in 1..Len(s) : s[i] \in d.ids
  <2>1. s \in Seq(d.ids)
    BY <1>0 DEF Sound, Shape, Listing
  <2>2. QED BY <2>1, LenProperties
<1>a. PICK g : Extracting(g, d, s)
  BY <1>0, <1>1, ExtractsFold
<1>2. /\ g[0] = <<>> /\ \A i \in 1..Len(s) : g[i] = PortsAdded(d, g[i - 1], s[i])
      /\ Extracted(d) = g[Len(s)]
  BY <1>a DEF Extracting
<1> DEFINE T == {i \in 0..Len(s) : Lists(g[i], Linked(d, i))}
<1>3. 0 \in T
  <2>1. Linked(d, 0) = {}
    BY DEF Linked
  <2>2. Lists(<<>>, {})
    BY DEF Lists, IsInjective
  <2>3. Lists(g[0], Linked(d, 0))
    BY <1>2, <2>1, <2>2
  <2>4. QED BY <1>1, <2>3
<1>4. ASSUME NEW i \in 1..Len(s), i - 1 \in T PROVE i \in T
  <2>1. i \in 0..Len(s) /\ Lists(g[i - 1], Linked(d, i - 1))
    BY <1>1, <1>4
  <2>2. Linked(d, i) = Linked(d, i - 1) \cup ToSet(PortsOf(d, s[i]))
    <3>1. \A k : k \in 1..i <=> k \in 1..(i - 1) \/ k = i
      BY <1>1
    <3>2. QED BY <1>0, <3>1 DEF Linked
  <2>3. Len(PortsOf(d, s[i])) \in Nat /\ DOMAIN PortsOf(d, s[i]) = 1..Len(PortsOf(d, s[i]))
    BY <1>1, PortsOfIs
  <2>4. g[i] = FoldLeft(Added, g[i - 1], PortsOf(d, s[i]))
    BY <1>2 DEF PortsAdded
  <2>5. Lists(g[i], Linked(d, i - 1) \cup ToSet(PortsOf(d, s[i])))
    <3>1. PICK q : q = PortsOf(d, s[i])
      OBVIOUS
    <3>2. Lists(FoldLeft(Added, g[i - 1], q), Linked(d, i - 1) \cup ToSet(q))
      BY <2>1, <2>3, <3>1, AllAdded
    <3>3. QED BY <2>4, <3>1, <3>2
  <2>6. QED BY <2>1, <2>2, <2>5
<1>5. Len(s) \in T
  <2> HIDE DEF T
  <2>1. \A i \in 0..Len(s) : i \in T
    BY <1>1, <1>3, <1>4, CountUp
  <2>2. QED BY <1>1, <2>1
<1>6. QED BY <1>2, <1>5

-----------------------------------------------------------------------------
(* The union-find is a forest, with the chain of every tree listed.         *)

\* What the fields of the union-find say, if root[y] is the root of y and pos[y] its
\* place in the chain of the root: the chain of a set is its list without gaps.
Fields(u, n, root, pos) ==
  /\ u.sets \in [1..n -> 1..n] /\ u.next \in [1..n -> {-1} \cup 1..n] /\ u.last \in [1..n -> 1..n]
  /\ root \in [1..n -> 1..n] /\ pos \in [1..n -> Nat]
Rooted(u, n, root, pos) ==
  /\ \A y \in 1..n : root[root[y]] = root[y] /\ root[u.sets[y]] = root[y]
  /\ \A y \in 1..n : u.sets[y] = y => root[y] = y
  /\ \A y \in 1..n : u.sets[y] # y => root[y] # y /\ pos[u.sets[y]] < pos[y]
  /\ \A y \in 1..n : root[y] = y => pos[y] = 0
Placed(u, n, root, pos) ==
  /\ \A y, z \in 1..n : root[y] = root[z] /\ pos[y] = pos[z] => y = z
  /\ \A y \in 1..n : \A v \in 0..pos[y] : \E z \in 1..n : root[z] = root[y] /\ pos[z] = v
  /\ \A y \in 1..n : root[u.last[root[y]]] = root[y] /\ pos[y] <= pos[u.last[root[y]]]
Chained(u, n, root, pos) ==
  \A y \in 1..n : IF u.next[y] = -1 THEN u.last[root[y]] = y
                  ELSE root[u.next[y]] = root[y] /\ pos[u.next[y]] = pos[y] + 1
Trees(u, n, root, pos) ==
  /\ Fields(u, n, root, pos) /\ Rooted(u, n, root, pos)
  /\ Placed(u, n, root, pos) /\ Chained(u, n, root, pos)

LEMMA FreshTrees ==
  ASSUME NEW n \in Nat
  PROVE  \E root, pos : Trees(Fresh(n), n, root, pos) /\ \A y \in 1..n : root[y] = y
<1> DEFINE u == Fresh(n)
           root == [y \in 1..n |-> y]
           pos == [y \in 1..n |-> 0]
<1>1. /\ u.sets = [i \in 1..n |-> i] /\ u.next = [i \in 1..n |-> -1] /\ u.last = [i \in 1..n |-> i]
  BY DEF Fresh
<1>2. \A y \in 1..n : u.sets[y] = y /\ u.next[y] = -1 /\ u.last[y] = y /\ root[y] = y /\ pos[y] = 0
  BY <1>1
<1>3. Fields(u, n, root, pos)
  BY <1>1 DEF Fields
<1> HIDE DEF u, root, pos
<1>4. Rooted(u, n, root, pos)
  BY <1>2 DEF Rooted
<1>5. Placed(u, n, root, pos)
  <2>1. ASSUME NEW y \in 1..n, NEW v \in 0..pos[y] PROVE \E z \in 1..n : root[z] = root[y] /\ pos[z] = v
    <3>1. v = 0
      BY <1>2
    <3>2. QED BY <1>2, <3>1
  <2>2. QED BY <1>2, <2>1 DEF Placed
<1>6. Chained(u, n, root, pos)
  BY <1>2 DEF Chained
<1>7. Trees(u, n, root, pos)
  BY <1>3, <1>4, <1>5, <1>6 DEF Trees
<1>8. \A y \in 1..n : root[y] = y
  BY <1>2
<1>9. QED BY <1>7, <1>8 DEF u

\* Places are less than n: the places before one are those of different ports.
LEMMA PlaceBound ==
  ASSUME NEW u, NEW n \in Nat, NEW root, NEW pos, Trees(u, n, root, pos), NEW y \in 1..n
  PROVE  pos[y] \in 0..(n - 1)
<1>1. pos \in [1..n -> Nat] /\ \A v \in 0..pos[y] : \E z \in 1..n : root[z] = root[y] /\ pos[z] = v
  BY DEF Trees, Fields, Placed
<1> DEFINE S == {z \in 1..n : pos[z] \in 0..pos[y]}
           T == 0..pos[y]
           f == [z \in S |-> pos[z]]
<1>2. f \in Surjection(S, T)
  <2>1. f \in [S -> T]
    OBVIOUS
  <2>2. \A v \in T : \E z \in S : f[z] = v
    BY <1>1
  <2> HIDE DEF f, S, T
  <2>3. QED BY <2>1, <2>2 DEF Surjection
<1>3. IsFiniteSet(1..n) /\ Cardinality(1..n) = n
  BY FS_Interval
<1>4. IsFiniteSet(S) /\ Cardinality(S) <= n
  <2>1. S \subseteq 1..n
    OBVIOUS
  <2> HIDE DEF S
  <2>2. QED BY <1>3, <2>1, FS_Subset
<1>5. Cardinality(T) <= Cardinality(S)
  <2> HIDE DEF S, T, f
  <2>1. QED BY <1>2, <1>4, FS_Surjection
<1>6. Cardinality(T) = pos[y] + 1
  <2>1. PICK m \in Nat : m = pos[y]
    BY <1>1
  <2>2. Cardinality(0..m) = IF 0 > m THEN 0 ELSE m - 0 + 1
    BY FS_Interval
  <2>3. Cardinality(0..m) = m + 1
    BY <2>2
  <2>4. QED BY <2>1, <2>3
<1>7. Cardinality(S) \in Nat /\ pos[y] \in Nat
  BY <1>1, <1>4, FS_CardinalityType
<1>8. PICK a \in Nat, b \in Nat : a = Cardinality(S) /\ b = pos[y]
  BY <1>7
<1>9. b + 1 <= a /\ a <= n
  BY <1>4, <1>5, <1>6, <1>8
<1>10. b \in 0..(n - 1)
  BY <1>9
<1>11. QED BY <1>8, <1>10

\* setsFind finds the root: the parents of a port are before it in the chain.
LEMMA FindRootIs ==
  ASSUME NEW u, NEW n \in Nat, NEW root, NEW pos, Trees(u, n, root, pos), NEW x \in 1..n
  PROVE  FindRoot(u.sets, x) = root[x]
<1>0. SUFFICES ASSUME NEW sets, sets = u.sets PROVE FindRoot(sets, x) = root[x]
  OBVIOUS
<1>1. /\ sets \in [1..n -> 1..n] /\ root \in [1..n -> 1..n] /\ pos \in [1..n -> Nat]
      /\ \A y \in 1..n : root[sets[y]] = root[y]
      /\ \A y \in 1..n : sets[y] = y => root[y] = y
      /\ \A y \in 1..n : sets[y] # y => pos[sets[y]] < pos[y]
  BY <1>0 DEF Trees, Fields, Rooted
<1>2. Len(sets) = n
  BY <1>1
<1> DEFINE up == CHOOSE up : up = [k \in 0..n |->
                   [y \in 1..n |-> IF sets[y] = y \/ k = 0 THEN y ELSE up[k - 1][sets[y]]]]
<1>3. FindRoot(sets, x) = up[n][x]
  BY <1>2 DEF FindRoot
<1>4. up = [k \in 0..n |-> [y \in 1..n |-> IF sets[y] = y \/ k = 0 THEN y ELSE up[k - 1][sets[y]]]]
  <2> DEFINE V == [1..n -> 1..n]
             b == [y \in 1..n |-> y]
             G == [h \in V |-> [y \in 1..n |-> IF sets[y] = y THEN y ELSE h[sets[y]]]]
  <2>1. b \in V
    OBVIOUS
  <2>2. G \in [V -> V]
    BY <1>1
  <2>3. PICK f \in [0..n -> V] : Iteration(f, b, G, n)
    <3> HIDE DEF V, b, G
    <3>1. QED BY <2>1, <2>2, Iterates
  <2>4. ASSUME NEW k \in 0..n
        PROVE  f[k] = [y \in 1..n |-> IF sets[y] = y \/ k = 0 THEN y ELSE f[k - 1][sets[y]]]
    <3>1. CASE k = 0
      <4>1. f[0] = b
        BY <2>3 DEF Iteration
      <4>2. QED BY <3>1, <4>1
    <3>2. CASE k # 0
      <4>1. k \in 1..n /\ k - 1 \in 0..n
        BY <3>2
      <4>2. f[k] = G[f[k - 1]] /\ f[k - 1] \in V
        BY <2>3, <4>1 DEF Iteration
      <4>3. f[k] = [y \in 1..n |-> IF sets[y] = y THEN y ELSE f[k - 1][sets[y]]]
        <5> HIDE DEF V
        <5>1. QED BY <4>2
      <4>4. QED BY <3>2, <4>3
    <3>3. QED BY <3>1, <3>2
  <2>5. f = [k \in 0..n |-> f[k]]
    BY <2>3
  <2>6. f = [k \in 0..n |-> [y \in 1..n |-> IF sets[y] = y \/ k = 0 THEN y ELSE f[k - 1][sets[y]]]]
    <3> HIDE DEF V, b, G
    <3>1. QED BY <2>4, <2>5
  <2>7. QED BY <2>6
<1> HIDE DEF up
<1> DEFINE T == {k \in 0..n : \A y \in 1..n : pos[y] <= k => up[k][y] = root[y]}
<1>5. 0 \in T
  <2>1. ASSUME NEW y \in 1..n, pos[y] <= 0 PROVE up[0][y] = root[y]
    <3>1. sets[y] = y
      BY <1>1, <2>1
    <3>2. up[0] = [z \in 1..n |-> z]
      BY <1>4
    <3>3. QED BY <1>1, <3>1, <3>2
  <2>2. QED BY <2>1
<1>6. ASSUME NEW k \in 1..n, k - 1 \in T PROVE k \in T
  <2>1. k \in 0..n /\ k - 1 \in 0..n /\ \A y \in 1..n : pos[y] <= k - 1 => up[k - 1][y] = root[y]
    BY <1>6
  <2>2. up[k] = [y \in 1..n |-> IF sets[y] = y THEN y ELSE up[k - 1][sets[y]]]
    <3>1. up[k] = [y \in 1..n |-> IF sets[y] = y \/ k = 0 THEN y ELSE up[k - 1][sets[y]]]
      BY <1>4, <2>1
    <3>2. k # 0
      OBVIOUS
    <3>3. QED BY <3>1, <3>2
  <2>3. ASSUME NEW y \in 1..n, pos[y] <= k PROVE up[k][y] = root[y]
    <3>1. CASE sets[y] = y
      BY <1>1, <2>2, <3>1
    <3>2. CASE sets[y] # y
      <4>1. sets[y] \in 1..n /\ pos[sets[y]] \in Nat /\ pos[y] \in Nat /\ pos[sets[y]] < pos[y]
        BY <1>1, <3>2
      <4>2. pos[sets[y]] <= k - 1
        BY <2>3, <4>1
      <4>3. QED BY <1>1, <2>1, <2>2, <3>2, <4>1, <4>2
    <3>3. QED BY <3>1, <3>2
  <2>4. QED BY <2>1, <2>3
<1>7. n \in T
  <2> HIDE DEF T
  <2>1. \A k \in 0..n : k \in T
    BY <1>5, <1>6, CountUp
  <2>2. QED BY <2>1
<1>8. pos[x] <= n
  <2>1. pos[x] \in 0..(n - 1)
    BY PlaceBound
  <2>2. QED BY <2>1
<1>9. QED BY <1>3, <1>7, <1>8

\* The tree of a hung under the root b, its places behind those of b.
HungRoot(n, root, a, b) == [z \in 1..n |-> IF root[z] = a THEN b ELSE root[z]]
HungPos(u, n, root, pos, a, b) ==
  [z \in 1..n |-> IF root[z] = a THEN pos[z] + pos[u.last[b]] + 1 ELSE pos[z]]
Hung(u, a, b) ==
  [sets |-> [u.sets EXCEPT ![a] = b], next |-> [u.next EXCEPT ![u.last[b]] = a],
   last |-> [u.last EXCEPT ![b] = u.last[a]]]

LEMMA ChangedTyped ==
  ASSUME NEW S, NEW T, NEW f \in [S -> T], NEW a \in S, NEW b \in T
  PROVE  [f EXCEPT ![a] = b] \in [S -> T]
  OBVIOUS

LEMMA HungTrees ==
  ASSUME NEW u, NEW n \in Nat, NEW root, NEW pos, Trees(u, n, root, pos),
         NEW a \in 1..n, NEW b \in 1..n, a # b, root[a] = a, root[b] = b
  PROVE  Trees(Hung(u, a, b), n, HungRoot(n, root, a, b), HungPos(u, n, root, pos, a, b))
<1> DEFINE v == Hung(u, a, b)
           r == HungRoot(n, root, a, b)
           q == HungPos(u, n, root, pos, a, b)
<1>1. /\ u.sets \in [1..n -> 1..n] /\ u.next \in [1..n -> {-1} \cup 1..n] /\ u.last \in [1..n -> 1..n]
      /\ root \in [1..n -> 1..n] /\ pos \in [1..n -> Nat]
  BY DEF Trees, Fields
<1>2. /\ \A y \in 1..n : root[root[y]] = root[y] /\ root[u.sets[y]] = root[y]
      /\ \A y \in 1..n : u.sets[y] = y => root[y] = y
      /\ \A y \in 1..n : u.sets[y] # y => root[y] # y /\ pos[u.sets[y]] < pos[y]
      /\ \A y \in 1..n : root[y] = y => pos[y] = 0
  BY DEF Trees, Rooted
<1>3. /\ \A y, z \in 1..n : root[y] = root[z] /\ pos[y] = pos[z] => y = z
      /\ \A y \in 1..n : \A k \in 0..pos[y] : \E z \in 1..n : root[z] = root[y] /\ pos[z] = k
      /\ \A y \in 1..n : root[u.last[root[y]]] = root[y] /\ pos[y] <= pos[u.last[root[y]]]
  BY DEF Trees, Placed
<1>4. \A y \in 1..n : IF u.next[y] = -1 THEN u.last[root[y]] = y
                      ELSE root[u.next[y]] = root[y] /\ pos[u.next[y]] = pos[y] + 1
  BY DEF Trees, Chained
<1>5. PICK e \in 1..n, m \in Nat : e = u.last[b] /\ m = pos[e]
  BY <1>1
<1>6. /\ v.sets = [u.sets EXCEPT ![a] = b] /\ v.next = [u.next EXCEPT ![e] = a]
      /\ v.last = [u.last EXCEPT ![b] = u.last[a]]
  BY <1>5 DEF Hung
<1>7. /\ r = [z \in 1..n |-> IF root[z] = a THEN b ELSE root[z]]
      /\ q = [z \in 1..n |-> IF root[z] = a THEN pos[z] + m + 1 ELSE pos[z]]
  BY <1>5 DEF HungRoot, HungPos
<1> HIDE DEF v, r, q
<1>8. \A z \in 1..n : /\ v.sets[z] = IF z = a THEN b ELSE u.sets[z]
                      /\ v.next[z] = IF z = e THEN a ELSE u.next[z]
                      /\ v.last[z] = IF z = b THEN u.last[a] ELSE u.last[z]
                      /\ r[z] = IF root[z] = a THEN b ELSE root[z]
                      /\ q[z] = IF root[z] = a THEN pos[z] + m + 1 ELSE pos[z]
  BY <1>1, <1>6, <1>7
<1>9. /\ \A z \in 1..n : u.sets[z] \in 1..n /\ u.last[z] \in 1..n /\ root[z] \in 1..n /\ pos[z] \in Nat
      /\ \A z \in 1..n : u.next[z] # -1 => u.next[z] \in 1..n
  BY <1>1
<1>10. root[e] = b /\ \A z \in 1..n : root[z] = b => pos[z] <= m
  BY <1>3, <1>5
<1>11. pos[a] = 0 /\ pos[b] = 0
  BY <1>2
<1>12. Fields(v, n, r, q)
  <2>1. v.sets \in [1..n -> 1..n] /\ v.next \in [1..n -> {-1} \cup 1..n] /\ v.last \in [1..n -> 1..n]
    <3>1. v.sets \in [1..n -> 1..n]
      <4>1. u.sets \in [1..n -> 1..n] /\ v.sets = [u.sets EXCEPT ![a] = b]
        BY <1>1, <1>6
      <4>2. QED BY <4>1, ChangedTyped
    <3>2. v.next \in [1..n -> {-1} \cup 1..n]
      <4>1. u.next \in [1..n -> {-1} \cup 1..n] /\ v.next = [u.next EXCEPT ![e] = a]
            /\ a \in {-1} \cup 1..n
        BY <1>1, <1>6
      <4>2. QED BY <4>1, ChangedTyped
    <3>3. v.last \in [1..n -> 1..n]
      <4>1. u.last \in [1..n -> 1..n] /\ v.last = [u.last EXCEPT ![b] = u.last[a]]
            /\ u.last[a] \in 1..n
        BY <1>1, <1>6
      <4>2. QED BY <4>1, ChangedTyped
    <3>4. QED BY <3>1, <3>2, <3>3
  <2>2. r \in [1..n -> 1..n] /\ q \in [1..n -> Nat]
    <3>1. \A z \in 1..n : (IF root[z] = a THEN b ELSE root[z]) \in 1..n
      BY <1>1
    <3>2. ASSUME NEW z \in 1..n PROVE (IF root[z] = a THEN pos[z] + m + 1 ELSE pos[z]) \in Nat
      <4>1. pos[z] \in Nat
        BY <1>9
      <4>2. QED BY <4>1
    <3>3. r \in [1..n -> 1..n]
      BY <1>7, <3>1
    <3>4. q \in [1..n -> Nat]
      BY <1>7, <3>2
    <3>5. QED BY <3>3, <3>4
  <2>3. QED BY <2>1, <2>2 DEF Fields
<1>13. Rooted(v, n, r, q)
  <2>1. \A z \in 1..n : r[r[z]] = r[z]
    BY <1>2, <1>8, <1>9
  <2>2. \A z \in 1..n : r[v.sets[z]] = r[z]
    <3>1. r[v.sets[a]] = r[a]
      BY <1>8
    <3>2. ASSUME NEW z \in 1..n, z # a PROVE r[v.sets[z]] = r[z]
      BY <1>2, <1>8, <1>9, <3>2
    <3>3. QED BY <3>1, <3>2
  <2>3. \A z \in 1..n : v.sets[z] = z => r[z] = z
    BY <1>2, <1>8, <1>9
  <2>4. ASSUME NEW z \in 1..n, v.sets[z] # z PROVE r[z] # z /\ q[v.sets[z]] < q[z]
    <3>1. CASE z = a
      <4>1. r[z] = b /\ v.sets[z] = b /\ q[b] = 0 /\ q[z] = m + 1
        BY <1>8, <1>11, <3>1
      <4>2. QED BY <3>1, <4>1
    <3>2. CASE z # a
      <4>1. v.sets[z] = u.sets[z] /\ u.sets[z] \in 1..n /\ root[z] # z
            /\ root[u.sets[z]] = root[z] /\ pos[u.sets[z]] < pos[z]
        BY <1>2, <1>8, <1>9, <2>4, <3>2
      <4>2. r[z] # z
        BY <1>8, <4>1
      <4>3. pos[z] \in Nat /\ pos[u.sets[z]] \in Nat
        BY <1>9, <4>1
      <4>4. q[u.sets[z]] < q[z]
        BY <1>8, <4>1, <4>3
      <4>5. QED BY <4>1, <4>2, <4>4
    <3>3. QED BY <3>1, <3>2
  <2>5. \A z \in 1..n : r[z] = z => q[z] = 0
    BY <1>2, <1>8
  <2>6. QED BY <2>1, <2>2, <2>3, <2>4, <2>5 DEF Rooted
<1>14. Placed(v, n, r, q)
  <2>1. ASSUME NEW y \in 1..n, NEW z \in 1..n, r[y] = r[z], q[y] = q[z] PROVE y = z
    <3>1. pos[y] \in Nat /\ pos[z] \in Nat
      BY <1>9
    <3>2. CASE root[y] = a /\ root[z] = a
      <4>1. pos[y] = pos[z]
        BY <1>8, <2>1, <3>1, <3>2
      <4>2. QED BY <1>3, <3>2, <4>1
    <3>3. CASE root[y] # a /\ root[z] # a
      BY <1>3, <1>8, <2>1, <3>3
    <3>4. CASE root[y] = a /\ root[z] # a
      <4>1. pos[z] <= m /\ pos[z] = pos[y] + m + 1
        BY <1>8, <1>10, <2>1, <3>4
      <4>2. QED BY <3>1, <4>1
    <3>5. CASE root[y] # a /\ root[z] = a
      <4>1. pos[y] <= m /\ pos[y] = pos[z] + m + 1
        BY <1>8, <1>10, <2>1, <3>5
      <4>2. QED BY <3>1, <4>1
    <3>6. QED BY <3>2, <3>3, <3>4, <3>5
  <2>2. ASSUME NEW y \in 1..n, NEW k \in 0..q[y] PROVE \E z \in 1..n : r[z] = r[y] /\ q[z] = k
    <3>0. pos[y] \in Nat
      BY <1>9
    <3>1. CASE root[y] # a
      <4>1. PICK z \in 1..n : root[z] = root[y] /\ pos[z] = k
        BY <1>3, <1>8, <3>1
      <4>2. QED BY <1>8, <3>1, <4>1
    <3>2. CASE root[y] = a /\ k <= m
      <4>1. PICK z \in 1..n : root[z] = root[e] /\ pos[z] = k
        <5>1. k \in 0..pos[e]
          BY <1>5, <3>2
        <5>2. QED BY <1>3, <5>1
      <4>2. root[z] = b /\ r[z] = b /\ q[z] = k
        BY <1>8, <1>10, <4>1
      <4>3. r[y] = b
        BY <1>8, <3>2
      <4>4. QED BY <4>2, <4>3
    <3>3. CASE root[y] = a /\ ~(k <= m)
      <4>1. q[y] = pos[y] + m + 1
        BY <1>8, <3>3
      <4>2. k - m - 1 \in 0..pos[y]
        BY <3>0, <3>3, <4>1
      <4>3. PICK z \in 1..n : root[z] = root[y] /\ pos[z] = k - m - 1
        BY <1>3, <4>2
      <4>4. q[z] = (k - m - 1) + m + 1
        BY <1>8, <3>3, <4>3
      <4>5. QED BY <1>8, <3>3, <4>3, <4>4
    <3>4. QED BY <3>1, <3>2, <3>3
  <2>3. ASSUME NEW y \in 1..n PROVE r[v.last[r[y]]] = r[y] /\ q[y] <= q[v.last[r[y]]]
    <3>0. pos[y] \in Nat
      BY <1>9
    <3>1. CASE r[y] = b
      <4>1. v.last[b] = u.last[a] /\ u.last[a] \in 1..n /\ root[u.last[a]] = a
        BY <1>3, <1>8, <1>9
      <4>2. r[u.last[a]] = b /\ q[u.last[a]] = pos[u.last[a]] + m + 1 /\ pos[u.last[a]] \in Nat
        BY <1>8, <1>9, <4>1
      <4>3. q[y] <= pos[u.last[a]] + m + 1
        <5>1. CASE root[y] = a
          <6>1. pos[y] <= pos[u.last[a]] /\ q[y] = pos[y] + m + 1
            BY <1>3, <1>8, <5>1
          <6>2. QED BY <3>0, <4>2, <6>1
        <5>2. CASE root[y] # a
          <6>1. root[y] = b /\ q[y] = pos[y] /\ pos[y] <= m
            BY <1>8, <1>10, <3>1, <5>2
          <6>2. QED BY <3>0, <4>2, <6>1
        <5>3. QED BY <5>1, <5>2
      <4>4. QED BY <3>1, <4>1, <4>2, <4>3
    <3>2. CASE r[y] # b
      <4>1. root[y] # a /\ root[y] # b /\ r[y] = root[y] /\ root[y] \in 1..n /\ q[y] = pos[y]
        BY <1>8, <1>9, <3>2
      <4>2. v.last[root[y]] = u.last[root[y]] /\ u.last[root[y]] \in 1..n
            /\ root[u.last[root[y]]] = root[y] /\ pos[y] <= pos[u.last[root[y]]]
        BY <1>3, <1>8, <1>9, <4>1
      <4>3. QED BY <1>8, <4>1, <4>2
    <3>3. QED BY <3>1, <3>2
  <2>4. QED BY <2>1, <2>2, <2>3 DEF Placed
<1>15. Chained(v, n, r, q)
  <2>1. ASSUME NEW y \in 1..n
        PROVE  IF v.next[y] = -1 THEN v.last[r[y]] = y
               ELSE r[v.next[y]] = r[y] /\ q[v.next[y]] = q[y] + 1
    <3>0. pos[y] \in Nat /\ root[y] \in 1..n
      BY <1>9
    <3>1. CASE y = e
      <4>1. v.next[y] = a /\ a # -1
        BY <1>8, <3>1
      <4>2. r[a] = b /\ r[y] = b /\ q[a] = m + 1 /\ q[y] = m
        BY <1>5, <1>8, <1>10, <1>11, <3>1
      <4>3. QED BY <4>1, <4>2
    <3>2. CASE y # e /\ u.next[y] = -1
      <4>1. v.next[y] = -1 /\ u.last[root[y]] = y
        BY <1>4, <1>8, <3>2
      <4>2. root[y] # b
        BY <1>5, <3>2, <4>1
      <4>3. v.last[r[y]] = y
        BY <1>8, <3>0, <4>1, <4>2
      <4>4. QED BY <4>1, <4>3
    <3>3. CASE y # e /\ u.next[y] # -1
      <4>1. v.next[y] = u.next[y] /\ u.next[y] \in 1..n
            /\ root[u.next[y]] = root[y] /\ pos[u.next[y]] = pos[y] + 1
        BY <1>4, <1>8, <1>9, <3>3
      <4>2. r[u.next[y]] = r[y]
        BY <1>8, <4>1
      <4>3. q[u.next[y]] = q[y] + 1
        <5>1. CASE root[y] = a
          <6>1. q[u.next[y]] = (pos[y] + 1) + m + 1 /\ q[y] = pos[y] + m + 1
            BY <1>8, <4>1, <5>1
          <6>2. QED BY <3>0, <6>1
        <5>2. CASE root[y] # a
          BY <1>8, <4>1, <5>2
        <5>3. QED BY <5>1, <5>2
      <4>4. QED BY <3>3, <4>1, <4>2, <4>3
    <3>4. QED BY <3>1, <3>2, <3>3
  <2>2. QED BY <2>1 DEF Chained
<1>16. Trees(v, n, r, q)
  BY <1>12, <1>13, <1>14, <1>15 DEF Trees
<1>17. QED BY <1>16 DEF v, r, q

LEMMA UnionIs ==
  ASSUME NEW u, NEW n \in Nat, NEW root, NEW pos, Trees(u, n, root, pos),
         NEW x \in 1..n, NEW y \in 1..n
  PROVE  UnionSets(u, x, y) = IF root[x] = root[y] THEN u ELSE Hung(u, root[x], root[y])
<1>1. FindRoot(u.sets, x) = root[x] /\ FindRoot(u.sets, y) = root[y]
  BY FindRootIs
<1>2. QED BY <1>1 DEF UnionSets, Hung

-----------------------------------------------------------------------------
(* What is merged is connected, and in the end what is connected is merged. *)

\* The roots tell ports apart that are not connected.
Sorting(d, ports, root) ==
  \A y, z \in 1..Len(ports) : root[y] = root[z] => Conn(d, None, ports[y], ports[z])
Grouped(u, d, ports, root) ==
  (\E pos : Trees(u, Len(ports), root, pos)) /\ Sorting(d, ports, root)

\* What had one root still has one; the ports of l have one.
Coarser(n, root, r) == \A y, z \in 1..n : root[y] = root[z] => r[y] = r[z]
Binding(ports, root, l) ==
  \A y, z \in 1..Len(ports) : ports[y] \in l /\ ports[z] \in l => root[y] = root[z]

LEMMA CoarserTwice ==
  ASSUME NEW n, NEW q, NEW r, NEW s, Coarser(n, q, r), Coarser(n, r, s)
  PROVE  Coarser(n, q, s)
BY DEF Coarser

LEMMA UnionGroups ==
  ASSUME NEW d, NEW ports, Len(ports) \in Nat, NEW u, NEW root, Grouped(u, d, ports, root),
         NEW x \in 1..Len(ports), NEW y \in 1..Len(ports), Conn(d, None, ports[x], ports[y])
  PROVE  \E r : /\ Grouped(UnionSets(u, x, y), d, ports, r)
                /\ Coarser(Len(ports), root, r) /\ r[x] = r[y]
<1>0. PICK n \in Nat : n = Len(ports)
  OBVIOUS
<1>1. PICK pos : Trees(u, n, root, pos)
  BY <1>0 DEF Grouped
<1>2. /\ root \in [1..n -> 1..n] /\ \A z \in 1..n : root[root[z]] = root[z]
      /\ \A v, z \in 1..n : root[v] = root[z] => Conn(d, None, ports[v], ports[z])
      /\ x \in 1..n /\ y \in 1..n
  BY <1>0, <1>1 DEF Trees, Fields, Rooted, Grouped, Sorting
<1>3. CASE root[x] = root[y]
  <2>1. UnionSets(u, x, y) = u
    BY <1>1, <1>2, <1>3, UnionIs
  <2>2. QED BY <1>3, <2>1 DEF Coarser
<1>4. CASE root[x] # root[y]
  <2>1. PICK a \in 1..n, b \in 1..n : a = root[x] /\ b = root[y]
    BY <1>2
  <2>2. a # b /\ root[a] = a /\ root[b] = b
    BY <1>2, <1>4, <2>1
  <2>3. UnionSets(u, x, y) = Hung(u, a, b)
    BY <1>1, <1>2, <1>4, <2>1, UnionIs
  <2>4. PICK r, p : r = HungRoot(n, root, a, b) /\ p = HungPos(u, n, root, pos, a, b)
    OBVIOUS
  <2>5. Trees(UnionSets(u, x, y), n, r, p)
    BY <1>1, <2>2, <2>3, <2>4, HungTrees
  <2>6. \A z \in 1..n : r[z] = IF root[z] = a THEN b ELSE root[z]
    BY <2>4 DEF HungRoot
  <2>7. \A z \in 1..n : root[z] = a => Conn(d, None, ports[z], ports[y])
    BY <1>2, <2>1, ConnEquivalence
  <2>8. ASSUME NEW v \in 1..n, NEW z \in 1..n, r[v] = r[z] PROVE Conn(d, None, ports[v], ports[z])
    <3>1. CASE root[v] = root[z]
      BY <1>2, <3>1
    <3>2. CASE root[v] = a /\ root[z] = b
      <4>1. Conn(d, None, ports[v], ports[y]) /\ Conn(d, None, ports[y], ports[z])
        BY <1>2, <2>1, <2>7, <3>2
      <4>2. QED BY <4>1, ConnEquivalence
    <3>3. CASE root[v] = b /\ root[z] = a
      <4>1. Conn(d, None, ports[z], ports[y]) /\ Conn(d, None, ports[v], ports[y])
        BY <1>2, <2>1, <2>7, <3>3
      <4>2. QED BY <4>1, ConnEquivalence
    <3>4. QED BY <2>6, <2>8, <3>1, <3>2, <3>3
  <2>9. Grouped(UnionSets(u, x, y), d, ports, r)
    BY <1>0, <2>5, <2>8 DEF Grouped, Sorting
  <2>10. Coarser(n, root, r)
    BY <2>6 DEF Coarser
  <2>11. r[x] = r[y]
    BY <1>2, <2>1, <2>2, <2>6
  <2>12. QED BY <1>0, <2>9, <2>10, <2>11
<1>5. QED BY <1>3, <1>4

LEMMA IndexOf ==
  ASSUME NEW ports, NEW S, Lists(ports, S), NEW p \in S
  PROVE  /\ IndexIn(ports, p) \in 1..Len(ports) /\ ports[IndexIn(ports, p)] = p
         /\ \A i \in 1..Len(ports) : ports[i] = p => i = IndexIn(ports, p)
<1>1. \E i \in 1..Len(ports) : ports[i] = p
  BY DEF Lists
<1>2. IndexIn(ports, p) \in 1..Len(ports) /\ ports[IndexIn(ports, p)] = p
  BY <1>1 DEF IndexIn
<1>3. DOMAIN ports = 1..Len(ports)
  BY LenProperties DEF Lists
<1>4. \A i, j \in 1..Len(ports) : ports[i] = ports[j] => i = j
  BY <1>3 DEF Lists, IsInjective
<1>5. QED BY <1>2, <1>4

\* The ports of a link are connected.
LEMMA LinkConnects ==
  ASSUME NEW d, Sound(d, {}), Open(d) = {}, NEW e \in d.ids,
         NEW p \in ToSet(PortsOf(d, e)), NEW q \in ToSet(PortsOf(d, e))
  PROVE  Conn(d, None, p, q)
<1>1. Typed(d)
  BY DEF Sound, Shape
<1>2. CASE d.cls[e] = "wire"
  <2>1. e \in Wires(d)
    BY <1>1, <1>2, Kinds
  <2>2. d.ends[e][2] # None /\ e # None
    BY <2>1, PortIsSome DEF Open, Sound
  <2>3. PICK a, b : a = d.ends[e][1] /\ b = d.ends[e][2]
    OBVIOUS
  <2>4. PortsOf(d, e) = <<a, b>>
    BY <1>2, <2>3, PortsOfIs
  <2>5. p \in {a, b} /\ q \in {a, b}
    BY <2>4 DEF ToSet
  <2>6. \A K : Closed(d, None, K) => (a \in K <=> b \in K)
    BY <2>1, <2>2, <2>3 DEF Closed
  <2>7. QED BY <2>5, <2>6 DEF Conn
<1>3. CASE d.cls[e] = "joint"
  <2>1. e \in Joints(d)
    BY <1>1, <1>3, Kinds
  <2>2. PICK x, y, z : /\ x # y /\ y # z /\ z # x
                       /\ d.subs[e] = <<x, y, z>>
                       /\ \A m : m \in {x, y, z} <=> m \in Ports(d) /\ d.owner[m] = e
    BY <2>1, ThreePorts
  <2>3. PortsOf(d, e) = <<x, y, z>>
    BY <1>3, <2>2, PortsOfIs
  <2>4. p \in {x, y, z} /\ q \in {x, y, z}
    BY <2>3 DEF ToSet
  <2>5. p \in Ports(d) /\ q \in Ports(d) /\ d.owner[p] = d.owner[q] /\ d.owner[p] \in Joints(d)
    BY <2>1, <2>2, <2>4
  <2>6. QED BY <2>5 DEF Conn, Closed
<1>4. CASE d.cls[e] \notin {"wire", "joint"}
  <2>1. PortsOf(d, e) = <<>>
    BY <1>4, PortsOfIs
  <2>2. QED BY <2>1 DEF ToSet
<1>5. QED BY <1>2, <1>3, <1>4

LEMMA LinkMergedIs ==
  ASSUME NEW d, NEW ports, NEW u, NEW e
  PROVE  /\ \A a, b : d.cls[e] = "wire" /\ PortsOf(d, e) = <<a, b>> =>
              LinkMerged(d, ports, u, e) = UnionSets(u, IndexIn(ports, b), IndexIn(ports, a))
         /\ \A x, y, z : d.cls[e] = "joint" /\ PortsOf(d, e) = <<x, y, z>> =>
              LinkMerged(d, ports, u, e) =
                UnionSets(UnionSets(UnionSets(u, IndexIn(ports, x), IndexIn(ports, y)),
                                    IndexIn(ports, x), IndexIn(ports, z)),
                          IndexIn(ports, y), IndexIn(ports, z))
         /\ d.cls[e] \notin {"wire", "joint"} => LinkMerged(d, ports, u, e) = u
<1>1. ASSUME NEW a, NEW b, d.cls[e] = "wire", PortsOf(d, e) = <<a, b>>
      PROVE  LinkMerged(d, ports, u, e) = UnionSets(u, IndexIn(ports, b), IndexIn(ports, a))
  BY <1>1 DEF LinkMerged
<1>2. ASSUME NEW x, NEW y, NEW z, d.cls[e] = "joint", PortsOf(d, e) = <<x, y, z>>
      PROVE  LinkMerged(d, ports, u, e) =
               UnionSets(UnionSets(UnionSets(u, IndexIn(ports, x), IndexIn(ports, y)),
                                   IndexIn(ports, x), IndexIn(ports, z)),
                         IndexIn(ports, y), IndexIn(ports, z))
  BY <1>2 DEF LinkMerged
<1>3. ASSUME d.cls[e] \notin {"wire", "joint"} PROVE LinkMerged(d, ports, u, e) = u
  BY <1>3 DEF LinkMerged
<1>4. QED BY <1>1, <1>2, <1>3

LEMMA LinkGroups ==
  ASSUME NEW d, Sound(d, {}), Open(d) = {}, NEW ports, NEW S, Lists(ports, S), NEW e \in d.ids,
         ToSet(PortsOf(d, e)) \subseteq S, NEW u, NEW root, Grouped(u, d, ports, root)
  PROVE  \E r : /\ Grouped(LinkMerged(d, ports, u, e), d, ports, r)
                /\ Coarser(Len(ports), root, r) /\ Binding(ports, r, ToSet(PortsOf(d, e)))
<1>0. PICK n \in Nat : n = Len(ports)
  BY LenProperties DEF Lists
<1>1. PICK l : l = ToSet(PortsOf(d, e))
  OBVIOUS
<1>2. /\ \A p \in l : IndexIn(ports, p) \in 1..n /\ ports[IndexIn(ports, p)] = p
      /\ \A p \in l : \A i \in 1..n : ports[i] = p => i = IndexIn(ports, p)
  BY <1>0, <1>1, IndexOf
<1>3. \A p, q \in l : Conn(d, None, p, q)
  BY <1>1, LinkConnects
<1>4. Typed(d)
  BY DEF Sound, Shape
<1>5. CASE d.cls[e] = "wire"
  <2>1. PICK a, b : PortsOf(d, e) = <<a, b>>
    BY <1>5, PortsOfIs
  <2>2. l = {a, b}
    BY <1>1, <2>1 DEF ToSet
  <2>3. PICK x, y : x = IndexIn(ports, b) /\ y = IndexIn(ports, a)
    OBVIOUS
  <2>4. /\ x \in 1..n /\ y \in 1..n /\ Conn(d, None, ports[x], ports[y])
        /\ \A i \in 1..n : ports[i] \in l => i \in {x, y}
    BY <1>2, <1>3, <2>2, <2>3
  <2>5. LinkMerged(d, ports, u, e) = UnionSets(u, x, y)
    BY <1>5, <2>1, <2>3, LinkMergedIs
  <2>6. PICK r : /\ Grouped(UnionSets(u, x, y), d, ports, r)
                 /\ Coarser(Len(ports), root, r) /\ r[x] = r[y]
    <3>1. Len(ports) \in Nat /\ x \in 1..Len(ports) /\ y \in 1..Len(ports)
      BY <1>0, <2>4
    <3>2. QED BY <2>4, <3>1, UnionGroups
  <2>7. Binding(ports, r, l)
    BY <1>0, <2>4, <2>6 DEF Binding
  <2>8. QED BY <1>1, <2>5, <2>6, <2>7
<1>6. CASE d.cls[e] = "joint"
  <2>0. e \in Joints(d)
    BY <1>4, <1>6, Kinds
  <2>1. PICK a, b, c : PortsOf(d, e) = <<a, b, c>>
    <3>1. PICK a, b, c : d.subs[e] = <<a, b, c>>
      BY <2>0, ThreePorts
    <3>2. QED BY <1>6, <3>1, PortsOfIs
  <2>2. l = {a, b, c}
    BY <1>1, <2>1 DEF ToSet
  <2>3. PICK x, y, z : x = IndexIn(ports, a) /\ y = IndexIn(ports, b) /\ z = IndexIn(ports, c)
    OBVIOUS
  <2>4. /\ x \in 1..n /\ y \in 1..n /\ z \in 1..n
        /\ Conn(d, None, ports[x], ports[y]) /\ Conn(d, None, ports[x], ports[z])
        /\ Conn(d, None, ports[y], ports[z])
        /\ \A i \in 1..n : ports[i] \in l => i \in {x, y, z}
    BY <1>2, <1>3, <2>2, <2>3
  <2>5. PICK u1, u2, u3 : u1 = UnionSets(u, x, y) /\ u2 = UnionSets(u1, x, z) /\ u3 = UnionSets(u2, y, z)
    OBVIOUS
  <2>6. LinkMerged(d, ports, u, e) = u3
    BY <1>6, <2>1, <2>3, <2>5, LinkMergedIs
  <2>7. PICK r1 : Grouped(u1, d, ports, r1) /\ Coarser(Len(ports), root, r1) /\ r1[x] = r1[y]
    BY <1>0, <2>4, <2>5, UnionGroups
  <2>8. PICK r2 : Grouped(u2, d, ports, r2) /\ Coarser(Len(ports), r1, r2) /\ r2[x] = r2[z]
    BY <1>0, <2>4, <2>5, <2>7, UnionGroups
  <2>9. PICK r3 : Grouped(u3, d, ports, r3) /\ Coarser(Len(ports), r2, r3) /\ r3[y] = r3[z]
    BY <1>0, <2>4, <2>5, <2>8, UnionGroups
  <2>10. Coarser(Len(ports), root, r3)
    BY <2>7, <2>8, <2>9, CoarserTwice
  <2>11. r3[x] = r3[z]
    BY <1>0, <2>4, <2>8, <2>9 DEF Coarser
  <2>12. Binding(ports, r3, l)
    BY <1>0, <2>4, <2>9, <2>11 DEF Binding
  <2>13. QED BY <1>1, <2>6, <2>9, <2>10, <2>12
<1>7. CASE d.cls[e] \notin {"wire", "joint"}
  <2>1. LinkMerged(d, ports, u, e) = u
    BY <1>7, LinkMergedIs
  <2>2. l = {}
    BY <1>1, <1>7, PortsOfIs DEF ToSet
  <2>3. Binding(ports, root, l) /\ Coarser(Len(ports), root, root)
    BY <2>2 DEF Binding, Coarser
  <2>4. QED BY <1>1, <2>1, <2>3
<1>8. QED BY <1>5, <1>6, <1>7

\* After i elements.
Grouping(u, d, ports, root, i) ==
  Grouped(u, d, ports, root)
    /\ \A k \in 1..i : Binding(ports, root, ToSet(PortsOf(d, d.elements[k])))

LEMMA MergedGroups ==
  ASSUME NEW d, Sound(d, {}), Open(d) = {},
         NEW ports, Lists(ports, Linked(d, Len(d.elements)))
  PROVE  \E r : Grouping(Merged(d, ports), d, ports, r, Len(d.elements))
<1>0. SUFFICES ASSUME NEW s, s = d.elements
               PROVE  \E r : Grouping(Merged(d, ports), d, ports, r, Len(s))
  OBVIOUS
<1>1. s \in Seq(d.ids) /\ Len(s) \in Nat /\ DOMAIN s = 1..Len(s) /\ \A i \in 1..Len(s) : s[i] \in d.ids
  <2>1. s \in Seq(d.ids)
    BY <1>0 DEF Sound, Shape, Listing
  <2>2. QED BY <2>1, LenProperties
<1>2. Len(ports) \in Nat
  BY LenProperties DEF Lists
<1>3. PICK b : b = Fresh(Len(ports))
  OBVIOUS
<1>a. PICK g : Merging(g, d, ports, s, b)
  BY <1>0, <1>1, <1>3, MergesFold
<1>4. /\ g[0] = b /\ \A i \in 1..Len(s) : g[i] = LinkMerged(d, ports, g[i - 1], s[i])
      /\ Merged(d, ports) = g[Len(s)]
  BY <1>a DEF Merging
<1> DEFINE T == {i \in 0..Len(s) : \E r : Grouping(g[i], d, ports, r, i)}
<1>5. 0 \in T
  <2>1. PICK root, pos : Trees(b, Len(ports), root, pos) /\ \A y \in 1..Len(ports) : root[y] = y
    BY <1>2, <1>3, FreshTrees
  <2>2. Sorting(d, ports, root)
    BY <2>1, ConnEquivalence DEF Sorting
  <2>3. Grouping(g[0], d, ports, root, 0)
    BY <1>4, <2>1, <2>2 DEF Grouping, Grouped
  <2>4. QED BY <1>1, <2>3
<1>6. ASSUME NEW i \in 1..Len(s), i - 1 \in T PROVE i \in T
  <2>1. PICK root : Grouping(g[i - 1], d, ports, root, i - 1)
    BY <1>6
  <2>2. ToSet(PortsOf(d, s[i])) \subseteq Linked(d, Len(s))
    BY <1>0 DEF Linked
  <2>3. s[i] \in d.ids /\ Grouped(g[i - 1], d, ports, root)
    BY <1>1, <2>1 DEF Grouping
  <2>4. PICK r : /\ Grouped(LinkMerged(d, ports, g[i - 1], s[i]), d, ports, r)
                 /\ Coarser(Len(ports), root, r) /\ Binding(ports, r, ToSet(PortsOf(d, s[i])))
    BY <1>0, <2>2, <2>3, LinkGroups
  <2>5. ASSUME NEW k \in 1..i PROVE Binding(ports, r, ToSet(PortsOf(d, s[k])))
    <3>1. CASE k = i
      BY <2>4, <3>1
    <3>2. CASE k # i
      <4>1. k \in 1..(i - 1)
        BY <1>1, <3>2
      <4>2. Binding(ports, root, ToSet(PortsOf(d, s[k])))
        BY <1>0, <2>1, <4>1 DEF Grouping
      <4>3. QED BY <2>4, <4>2 DEF Binding, Coarser
    <3>3. QED BY <3>1, <3>2
  <2>6. Grouping(g[i], d, ports, r, i)
    BY <1>0, <1>4, <2>4, <2>5 DEF Grouping
  <2>7. i \in 0..Len(s)
    BY <1>1
  <2>8. QED BY <2>6, <2>7
<1>7. Len(s) \in T
  <2> HIDE DEF T
  <2>1. \A i \in 0..Len(s) : i \in T
    BY <1>1, <1>5, <1>6, CountUp
  <2>2. QED BY <1>1, <2>1
<1>8. QED BY <1>4, <1>7

\* p is listed with the root x.
Amid(ports, n, root, x, p) == \E z \in 1..n : ports[z] = p /\ root[z] = x

\* In the end one root is one class of connected ports.
LEMMA RootsConnect ==
  ASSUME NEW d, Sound(d, {}), Open(d) = {},
         NEW ports, Lists(ports, Linked(d, Len(d.elements))),
         NEW u, NEW root, Grouping(u, d, ports, root, Len(d.elements)),
         NEW y \in 1..Len(ports), NEW q, Conn(d, None, ports[y], q)
  PROVE  Amid(ports, Len(ports), root, root[y], q)
<1>0. PICK n : n = Len(ports)
  OBVIOUS
<1> DEFINE C == {ports[z] : z \in {z \in 1..n : root[z] = root[y]}}
<1>1. \A p \in C : \E z \in 1..n : p = ports[z] /\ root[z] = root[y]
  OBVIOUS
<1>2. \A z \in 1..n : root[z] = root[y] => ports[z] \in C
  OBVIOUS
<1> HIDE DEF C
<1>3. Typed(d) /\ Listing(d)
  BY DEF Sound, Shape
<1>4. ASSUME NEW e \in d.ids, NEW a \in ToSet(PortsOf(d, e)), NEW b \in ToSet(PortsOf(d, e)), a \in C
      PROVE  b \in C
  <2>1. PICK k \in 1..Len(d.elements) : d.elements[k] = e
    BY <1>3 DEF Listing
  <2>2. Binding(ports, root, ToSet(PortsOf(d, e)))
    BY <2>1 DEF Grouping
  <2>3. b \in Linked(d, Len(d.elements))
    BY <2>1 DEF Linked
  <2>4. PICK v \in 1..n : ports[v] = b
    BY <1>0, <2>3 DEF Lists
  <2>5. PICK z \in 1..n : a = ports[z] /\ root[z] = root[y]
    BY <1>1, <1>4
  <2>6. root[v] = root[z]
    BY <1>0, <1>4, <2>2, <2>4, <2>5 DEF Binding
  <2>7. QED BY <1>2, <2>4, <2>5, <2>6
<1>5. ASSUME NEW v \in Wires(d), d.ends[v][2] # None
      PROVE  d.ends[v][1] \in C <=> d.ends[v][2] \in C
  <2>1. v \in d.ids /\ d.cls[v] = "wire"
    BY <1>3, Kinds
  <2>2. PICK a, b : a = d.ends[v][1] /\ b = d.ends[v][2]
    OBVIOUS
  <2>3. PortsOf(d, v) = <<a, b>>
    BY <2>1, <2>2, PortsOfIs
  <2>4. a \in ToSet(PortsOf(d, v)) /\ b \in ToSet(PortsOf(d, v))
    BY <2>3 DEF ToSet
  <2>5. QED BY <1>4, <2>1, <2>2, <2>4
<1>6. ASSUME NEW a \in Ports(d), NEW b \in Ports(d), d.owner[a] = d.owner[b], d.owner[a] \in Joints(d)
      PROVE  a \in C <=> b \in C
  <2>1. PICK j \in Joints(d) : j = d.owner[a]
    BY <1>6
  <2>2. j \in d.ids /\ d.cls[j] = "joint"
    BY <1>3, Kinds
  <2>3. PICK x, e, z : /\ x # e /\ e # z /\ z # x
                       /\ d.subs[j] = <<x, e, z>>
                       /\ \A m : m \in {x, e, z} <=> m \in Ports(d) /\ d.owner[m] = j
    BY ThreePorts
  <2>4. PortsOf(d, j) = <<x, e, z>>
    BY <2>2, <2>3, PortsOfIs
  <2>5. {x, e, z} \subseteq ToSet(PortsOf(d, j))
    BY <2>4 DEF ToSet
  <2>6. a \in {x, e, z} /\ b \in {x, e, z}
    BY <1>6, <2>1, <2>3
  <2>7. QED BY <1>4, <2>2, <2>5, <2>6
<1>7. Closed(d, None, C)
  BY <1>5, <1>6 DEF Closed
<1>8. ports[y] \in C
  BY <1>0, <1>2
<1>9. q \in C
  BY <1>7, <1>8 DEF Conn
<1>10. QED BY <1>0, <1>1, <1>9 DEF Amid

-----------------------------------------------------------------------------
(* The nodes.                                                               *)

\* The chains that m_nodes is read from.
Chaining(ports, u, n, f) ==
  f = [k \in 0..n |->
        [i \in {-1} \cup 1..n |->
           IF i = -1 \/ k = 0 THEN {} ELSE {ports[i]} \cup f[k - 1][u.next[i]]]]

LEMMA ChainExists ==
  ASSUME NEW ports, NEW n \in Nat, NEW u, u.next \in [1..n -> {-1} \cup 1..n]
  PROVE  \E f : Chaining(ports, u, n, f)
<1>0. PICK next : next = u.next
  OBVIOUS
<1>1. \A i \in 1..n : next[i] \in {-1} \cup 1..n
  BY <1>0
<1> DEFINE I == {-1} \cup 1..n
           V == [I -> SUBSET {ports[i] : i \in 1..n}]
           b == [i \in I |-> {}]
           G == [h \in V |-> [i \in I |-> IF i = -1 THEN {} ELSE {ports[i]} \cup h[next[i]]]]
<1>2. b \in V
  OBVIOUS
<1>3. G \in [V -> V]
  <2>1. ASSUME NEW h \in V, NEW i \in I
        PROVE  (IF i = -1 THEN {} ELSE {ports[i]} \cup h[next[i]]) \in SUBSET {ports[j] : j \in 1..n}
    <3>1. CASE i = -1
      BY <3>1
    <3>2. CASE i # -1
      <4>1. i \in 1..n /\ next[i] \in I
        BY <1>1, <3>2
      <4>2. h[next[i]] \in SUBSET {ports[j] : j \in 1..n}
        BY <4>1
      <4>3. ports[i] \in {ports[j] : j \in 1..n}
        BY <4>1
      <4>4. QED BY <3>2, <4>2, <4>3
    <3>3. QED BY <3>1, <3>2
  <2>2. QED BY <2>1
<1>4. PICK f \in [0..n -> V] : Iteration(f, b, G, n)
  <2> HIDE DEF V, b, G
  <2>1. QED BY <1>2, <1>3, Iterates
<1>5. ASSUME NEW k \in 0..n
      PROVE  f[k] = [i \in I |-> IF i = -1 \/ k = 0 THEN {} ELSE {ports[i]} \cup f[k - 1][next[i]]]
  <2>1. CASE k = 0
    <3>1. f[0] = b
      BY <1>4 DEF Iteration
    <3>2. QED BY <2>1, <3>1
  <2>2. CASE k # 0
    <3>1. k \in 1..n /\ k - 1 \in 0..n
      BY <2>2
    <3>2. f[k] = G[f[k - 1]] /\ f[k - 1] \in V
      BY <1>4, <3>1 DEF Iteration
    <3>3. f[k] = [i \in I |-> IF i = -1 THEN {} ELSE {ports[i]} \cup f[k - 1][next[i]]]
      <4> HIDE DEF V, I
      <4>1. QED BY <3>2
    <3>4. QED BY <2>2, <3>3
  <2>3. QED BY <2>1, <2>2
<1>6. f = [k \in 0..n |-> f[k]]
  BY <1>4
<1>7. f = [k \in 0..n |->
            [i \in I |-> IF i = -1 \/ k = 0 THEN {} ELSE {ports[i]} \cup f[k - 1][next[i]]]]
  <2> HIDE DEF V, b, G, I
  <2>1. QED BY <1>5, <1>6
<1>8. Chaining(ports, u, n, f)
  BY <1>0, <1>7 DEF Chaining
<1>9. QED BY <1>8

\* The chain of a root lists its tree.
LEMMA ChainIs ==
  ASSUME NEW ports, NEW u, NEW n \in Nat, NEW root, NEW pos, Trees(u, n, root, pos),
         NEW f, Chaining(ports, u, n, f), NEW x \in 1..n, root[x] = x, NEW p
  PROVE  p \in f[n][x] <=> Amid(ports, n, root, x, p)
<1>1. /\ pos \in [1..n -> Nat] /\ u.next \in [1..n -> {-1} \cup 1..n]
      /\ \A y \in 1..n : pos[y] \in Nat
  BY DEF Trees, Fields
<1>2. /\ \A y, z \in 1..n : root[y] = root[z] /\ pos[y] = pos[z] => y = z
      /\ \A y \in 1..n : pos[y] <= pos[u.last[root[y]]]
  BY DEF Trees, Placed
<1>3. \A y \in 1..n : IF u.next[y] = -1 THEN u.last[root[y]] = y
                      ELSE root[u.next[y]] = root[y] /\ pos[u.next[y]] = pos[y] + 1
  BY DEF Trees, Chained
<1>4. \A k \in 0..n : \A i \in {-1} \cup 1..n :
        f[k][i] = IF i = -1 \/ k = 0 THEN {} ELSE {ports[i]} \cup f[k - 1][u.next[i]]
  <2>1. ASSUME NEW k \in 0..n
        PROVE  f[k] = [i \in {-1} \cup 1..n |->
                         IF i = -1 \/ k = 0 THEN {} ELSE {ports[i]} \cup f[k - 1][u.next[i]]]
    BY DEF Chaining
  <2>2. ASSUME NEW k \in 0..n, NEW i \in {-1} \cup 1..n
        PROVE  f[k][i] = IF i = -1 \/ k = 0 THEN {} ELSE {ports[i]} \cup f[k - 1][u.next[i]]
    <3>1. PICK g : g = f[k]
      OBVIOUS
    <3>2. g = [j \in {-1} \cup 1..n |->
                 IF j = -1 \/ k = 0 THEN {} ELSE {ports[j]} \cup f[k - 1][u.next[j]]]
      BY <2>1, <3>1
    <3>3. g[i] = IF i = -1 \/ k = 0 THEN {} ELSE {ports[i]} \cup f[k - 1][u.next[i]]
      BY <3>2
    <3>4. QED BY <3>1, <3>3
  <2>3. QED BY <2>2
<1> DEFINE At(k, i, m) == \E z \in 1..n : /\ m = ports[z] /\ root[z] = root[i]
                                          /\ pos[i] <= pos[z] /\ pos[z] < pos[i] + k
           T == {k \in 0..n : \A i \in 1..n : \A m : m \in f[k][i] <=> At(k, i, m)}
<1>5. 0 \in T
  <2>1. ASSUME NEW i \in 1..n, NEW m PROVE m \in f[0][i] <=> At(0, i, m)
    <3>1. f[0][i] = {}
      <4>1. 0 \in 0..n /\ i \in {-1} \cup 1..n
        OBVIOUS
      <4>2. QED BY <1>4, <4>1
    <3>2. \A z \in 1..n : ~(pos[i] <= pos[z] /\ pos[z] < pos[i] + 0)
      BY <1>1
    <3>3. QED BY <3>1, <3>2
  <2>2. QED BY <2>1
<1>6. ASSUME NEW k \in 1..n, k - 1 \in T PROVE k \in T
  <2>1. ASSUME NEW i \in 1..n, NEW m PROVE m \in f[k][i] <=> At(k, i, m)
    <3>1. f[k][i] = {ports[i]} \cup f[k - 1][u.next[i]]
      <4>1. k \in 0..n /\ k # 0 /\ i \in {-1} \cup 1..n /\ i # -1
        OBVIOUS
      <4>2. QED BY <1>4, <4>1
    <3>2. pos[i] \in Nat
      BY <1>1
    <3>3. CASE u.next[i] = -1
      <4>1. f[k][i] = {ports[i]}
        <5>1. k - 1 \in 0..n
          OBVIOUS
        <5>2. f[k - 1][u.next[i]] = {}
          BY <1>4, <3>3, <5>1
        <5>3. QED BY <3>1, <5>2
      <4>2. u.last[root[i]] = i
        BY <1>3, <3>3
      <4>3. ASSUME NEW z \in 1..n, root[z] = root[i], pos[i] <= pos[z] PROVE z = i
        <5>1. pos[z] <= pos[i] /\ pos[z] \in Nat
          BY <1>1, <1>2, <4>2, <4>3
        <5>2. pos[z] = pos[i]
          BY <3>2, <4>3, <5>1
        <5>3. QED BY <1>2, <4>3, <5>2
      <4>4. At(k, i, m) <=> m = ports[i]
        <5>1. pos[i] <= pos[i] /\ pos[i] < pos[i] + k
          BY <3>2
        <5>2. QED BY <4>3, <5>1
      <4>5. QED BY <4>1, <4>4
    <3>4. CASE u.next[i] # -1
      <4>1. PICK j \in 1..n : j = u.next[i] /\ root[j] = root[i] /\ pos[j] = pos[i] + 1
        <5>1. u.next[i] \in {-1} \cup 1..n
          BY <1>1
        <5>2. QED BY <1>3, <3>4, <5>1
      <4>2. m \in f[k][i] <=> m = ports[i] \/ At(k - 1, j, m)
        BY <1>6, <3>1, <4>1
      <4>3. ASSUME NEW z \in 1..n, root[z] = root[i]
            PROVE  pos[i] <= pos[z] /\ pos[z] < pos[i] + k
                     <=> z = i \/ (pos[j] <= pos[z] /\ pos[z] < pos[j] + (k - 1))
        <5>1. pos[z] \in Nat
          BY <1>1
        <5>2. pos[z] = pos[i] <=> z = i
          BY <1>2, <4>3
        <5>3. QED BY <3>2, <4>1, <5>1, <5>2
      <4>4. At(k, i, m) => m = ports[i] \/ At(k - 1, j, m)
        BY <4>1, <4>3
      <4>5. m = ports[i] => At(k, i, m)
        BY <4>3
      <4>6. At(k - 1, j, m) => At(k, i, m)
        BY <4>1, <4>3
      <4>7. QED BY <4>2, <4>4, <4>5, <4>6
    <3>5. QED BY <3>3, <3>4
  <2>2. QED BY <2>1
<1>7. n \in T
  <2> HIDE DEF T
  <2>1. \A k \in 0..n : k \in T
    BY <1>5, <1>6, CountUp
  <2>2. QED BY <2>1
<1>8. p \in f[n][x] <=> At(n, x, p)
  BY <1>7
<1>9. pos[x] = 0
  BY DEF Trees, Rooted
<1>10. ASSUME NEW z \in 1..n PROVE pos[x] <= pos[z] /\ pos[z] < pos[x] + n
  <2>1. pos[z] \in 0..(n - 1)
    BY PlaceBound
  <2>2. QED BY <1>9, <2>1
<1>11. QED BY <1>8, <1>9, <1>10 DEF Amid

\* A node is what is connected to a port.
Nodes(d, ports, u, f) ==
  {{p \in f[Len(ports)][x] : d.cls[p] = "pin"} : x \in {y \in 1..Len(ports) : u.sets[y] = y}} \ {{}}

LEMMA NodesAre ==
  ASSUME NEW d, Sound(d, {}), Open(d) = {}, NEW ports, Lists(ports, Linked(d, Len(d.elements))),
         \A p \in Linked(d, Len(d.elements)) : p \in Ports(d),
         NEW u, NEW root, Grouping(u, d, ports, root, Len(d.elements)),
         NEW f, Chaining(ports, u, Len(ports), f)
  PROVE  Nodes(d, ports, u, f) = {Class(d, None, p) : p \in Linked(d, Len(d.elements))} \ {{}}
<1>0. PICK n \in Nat : n = Len(ports)
  BY LenProperties DEF Lists
<1>1. PICK pos : Trees(u, n, root, pos)
  BY <1>0 DEF Grouping, Grouped
<1>2. /\ root \in [1..n -> 1..n] /\ \A z \in 1..n : root[root[z]] = root[z]
      /\ \A y \in 1..n : u.sets[y] = y <=> root[y] = y
  BY <1>1 DEF Trees, Fields, Rooted
<1>3. \A y, z \in 1..n : root[y] = root[z] => Conn(d, None, ports[y], ports[z])
  BY <1>0 DEF Grouping, Grouped, Sorting
<1>4. PICK L : L = Linked(d, Len(d.elements))
  OBVIOUS
<1>5. (\A i \in 1..n : ports[i] \in L) /\ (\A p \in L : \E i \in 1..n : ports[i] = p)
  BY <1>0, <1>4, LenProperties DEF Lists
<1>6. ASSUME NEW x \in 1..n, root[x] = x
      PROVE  {p \in f[n][x] : d.cls[p] = "pin"} = Class(d, None, ports[x])
  <2>1. ASSUME NEW p PROVE p \in f[n][x] <=> \E z \in 1..n : p = ports[z] /\ root[z] = x
    <3>1. Chaining(ports, u, n, f)
      BY <1>0
    <3>2. p \in f[n][x] <=> Amid(ports, n, root, x, p)
      BY <1>1, <1>6, <3>1, ChainIs
    <3>3. QED BY <3>2 DEF Amid
  <2>2. ASSUME NEW p \in f[n][x], d.cls[p] = "pin" PROVE p \in Class(d, None, ports[x])
    <3>1. PICK z \in 1..n : p = ports[z] /\ root[z] = x
      BY <2>1
    <3>2. Conn(d, None, ports[x], p)
      BY <1>3, <1>6, <3>1
    <3>3. p \in Ports(d)
      BY <1>4, <1>5, <3>1
    <3>4. p \in Pins(d)
      BY <2>2, <3>3 DEF Ports, Pins, Of
    <3>5. QED BY <3>2, <3>4 DEF Class
  <2>3. ASSUME NEW p \in Class(d, None, ports[x]) PROVE p \in f[n][x] /\ d.cls[p] = "pin"
    <3>1. p \in Pins(d) /\ Conn(d, None, ports[x], p)
      BY DEF Class
    <3>2. PICK z \in 1..Len(ports) : ports[z] = p /\ root[z] = root[x]
      <4>1. x \in 1..Len(ports)
        BY <1>0
      <4>2. Amid(ports, Len(ports), root, root[x], p)
        BY <3>1, <4>1, RootsConnect
      <4>3. QED BY <4>2 DEF Amid
    <3>3. p \in f[n][x]
      BY <1>0, <1>6, <2>1, <3>2
    <3>4. d.cls[p] = "pin"
      BY <3>1 DEF Pins, Of
    <3>5. QED BY <3>3, <3>4
  <2>4. QED BY <2>2, <2>3
<1>7. ASSUME NEW y \in 1..n PROVE Class(d, None, ports[y]) = Class(d, None, ports[root[y]])
  <2>1. Conn(d, None, ports[y], ports[root[y]])
    BY <1>2, <1>3
  <2>2. \A q : Conn(d, None, ports[y], q) <=> Conn(d, None, ports[root[y]], q)
    BY <2>1, ConnEquivalence
  <2>3. QED BY <2>2 DEF Class
<1>8. ASSUME NEW N \in Nodes(d, ports, u, f)
      PROVE  N \in {Class(d, None, p) : p \in L} \ {{}}
  <2>1. PICK x \in 1..n : u.sets[x] = x /\ N = {p \in f[n][x] : d.cls[p] = "pin"} /\ N # {}
    BY <1>0 DEF Nodes
  <2>2. N = Class(d, None, ports[x])
    BY <1>2, <1>6, <2>1
  <2>3. QED BY <1>5, <2>1, <2>2
<1>9. ASSUME NEW N \in {Class(d, None, p) : p \in L} \ {{}}
      PROVE  N \in Nodes(d, ports, u, f)
  <2>1. PICK p \in L : N = Class(d, None, p) /\ N # {}
    OBVIOUS
  <2>2. PICK y \in 1..n : ports[y] = p
    BY <1>5
  <2>3. PICK x \in 1..n : x = root[y] /\ root[x] = x /\ u.sets[x] = x
    BY <1>2
  <2>4. N = {q \in f[n][x] : d.cls[q] = "pin"}
    BY <1>6, <1>7, <2>1, <2>2, <2>3
  <2>5. QED BY <1>0, <2>1, <2>3, <2>4 DEF Nodes
<1>10. QED BY <1>4, <1>8, <1>9

\* Every port of a link is at the end of a wire.
LEMMA LinkedPorts ==
  ASSUME NEW d, Sound(d, {}), Open(d) = {}, NEW p \in Linked(d, Len(d.elements))
  PROVE  /\ p \in Ports(d) /\ d.wire[p] \in Wires(d) /\ d.ends[d.wire[p]][2] # None
         /\ Ends(d, d.wire[p], p, d.opp[p])
<1>1. Typed(d) /\ Listing(d)
  BY DEF Sound, Shape
<1>2. PICK e : e \in d.ids /\ p \in ToSet(PortsOf(d, e))
  <2>1. PICK k \in 1..Len(d.elements) : p \in ToSet(PortsOf(d, d.elements[k]))
    BY DEF Linked
  <2>2. d.elements[k] \in d.ids
    <3>1. d.elements \in Seq(d.ids)
      BY <1>1 DEF Listing
    <3>2. QED BY <3>1, LenProperties
  <2>3. QED BY <2>1, <2>2
<1>3. CASE d.cls[e] = "wire"
  <2>1. e \in Wires(d)
    BY <1>1, <1>2, <1>3, Kinds
  <2>2. d.ends[e][2] # None
    BY <2>1 DEF Open
  <2>3. PICK a, b : a = d.ends[e][1] /\ b = d.ends[e][2]
    OBVIOUS
  <2>4. PortsOf(d, e) = <<a, b>>
    BY <1>2, <1>3, <2>3, PortsOfIs
  <2>5. p \in {a, b}
    BY <1>2, <2>4 DEF ToSet
  <2>6. Ends(d, e, a, b) /\ Ends(d, e, b, a)
    BY <2>3 DEF Ends
  <2>7. PICK q : Ends(d, e, p, q)
    BY <2>5, <2>6
  <2>8. p \in Ports(d) /\ d.wire[p] = e /\ d.opp[p] = q
    BY <2>1, <2>2, <2>7, WireEnds
  <2>9. QED BY <2>1, <2>2, <2>7, <2>8
<1>4. CASE d.cls[e] = "joint"
  <2>1. e \in Joints(d)
    BY <1>1, <1>2, <1>4, Kinds
  <2>2. PICK x, y, z : /\ x # y /\ y # z /\ z # x
                       /\ d.subs[e] = <<x, y, z>>
                       /\ \A m : m \in {x, y, z} <=> m \in Ports(d) /\ d.owner[m] = e
    BY <2>1, ThreePorts
  <2>3. PortsOf(d, e) = <<x, y, z>>
    BY <1>2, <1>4, <2>2, PortsOfIs
  <2>4. p \in {x, y, z}
    BY <1>2, <2>3 DEF ToSet
  <2>5. p \in Ports(d) /\ d.owner[p] \in Joints(d)
    BY <2>1, <2>2, <2>4
  <2>6. QED BY <2>5, JointEnds
<1>5. CASE d.cls[e] \notin {"wire", "joint"}
  <2>1. PortsOf(d, e) = <<>>
    BY <1>2, <1>5, PortsOfIs
  <2>2. QED BY <1>2, <2>1 DEF ToSet
<1>6. QED BY <1>3, <1>4, <1>5

\* A wired pin is a port of a link.
LEMMA WiredLinked ==
  ASSUME NEW d, Sound(d, {}), NEW p \in Pins(d), d.wire[p] # None
  PROVE  p \in Linked(d, Len(d.elements))
<1>1. Typed(d) /\ Listing(d)
  BY DEF Sound, Shape
<1>2. p \in Ports(d)
  BY DEF Ports, Pins, Of
<1>3. d.wire[p] \in Wires(d) /\ p \in {d.ends[d.wire[p]][1], d.ends[d.wire[p]][2]}
  BY <1>2 DEF Sound, Plugged
<1>4. PICK w \in Wires(d) : w = d.wire[p]
  BY <1>3
<1>5. PICK a, b : a = d.ends[w][1] /\ b = d.ends[w][2]
  OBVIOUS
<1>6. w \in d.ids /\ d.cls[w] = "wire"
  BY <1>1, Kinds
<1>7. PortsOf(d, w) = <<a, b>>
  BY <1>5, <1>6, PortsOfIs
<1>8. p \in ToSet(PortsOf(d, w))
  BY <1>3, <1>4, <1>5, <1>7 DEF ToSet
<1>9. PICK k \in 1..Len(d.elements) : d.elements[k] = w
  BY <1>1, <1>6 DEF Listing
<1>10. QED BY <1>8, <1>9 DEF Linked

LEMMA SidesConnect ==
  ASSUME NEW d, Shape(d), NEW w \in Wires(d), w # None, d.ends[w][2] # None, NEW s, NEW e, Ends(d, w, s, e)
  PROVE  /\ Conn(d, None, s, e)
         /\ \A p, q : Conn(d, w, p, q) => Conn(d, None, p, q)
<1>1. \A K : Closed(d, None, K) => Closed(d, w, K)
  <2>1. None \notin Wires(d)
    BY PortIsSome
  <2>2. QED BY <2>1 DEF Closed
<1>2. \A p, q : Conn(d, w, p, q) => Conn(d, None, p, q)
  BY <1>1 DEF Conn
<1>3. \A K : Closed(d, None, K) => (s \in K <=> e \in K)
  BY DEF Closed, Ends
<1>4. QED BY <1>2, <1>3 DEF Conn

LEMMA TwoPins ==
  ASSUME NEW n, IsFiniteSet(n), NEW p \in n, NEW q \in n, p # q
  PROVE  Cardinality(n) > 1
<1>1. IsFiniteSet({p}) /\ Cardinality({p}) = 1 /\ q \notin {p}
  BY FS_Singleton
<1>2. IsFiniteSet({p} \cup {q}) /\ Cardinality({p} \cup {q}) = 2
  BY <1>1, FS_AddElement
<1>3. {p} \cup {q} \subseteq n
  OBVIOUS
<1>4. Cardinality({p} \cup {q}) <= Cardinality(n)
  BY <1>3, FS_Subset
<1>5. Cardinality(n) \in Nat
  BY FS_CardinalityType
<1>6. QED BY <1>2, <1>4, <1>5

\* The nets of more than one pin are those that a port of a link is in.
LEMMA NetsOfLinks ==
  ASSUME NEW d, Sound(d, {}), Open(d) = {}
  PROVE  {Class(d, None, p) : p \in Linked(d, Len(d.elements))} \ {{}}
           = {n \in Partition(d, None) : Cardinality(n) > 1}
<1>1. PICK L : L = Linked(d, Len(d.elements))
  OBVIOUS
<1>2. ASSUME NEW p \in L
      PROVE  Class(d, None, p) \in {n \in Partition(d, None) : Cardinality(n) > 1}
  <2>1. PICK w, e : w \in Wires(d) /\ d.ends[w][2] # None /\ Ends(d, w, p, e)
    BY <1>1, LinkedPorts
  <2>2. Ends(d, w, e, p)
    BY <2>1 DEF Ends
  <2>3. w # None
    BY <2>1, WireEnds
  <2>4. PICK x \in Pins(d) : Conn(d, w, p, x)
    BY <2>1, HasPin
  <2>5. PICK y \in Pins(d) : Conn(d, w, e, y)
    BY <2>1, <2>2, HasPin
  <2>6. ~Conn(d, w, p, e)
    BY <2>1, SidesApart
  <2>7. x # y
    BY <2>4, <2>5, <2>6, ConnEquivalence
  <2>8. Conn(d, None, p, e) /\ Conn(d, None, p, x) /\ Conn(d, None, e, y)
    <3>1. Shape(d)
      BY DEF Sound
    <3>2. QED BY <2>1, <2>3, <2>4, <2>5, <3>1, SidesConnect
  <2>9. Conn(d, None, p, y)
    BY <2>8, ConnEquivalence
  <2>10. x \in Class(d, None, p) /\ y \in Class(d, None, p)
    BY <2>8, <2>9 DEF Class
  <2>11. IsFiniteSet(Class(d, None, p))
    <3>1. Class(d, None, p) \subseteq Pins(d) /\ IsFiniteSet(Pins(d))
      BY JointsFinite DEF Class, Sound
    <3>2. QED BY <3>1, FS_Subset
  <2>12. Cardinality(Class(d, None, p)) > 1
    BY <2>7, <2>10, <2>11, TwoPins
  <2>13. Class(d, None, p) = Class(d, None, x)
    BY <2>10, SameClass
  <2>14. Class(d, None, p) \in Partition(d, None)
    BY <2>13 DEF Partition
  <2>15. QED BY <2>12, <2>14
<1>3. ASSUME NEW n \in Partition(d, None), Cardinality(n) > 1
      PROVE  n \in {Class(d, None, p) : p \in L} \ {{}}
  <2>1. PICK p \in Pins(d) : n = Class(d, None, p)
    BY DEF Partition
  <2>2. p \in n
    BY <2>1, ClassOf
  <2>3. CASE d.wire[p] = None
    <3>1. Closed(d, None, {p})
      BY <2>3, PinClosed
    <3>2. ASSUME NEW q \in n PROVE q = p
      <4>1. Conn(d, None, p, q)
        BY <2>1 DEF Class
      <4>2. q \in {p}
        BY <3>1, <4>1 DEF Conn
      <4>3. QED BY <4>2
    <3>3. n = {p}
      BY <2>2, <3>2
    <3>4. Cardinality(n) = 1
      BY <3>3, FS_Singleton
    <3>5. QED BY <1>3, <3>4
  <2>4. CASE d.wire[p] # None
    <3>1. p \in L
      BY <1>1, <2>4, WiredLinked
    <3>2. QED BY <2>1, <2>2, <3>1
  <2>5. QED BY <2>3, <2>4
<1>4. \A p \in L : Class(d, None, p) # {}
  <2>1. ASSUME NEW p \in L PROVE Class(d, None, p) # {}
    <3>1. Class(d, None, p) \in Partition(d, None)
      BY <1>2
    <3>2. QED BY <3>1, ClassOf
  <2>2. QED BY <2>1
<1>5. QED BY <1>1, <1>2, <1>3, <1>4

LEMMA GeneratedNets ==
  ASSUME NEW d, Sound(d, {}), Open(d) = {}
  PROVE  GenerateNetlist(d) = {n \in Partition(d, None) : Cardinality(n) > 1}
<1>1. PICK ports, u : ports = Extracted(d) /\ u = Merged(d, ports)
  OBVIOUS
<1>2. Lists(ports, Linked(d, Len(d.elements)))
  BY <1>1, ExtractedLists
<1>3. PICK root : Grouping(u, d, ports, root, Len(d.elements))
  BY <1>1, <1>2, MergedGroups
<1>4. PICK n \in Nat : n = Len(ports)
  BY <1>2, LenProperties DEF Lists
<1>5. PICK pos : Trees(u, n, root, pos)
  BY <1>3, <1>4 DEF Grouping, Grouped
<1>6. u.next \in [1..n -> {-1} \cup 1..n]
  BY <1>5 DEF Trees, Fields
<1> DEFINE f == CHOOSE f : f = [k \in 0..n |->
                   [i \in {-1} \cup 1..n |->
                      IF i = -1 \/ k = 0 THEN {} ELSE {ports[i]} \cup f[k - 1][u.next[i]]]]
<1>7. Chaining(ports, u, n, f)
  <2>1. PICK g : Chaining(ports, u, n, g)
    BY <1>6, ChainExists
  <2>2. QED BY <2>1 DEF Chaining
<1>8. GenerateNetlist(d) = Nodes(d, ports, u, f)
  BY <1>1, <1>4 DEF GenerateNetlist, Nodes
<1> HIDE DEF f
<1>9. \A p \in Linked(d, Len(d.elements)) : p \in Ports(d)
  BY LinkedPorts
<1>10. Nodes(d, ports, u, f) = {Class(d, None, p) : p \in Linked(d, Len(d.elements))} \ {{}}
  BY <1>2, <1>3, <1>4, <1>7, <1>9, NodesAre
<1>11. QED BY <1>8, <1>10, NetsOfLinks

LEMMA NetInvConnectivity ==
  NetInv => NetlistIsConnectivity
<1>1. SUFFICES ASSUME NetInv, hint = freed
               PROVE  GenerateNetlist(doc) = {n \in nets : Cardinality(n) > 1}
  BY DEF NetlistIsConnectivity
<1>2. Sound(doc, {}) /\ Open(doc) = {} /\ nets = PinNets(doc)
  BY <1>1 DEF NetInv, Inv, Intact
<1>3. nets = Partition(doc, None)
  BY <1>2, PinNetsPartition
<1>4. GenerateNetlist(doc) = {n \in Partition(doc, None) : Cardinality(n) > 1}
  BY <1>2, GeneratedNets
<1>5. QED BY <1>3, <1>4

\* However a schema was drawn and edited, short of deleting a part alone,
\* generateNetlist makes its nodes out of exactly the nets of more than one pin: the
\* union-find merges what wires and joints connect and nothing else, and no chain
\* loses a port.
THEOREM NodesAreNets == NetSpec => []NetlistIsConnectivity
<1>1. NetInv /\ [NetNext]_<<vars, nets>> => NetInv'
  BY NetNextInv
<1>2. QED BY <1>1, NetInitInv, NetInvConnectivity, PTL DEF NetSpec
=============================================================================
