------------------------------ MODULE Netlist ------------------------------
(***************************************************************************)
(* SchemaSheet::generateNetlist: the union-find that groups the ports of a   *)
(* document into the nodes of a circuit.                                    *)
(*                                                                         *)
(* An index of a port is kept in a char; CharMax is CHAR_MAX.  Path          *)
(* compression changes no root and is left out.                             *)
(***************************************************************************)
EXTENDS Schema

CONSTANT CharMax   \* CHAR_MAX: 127

ASSUME CharAssumption == CharMax \in Nat \ {0}

VARIABLE nets      \* history: the nets of the document, PinNets(doc)

\* The ports an element brings: the ends of a wire, the ports of a joint.
PortsOf(d, e) ==
  CASE d.cls[e] = "wire"  -> d.ends[e]
    [] d.cls[e] = "joint" -> d.subs[e]
    [] OTHER              -> <<>>

\* Ports in the order the loop over the elements meets them; ports[i] has index i.
Extracted(d) ==
  LET Add(ps, p) == IF p \in ToSet(ps) THEN ps ELSE Append(ps, p)
  IN  FoldLeft(LAMBDA ps, e : FoldLeft(Add, ps, PortsOf(d, e)), <<>>, d.elements)

\* setsFind.
FindRoot(sets, x) ==
  LET up[k \in 0..Len(sets)] ==
        [y \in 1..Len(sets) |-> IF sets[y] = y \/ k = 0 THEN y ELSE up[k - 1][sets[y]]]
  IN  up[Len(sets)][x]

\* unionSets: the chain of x is hung behind the last member of the chain of y.  A
\* mutated form does not move the end of the chain.
UnionForgetful(u, x, y) ==
  LET fx == FindRoot(u.sets, x)
      fy == FindRoot(u.sets, y)
  IN  IF fx = fy THEN u
      ELSE [u EXCEPT !.sets[fx] = fy, !.next[u.last[fy]] = fx]
UnionSets(u, x, y) ==
  LET fx == FindRoot(u.sets, x)
      fy == FindRoot(u.sets, y)
  IN  IF fx = fy THEN u
      ELSE [sets |-> [u.sets EXCEPT ![fx] = fy],
            next |-> [u.next EXCEPT ![u.last[fy]] = fx],
            last |-> [u.last EXCEPT ![fy] = u.last[fx]]]

\* The second loop over the elements.
Merged(d, ports) ==
  LET Index(p) == CHOOSE i \in 1..Len(ports) : ports[i] = p
      fresh == [sets |-> [i \in 1..Len(ports) |-> i], next |-> [i \in 1..Len(ports) |-> -1],
                last |-> [i \in 1..Len(ports) |-> i]]
      Merge(u, e) ==
        LET q == [k \in DOMAIN PortsOf(d, e) |-> Index(PortsOf(d, e)[k])]
        IN  CASE d.cls[e] = "wire"  -> UnionSets(u, q[2], q[1])
              [] d.cls[e] = "joint" ->
                   UnionSets(UnionSets(UnionSets(u, q[1], q[2]), q[1], q[3]), q[2], q[3])
              [] OTHER              -> u
  IN  FoldLeft(Merge, fresh, d.elements)

\* m_nodes: the pins along the chain of every root, unless there is none.  A document
\* without ports leaves m_nodes as it was, which Session is about.
GenerateNetlist(d) ==
  LET ports == Extracted(d)
      u == Merged(d, ports)
      chain[k \in 0..Len(ports)] ==
        [i \in {-1} \cup 1..Len(ports) |->
           IF i = -1 \/ k = 0 THEN {} ELSE {ports[i]} \cup chain[k - 1][u.next[i]]]
      Node(x) == {p \in chain[Len(ports)][x] : d.cls[p] = "pin"}
  IN  {Node(x) : x \in {y \in 1..Len(ports) : u.sets[y] = y}} \ {{}}

-----------------------------------------------------------------------------
(* What a net is: pins that wires and joints connect.                       *)

Links(d) == {ToSet(PortsOf(d, e)) : e \in Of(d, {"wire", "joint"})}

PinNets(d) ==
  LET links == {l \in Links(d) : None \notin l}
      Near(A) == A \cup UNION {l \in links : l \cap A # {}}
      reach[k \in 0..Cardinality(links)] ==
        [p \in Ports(d) |-> IF k = 0 THEN {p} ELSE Near(reach[k - 1][p])]
  IN  {{q \in reach[Cardinality(links)][p] : d.cls[q] = "pin"} : p \in Of(d, {"pin"})}

\* The editor, with the nets written down after every step; a part that is deleted
\* alone leaves wires without an end, and no nets to speak of.
NetInit == Init /\ nets = {}
NetNext == Next /\ nets' = IF Intact' THEN PinNets(doc') ELSE nets
NetSpec == NetInit /\ [][NetNext]_<<vars, nets>>

\* Editing keeps its promise about nets, until a part is deleted alone: in particular
\* a joint that loses one of its wires goes on connecting the other two.
Promise == INSTANCE Nets
ImplementsNets == Promise!Spec

\* The nodes of the compiled circuit are the nets of the drawn schema, provided
\* that no wire is half drawn, no part was deleted alone and the indices fit a char.
NetlistIsConnectivity ==
  hint = freed /\ Len(Extracted(doc)) <= CharMax
    => GenerateNetlist(doc) = {n \in nets : Cardinality(n) > 1}
=============================================================================
