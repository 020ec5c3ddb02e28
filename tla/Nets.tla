-------------------------------- MODULE Nets --------------------------------
(***************************************************************************)
(* What the editor promises about connections: the pins of the schema fall   *)
(* into nets.  A wire connects a pin that was alone to one net, removing a   *)
(* wire cuts one net in two, and removing components takes their pins and    *)
(* leaves the others connected as they were.                                *)
(***************************************************************************)
EXTENDS Naturals

VARIABLE nets      \* set of disjoint non-empty sets of pins

Pins == UNION nets

Init == nets = {}

\* A component comes with pins that are alone.
Place ==
  /\ nets \subseteq nets'
  /\ nets' \ nets = {{p} : p \in (UNION nets') \ Pins}

Connect(p, n) ==
  /\ {p} \in nets \ {n}
  /\ nets' = (nets \ {{p}, n}) \cup {n \cup {p}}

Cut(n) ==
  \E m \in (SUBSET n) \ {{}, n} : nets' = (nets \ {n}) \cup {m, n \ m}

Withdraw(P) == nets' = {n \ P : n \in nets} \ {{}}

Next ==
  \/ Place
  \/ \E p \in Pins, n \in nets : Connect(p, n)
  \/ \E n \in nets : Cut(n)
  \/ \E P \in SUBSET Pins : Withdraw(P)

Spec == Init /\ [][Next]_nets
=============================================================================
