------------------------------- MODULE Schema -------------------------------
(***************************************************************************)
(* The wire graph of a schema and the mouse and keyboard handlers that edit *)
(* it: schemaview.cxx, schemaviewactions.cxx, elementwire.cxx,              *)
(* elementjoint.cxx, elementabstractport.cxx and componentgraphitem.cxx.    *)
(*                                                                         *)
(* A document is a record, and a function of the code that changes it is an *)
(* operator from document to document, because one key press runs through   *)
(* destructors of wires into joints that delete wires.  An element is named *)
(* by its identifier.  Pins are the only parts of a symbol that are kept,   *)
(* and positions are left out: a click lands on any pin or wire there is.   *)
(***************************************************************************)
EXTENDS Integers, FiniteSets, SequencesExt

CONSTANTS
  Symbols,         \* device symbols, each given as its number of pins
  MaxComponents,   \* bound: components in the document at once
  MaxEdits         \* bound: edits of a view until it is closed

ASSUME EditorAssumption ==
  /\ Symbols \subseteq Nat \ {0}
  /\ MaxComponents \in Nat
  /\ MaxEdits \in Nat

VARIABLES
  doc,             \* the elements of the SchemaView
  handler,         \* the mouse handlers in force: m_mousePressEvent and its like
  hint,            \* m_hintElement, the wire being drawn
  edits,           \* edits since the view was opened
  freed            \* the deleted element that a pointer of the program still names

vars == <<doc, handler, hint, edits, freed>>

None == 0
Classes  == {"component", "pin", "wire", "joint", "jointport"}
Handlers == {"select", "wire", "wire2", "drag"}

(* The fields of a document:
     elements  m_elements[0], in order           ids   m_id[0], ids in use
     cls       classname of an element           ends  <<m_startPort, m_endPort>> of a wire
     wire      m_connectedWire of a port         opp   m_oppositePort of a port
     owner     m_component or m_elementJoint     subs  the ports of a component or joint *)
Empty == [elements |-> <<>>, ids |-> {}, cls |-> <<>>, ends |-> <<>>,
          wire |-> <<>>, opp |-> <<>>, owner |-> <<>>, subs |-> <<>>]

Of(d, classes) == {e \in DOMAIN d.cls : d.cls[e] \in classes}
Wires(d) == Of(d, {"wire"})
Ports(d) == Of(d, {"pin", "jointport"})
Joints(d) == Of(d, {"joint"})
Components(d) == Of(d, {"component"})
FreePins(d) == {p \in Of(d, {"pin"}) : d.wire[p] = None}

-----------------------------------------------------------------------------
(* SchemaView::createElement and releaseElement, with IdAllocator.         *)

\* IdAllocator::alloc: the first gap in the set, or the next number; a mutated
\* form counts the elements.
AllocCount(d) == Cardinality(d.ids) + 1
Alloc(d) == CHOOSE i \in 1..(Cardinality(d.ids) + 1) :
              i \notin d.ids /\ \A j \in 1..(i - 1) : j \in d.ids

Put(f, k, v) == [x \in DOMAIN f \cup {k} |-> IF x = k THEN v ELSE f[x]]
Without(f, k) == [x \in DOMAIN f \ {k} |-> f[x]]

Listed(d, e, class) ==
  [d EXCEPT !.elements = Append(@, e), !.ids = @ \cup {e}, !.cls = Put(@, e, class)]

CreateWire(d) ==
  LET w == Alloc(d) IN [Listed(d, w, "wire") EXCEPT !.ends = Put(@, w, <<None, None>>)]

\* A port that is part of the component or joint o.
CreatePort(d, class, o) ==
  LET p == Alloc(d) IN
  [Listed(d, p, class) EXCEPT !.wire = Put(@, p, None), !.opp = Put(@, p, None),
                              !.owner = Put(@, p, o), !.subs[o] = Append(@, p)]

\* A component or joint o with its n ports.
CreateOwner(d, class, portClass, n) ==
  LET o == Alloc(d)
      bare == [Listed(d, o, class) EXCEPT !.subs = Put(@, o, <<>>)]
  IN  FoldLeft(LAMBDA x, i : CreatePort(x, portClass, o), bare, [i \in 1..n |-> i])

\* removeElement and the destructor of an element that is linked to nothing.
Erase(d, e) ==
  [elements |-> RemoveFirst(d.elements, e), ids |-> d.ids \ {e}, cls |-> Without(d.cls, e),
   ends |-> Without(d.ends, e), wire |-> Without(d.wire, e), opp |-> Without(d.opp, e),
   owner |-> Without(d.owner, e), subs |-> Without(d.subs, e)]

\* ~ElementAbstractPort: a wire that is still connected loses this end.
ErasePort(d, p) ==
  LET w == d.wire[p]
      Left(q) == IF q = p THEN None ELSE q
      unplugged == IF w = None THEN d
                   ELSE [d EXCEPT !.ends[w] = <<Left(@[1]), Left(@[2])>>]
  IN  Erase(unplugged, p)

\* releaseElement of a component or joint with its ports.
EraseOwner(d, o) == Erase(FoldLeft(ErasePort, d, d.subs[o]), o)

-----------------------------------------------------------------------------
(* ElementWire and ElementJoint.                                           *)

ConnectStartPort(d, w, p) ==
  [d EXCEPT !.wire[p] = w, !.opp[p] = None, !.ends[w] = <<p, @[2]>>]

ConnectEndPort(d, w, p) ==
  LET s == d.ends[w][1]
  IN  [d EXCEPT !.wire[p] = w, !.ends[w] = <<s, p>>, !.opp = [@ EXCEPT ![s] = p, ![p] = s]]

\* disconnectPort of both ends, without telling the ports.
Unplug(d, w) ==
  LET s == d.ends[w][1]
      e == d.ends[w][2]
  IN  [d EXCEPT !.wire = [@ EXCEPT ![s] = None, ![e] = None],
                !.opp = [@ EXCEPT ![s] = None, ![e] = None],
                !.ends[w] = <<None, None>>]

\* ElementJoint::joinWires: a new wire in place of the two at the ports p and q;
\* a mutated form takes the new wire to the ports of the joint.
JoinWiresHere(d, p, q) ==
  LET two == Unplug(Unplug(d, d.wire[p]), d.wire[q])
      new == Alloc(two)
      joined == ConnectEndPort(ConnectStartPort(CreateWire(two), new, p), new, q)
  IN  Erase(Erase(joined, d.wire[p]), d.wire[q])
JoinWires(d, p, q) ==
  LET two == Unplug(Unplug(d, d.wire[p]), d.wire[q])
      new == Alloc(two)
      joined == ConnectEndPort(ConnectStartPort(CreateWire(two), new, d.opp[p]), new, d.opp[q])
  IN  Erase(Erase(joined, d.wire[p]), d.wire[q])

\* ElementJoint::remove: a joint with two wires left is replaced by one wire; in
\* any case it no longer owns its ports.
RemoveJoint(d, j) ==
  LET port == d.subs[j]
      wired == {k \in DOMAIN port : d.wire[port[k]] # None}
      deprived == [d EXCEPT !.owner = [p \in DOMAIN @ |->
                                         IF p \in ToSet(port) THEN None ELSE @[p]]]
  IN  IF Cardinality(wired) = 2
        THEN EraseOwner(JoinWires(deprived, port[Min(wired)], port[Max(wired)]), j)
        ELSE deprived

\* disconnectWire with its broadcast: only a joint port has a disconnectedEvent.
Disconnected(d, p) ==
  LET loose == [d EXCEPT !.wire[p] = None]
  IN  IF d.cls[p] = "jointport" /\ d.owner[p] # None
        THEN RemoveJoint(loose, d.owner[p]) ELSE loose

\* releaseElement of a wire: it leaves the list and gives its id back before
\* ~ElementWire disconnects the start and then the end.
ReleaseWire(d, w) ==
  LET ends == d.ends[w]
      started == Disconnected(Erase(d, w), ends[1])
  IN  IF ends[2] = None THEN started ELSE Disconnected(started, ends[2])

\* ComponentGraphItem::releaseSubElements: first the wires at its pins, each
\* looked up when its turn comes; a mutated form leaves the wires alone.
ReleaseComponentBare(d, c) == EraseOwner(d, c)
ReleaseComponent(d, c) ==
  LET Unwired(x, p) == IF x.wire[p] = None THEN x ELSE ReleaseWire(x, x.wire[p])
  IN  EraseOwner(FoldLeft(Unwired, d, d.subs[c]), c)

\* addJoint: wire w is split in two at a joint whose second port is left open.
\* A mutated form forgets to take w off its old end.
SplitOnly(d, w) ==
  LET made == CreateOwner(d, "joint", "jointport", 3)
      port == made.subs[Alloc(d)]
  IN  ConnectEndPort(made, w, port[1])
AddJoint(d, w) ==
  LET made == CreateOwner(d, "joint", "jointport", 3)
      port == made.subs[Alloc(d)]
      new  == Alloc(made)
      cut  == ConnectStartPort(CreateWire(made), new, port[3])
  IN  ConnectEndPort(ConnectEndPort(cut, new, d.ends[w][2]), w, port[1])

JointPort(d, w) == AddJoint(d, w).subs[Alloc(d)][2]

\* ~SchemaView: the root elements there are at first, which are the components, in
\* list order.
ReleaseAll(d) ==
  LET Release(x, e) == IF d.cls[e] = "component" THEN ReleaseComponent(x, e) ELSE x
  IN  FoldLeft(Release, d, d.elements)

\* What SchemaView::deserialize makes of what serialize has written: elements
\* with their ids in the same order, wires connected again by resolveSubElements.
Reloaded(d) ==
  LET bare == [d EXCEPT !.wire = [p \in DOMAIN @ |-> None], !.opp = [p \in DOMAIN @ |-> None],
                        !.ends = [w \in DOMAIN @ |-> <<None, None>>]]
      Resolve(x, e) ==
        IF d.cls[e] = "wire"
          THEN ConnectEndPort(ConnectStartPort(x, e, d.ends[e][1]), e, d.ends[e][2]) ELSE x
  IN  FoldLeft(Resolve, bare, d.elements)

-----------------------------------------------------------------------------
(* Handlers.                                                               *)

Init ==
  /\ doc = Empty
  /\ handler = "select"
  /\ hint = None
  /\ edits = 0
  /\ freed = None

Edit == edits < MaxEdits /\ edits' = edits + 1

\* No handler is modelled past the use of an element that is deleted.
Sane == freed = None /\ freed' = None

\* setMode( MODE_SELECTION ) on document d: the element being drawn is given up.
Selection(d) ==
  /\ doc' = IF hint = None THEN d ELSE ReleaseWire(d, hint)
  /\ hint' = None
  /\ handler' = "select"

\* dragEnterEvent: the component is in the document before it is dropped; dropping
\* it and leaving the view both keep it.
DragEnter(s) ==
  /\ Sane /\ handler # "drag" /\ Cardinality(Components(doc)) < MaxComponents
  /\ Edit
  /\ doc' = CreateOwner(doc, "component", "pin", s)
  /\ handler' = "drag"
  /\ UNCHANGED hint

DropOrLeave ==
  /\ Sane /\ handler = "drag"
  /\ Selection(doc)
  /\ UNCHANGED edits

\* mouseMoveSelect over a pin.
HoverPin ==
  /\ Sane /\ handler = "select" /\ Of(doc, {"pin"}) # {}
  /\ handler' = "wire"
  /\ UNCHANGED <<doc, hint, edits>>

\* mouseMoveWire off the pin, a press of the other button, Escape.
GiveUp ==
  /\ Sane /\ handler \in {"wire", "wire2"}
  /\ Selection(doc)
  /\ UNCHANGED edits

\* mousePressWire on a free pin.
PressFirstPin(p) ==
  /\ Sane /\ handler = "wire" /\ p \in FreePins(doc)
  /\ Edit
  /\ hint' = Alloc(doc)
  /\ doc' = ConnectStartPort(CreateWire(doc), hint', p)
  /\ handler' = "wire2"

\* connectEndWire: the wire being drawn is accepted.
Accept(d, p) ==
  /\ doc' = ConnectEndPort(d, hint, p)
  /\ hint' = None
  /\ handler' = "select"

\* mousePressWire2 on another free pin.
PressSecondPin(p) ==
  /\ Sane /\ handler = "wire2" /\ p \in FreePins(doc)
  /\ Accept(doc, p)
  /\ UNCHANGED edits

\* A press on a wire, which mousePressWire2 lets through to WireSegment.
PressWire(w) ==
  /\ Sane /\ handler = "wire2" /\ w \in Wires(doc) \ {hint}
  /\ Accept(AddJoint(doc, w), JointPort(doc, w))
  /\ UNCHANGED edits

\* The button that opens the menu, or a double click, gives up drawing first.
OnRemoveSelected(w) ==
  /\ Sane /\ handler = "select" /\ w \in Wires(doc)
  /\ Edit
  /\ doc' = ReleaseWire(doc, w)
  /\ UNCHANGED <<handler, hint>>

\* onRemoveSelected for the part under a double click: a pin is still named by its
\* component and by the port its wire leads to, and the joint by no one, but its
\* ports by the ports their wires lead to.
RemovePart(p) ==
  /\ freed = None /\ handler \in {"select", "wire"} /\ p \in Of(doc, {"pin", "joint"})
  /\ Edit
  /\ doc' = IF p \in Joints(doc) THEN EraseOwner(doc, p) ELSE ErasePort(doc, p)
  /\ freed' = p
  /\ UNCHANGED <<handler, hint>>

\* The Delete key releases the selected root elements, also while a wire is drawn.
\* The component from which it is drawn takes the wire along, and m_hintElement
\* still points to it.
Selections(d) == UNION {SetToSeqs(C) : C \in (SUBSET Components(d)) \ {{}}}

KeyPressDelete ==
  /\ freed = None /\ handler # "drag"
  /\ Edit
  /\ \E sel \in Selections(doc) :
       /\ doc' = FoldLeft(ReleaseComponent, doc, sel)
       /\ freed' = IF hint # None /\ doc.owner[doc.ends[hint][1]] \in ToSet(sel)
                     THEN hint ELSE None
  /\ UNCHANGED <<handler, hint>>

\* The document is saved and opened in a new view, neither of which looks at
\* m_hintElement.  A wire that is being drawn is saved without an end, and such a
\* document is refused.
SaveAndOpen ==
  /\ hint = freed /\ handler # "drag"
  /\ Edit
  /\ doc' = Reloaded(doc)
  /\ handler' = "select"
  /\ hint' = None /\ freed' = None

\* No part has been deleted alone: the only element that is deleted and still named
\* is the wire that was being drawn.
Intact == freed \in {None, hint}

\* The view is deleted with all its elements, even one that is being drawn.
Close ==
  /\ Intact /\ handler # "drag"
  /\ doc' = ReleaseAll(doc)
  /\ handler' = "select"
  /\ hint' = None /\ freed' = None
  /\ edits' = 0

\* What follows the use of a deleted element is undefined, and nothing is said of it.
Undefined == freed # None /\ UNCHANGED vars

Next ==
  \/ \E s \in Symbols : DragEnter(s)
  \/ DropOrLeave \/ HoverPin \/ GiveUp
  \/ \E p \in Ports(doc) : PressFirstPin(p) \/ PressSecondPin(p)
  \/ \E w \in Wires(doc) : PressWire(w) \/ OnRemoveSelected(w)
  \/ \E p \in Of(doc, {"pin", "joint"}) : RemovePart(p)
  \/ KeyPressDelete \/ SaveAndOpen \/ Close \/ Undefined

Spec == Init /\ [][Next]_vars

-----------------------------------------------------------------------------
\* The document is well formed; the identifiers in use are those of its elements.
TypeOK ==
  /\ handler \in Handlers /\ hint \in Nat /\ edits \in 0..MaxEdits /\ freed \in Nat
  /\ doc.ids = DOMAIN doc.cls /\ doc.ids = ToSet(doc.elements)
  /\ Len(doc.elements) = Cardinality(doc.ids)
  /\ doc.cls \in [doc.ids -> Classes]
  /\ DOMAIN doc.ends = Wires(doc)
  /\ \A f \in {doc.wire, doc.opp, doc.owner} : DOMAIN f = Ports(doc)
  /\ DOMAIN doc.subs = Components(doc) \cup Joints(doc)

\* Until a part is deleted alone, which leaves wires without an end: whatever was
\* drawn, and whatever components and wires were deleted in whatever order, a wire
\* and the ports at its ends name each other, only the wire being drawn has no end, a
\* joint joins exactly three wires, and every port belongs to what it is a part of.
\* m_hintElement is the wire being drawn until the component it starts from is deleted
\* under the hand: that takes the wire along, and no other wire is left without an end.
LinksAgree == Intact =>
  LET drawn == IF freed = None THEN hint ELSE None IN
  /\ \A w \in Wires(doc) :
       LET s == doc.ends[w][1]
           e == doc.ends[w][2]
       IN  /\ s \in Ports(doc) /\ doc.wire[s] = w
           /\ IF w = drawn THEN e = None
              ELSE /\ e \in Ports(doc) \ {s} /\ doc.wire[e] = w
                   /\ doc.opp[s] = e /\ doc.opp[e] = s
  /\ \A p \in Ports(doc) :
       /\ doc.wire[p] # None => p \in ToSet(doc.ends[doc.wire[p]])
       /\ doc.owner[p] \in DOMAIN doc.subs /\ p \in ToSet(doc.subs[doc.owner[p]])
  /\ \A j \in Joints(doc) : \A k \in 1..3 : doc.wire[doc.subs[j][k]] # None
  /\ freed = None => (hint # None <=> hint \in Wires(doc))

\* A view that is closed before a part is deleted alone leaves no element behind:
\* every wire and joint goes with the components (the last assertion of
\* releaseAllElements).
CloseReleasesAll == [][Close => doc'.elements = <<>>]_vars
=============================================================================
