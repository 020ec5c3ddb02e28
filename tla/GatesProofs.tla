---------------------------- MODULE GatesProofs ----------------------------
(***************************************************************************)
(* Theorems about Gates, for every board of digital elements.               *)
(*                                                                         *)
(* That an element on neither list is up to date is inductive but for the    *)
(* demultiplexer, which is not told of its data: it stays up to date only     *)
(* because it puts itself on a list each time it writes.                     *)
(***************************************************************************)
EXTENDS Gates, TLAPS

\* A demultiplexer that has had an event and drives a node never leaves the lists.
DemuxListed ==
  \A g \in heard : Kind[g] = "demux" /\ Driven(g) # {} => g \in due \cup later

\* Between two steps everything was delivered.
IdleDelivered == pc = "idle" => due = {}

Inv == TypeOK /\ Reacted /\ DemuxListed /\ IdleDelivered

-----------------------------------------------------------------------------
(* Pins and levels.                                                        *)

LEMMA WaysType == Ways \in {2, 4, 8} /\ Lines \in {1, 2, 3}
  BY GatesAssumption DEF Ways

LEMMA PinType ==
  ASSUME NEW g \in Gate, NEW i \in Pins(g)
  PROVE  Pin[g][i] \in Node \cup {NC}
  BY GatesAssumption DEF Pins

LEMMA SourcePinType ==
  ASSUME NEW s \in Source
  PROVE  Pin[s][1] \in Node \cup {NC}
<1>1. Pin[s] \in Seq(Node \cup {NC}) /\ Len(Pin[s]) = 1
  BY GatesAssumption, PinAssumption
<1>2. QED BY <1>1

LEMMA AtType ==
  ASSUME TypeOK, NEW g \in Gate, NEW i \in Pins(g)
  PROVE  At(g, i) \in Level
<1>1. Pin[g][i] \in Node \cup {NC} /\ level \in [Node -> Level]
  BY PinType DEF TypeOK
<1>2. QED BY <1>1 DEF At, Level

\* The pins that the event of an element reads are its own.
LEMMA OwnPins ==
  ASSUME NEW g \in Gate
  PROVE  /\ OutPins(g) \subseteq Pins(g) /\ Registered(g) \subseteq Pins(g)
         /\ Kind[g] = "buff" => {1, 2} \subseteq Pins(g)
         /\ Kind[g] \in Selectors => 1..(Ways + Lines + 2) \subseteq Pins(g)
         /\ Kind[g] \in FlipFlops => 1..6 \subseteq Pins(g)
         /\ Kind[g] = "probe" => 1 \in Pins(g)
<1>1. OutPins(g) \subseteq Pins(g) /\ Registered(g) \subseteq Pins(g)
  BY PinAssumption
<1>2. Len(Pin[g]) \in Nat
  BY GatesAssumption
<1>3. CASE Kind[g] = "buff"
  BY <1>1, <1>2, <1>3, PinAssumption DEF OfKind, Pins, Selectors, FlipFlops
<1>4. CASE Kind[g] = "mux"
  <2>1. Ways + Lines + 2 \in Pins(g)
    BY <1>1, <1>4 DEF OutPins, Simple
  <2>2. QED BY <1>1, <1>2, <1>4, <2>1, WaysType DEF Pins, FlipFlops
<1>5. CASE Kind[g] = "demux"
  BY <1>1, <1>2, <1>5, PinAssumption, WaysType DEF OfKind, Pins, FlipFlops
<1>6. CASE Kind[g] \in FlipFlops
  BY <1>1, <1>2, <1>6, PinAssumption DEF OfKind, Pins, FlipFlops, Selectors
<1>7. CASE Kind[g] = "probe"
  BY <1>1, <1>2, <1>7, PinAssumption DEF OfKind, Pins, FlipFlops, Selectors
<1>8. QED BY <1>1, <1>3, <1>4, <1>5, <1>6, <1>7 DEF Selectors

LEMMA SelectedType ==
  ASSUME NEW g \in Gate
  PROVE  Selected(g) \in 1..Ways
<1>1. /\ Line(g, 1) \in {0, 1}
      /\ Line(g, 2) \in {0, 2} /\ (Lines < 2 => Line(g, 2) = 0)
      /\ Line(g, 3) \in {0, 4} /\ (Lines < 3 => Line(g, 3) = 0)
  BY WaysType DEF Line, bindec_table
<1>2. CASE Lines = 1
  BY <1>1, <1>2 DEF Selected, Ways
<1>3. CASE Lines = 2
  BY <1>1, <1>3 DEF Selected, Ways
<1>4. CASE Lines = 3
  BY <1>1, <1>4 DEF Selected, Ways
<1>5. QED BY <1>2, <1>3, <1>4, WaysType

-----------------------------------------------------------------------------
(* What an event writes.                                                   *)

LEMMA OutAtCases ==
  ASSUME NEW g \in Gate, NEW i
  PROVE  /\ Kind[g] \in Simple => OutAt(g, i) = GateOut(g)
         /\ Kind[g] = "buff" => OutAt(g, i) = BuffOut(g)
         /\ Kind[g] = "mux" => OutAt(g, i) = MuxOut(g, i)
         /\ Kind[g] = "demux" => OutAt(g, i) = DemuxOut(g, i)
         /\ Kind[g] \in FlipFlops => OutAt(g, i) = FlipOut(g, i)
<1>1. ASSUME Kind[g] \in Simple PROVE OutAt(g, i) = GateOut(g)
  BY <1>1 DEF OutAt, Simple
<1>2. ASSUME Kind[g] = "buff" PROVE OutAt(g, i) = BuffOut(g)
  BY <1>2 DEF OutAt, Simple
<1>3. ASSUME Kind[g] = "mux" PROVE OutAt(g, i) = MuxOut(g, i)
  BY <1>3 DEF OutAt, Simple
<1>4. ASSUME Kind[g] = "demux" PROVE OutAt(g, i) = DemuxOut(g, i)
  BY <1>4 DEF OutAt, Simple
<1>5. ASSUME Kind[g] \in FlipFlops PROVE OutAt(g, i) = FlipOut(g, i)
  BY <1>5 DEF OutAt, Simple, FlipFlops
<1>6. QED BY <1>1, <1>2, <1>3, <1>4, <1>5

LEMMA ReverseType ==
  ASSUME NEW l \in Level
  PROVE  Reverse(l) \in Level
  BY DEF Reverse, Level

LEMMA BitType ==
  ASSUME NEW b
  PROVE  Bit(b) \in Level
  BY DEF Bit, Level

LEMMA OutType ==
  ASSUME TypeOK, NEW g \in Gate, NEW i \in OutPins(g)
  PROVE  Kind[g] # "probe" => OutAt(g, i) \in Level
<1>1. "FLOAT" \in Level /\ "LOW" \in Level /\ "HIGH" \in Level
  BY DEF Level
<1>2. CASE Kind[g] \in Simple
  BY <1>2, OutAtCases, BitType DEF GateOut
<1>3. CASE Kind[g] = "buff"
  BY <1>3, OutAtCases, OwnPins, AtType, ReverseType DEF BuffOut
<1>4. CASE Kind[g] \in Selectors
  <2>1. At(g, Selected(g)) \in Level /\ At(g, Ways + Lines + 2) \in Level
    BY <1>4, OwnPins, AtType, SelectedType, WaysType
  <2>2. Kind[g] = "mux" => MuxOut(g, i) \in Level
    BY <1>1, <2>1, ReverseType DEF MuxOut
  <2>3. Kind[g] = "demux" => DemuxOut(g, i) \in Level
    BY <1>1, <2>1 DEF DemuxOut
  <2>4. QED BY <1>4, <2>2, <2>3, OutAtCases DEF Selectors
<1>5. CASE Kind[g] \in FlipFlops
  <2>1. Latched(g) \in Level
    BY <1>5, OwnPins, AtType, BitType DEF Latched
  <2>2. FlipOut(g, i) \in Level
    BY <1>1, <2>1, BitType, ReverseType DEF FlipOut
  <2>3. QED BY <1>5, <2>2, OutAtCases
<1>6. QED
  BY <1>2, <1>3, <1>4, <1>5, GatesAssumption DEF Kinds

\* The nodes that g drives, and what it writes on them.
NodesOf(g) == {Pin[g][i] : i \in Driven(g)}
ValuesOf(g) == [n \in NodesOf(g) |-> OutAt(g, CHOOSE i \in Driven(g) : Pin[g][i] = n)]

LEMMA DrivenNodes ==
  ASSUME NEW g \in Gate
  PROVE  /\ NodesOf(g) \subseteq Node
         /\ \A i \in Driven(g) : ValuesOf(g)[Pin[g][i]] = OutAt(g, i)
<1>1. NodesOf(g) \subseteq Node
  BY OwnPins, PinType DEF NodesOf, Driven
<1>2. ASSUME NEW i \in Driven(g) PROVE ValuesOf(g)[Pin[g][i]] = OutAt(g, i)
  <2>1. \A j \in Driven(g) : Pin[g][j] = Pin[g][i] => j = i
    BY DriverAssumption DEF Driven
  <2>2. (CHOOSE j \in Driven(g) : Pin[g][j] = Pin[g][i]) = i
    BY <2>1
  <2>3. Pin[g][i] \in NodesOf(g)
    BY DEF NodesOf
  <2>4. QED BY <2>2, <2>3 DEF ValuesOf
<1>3. QED BY <1>1, <1>2

LEMMA ValuesType ==
  ASSUME TypeOK, NEW g \in Gate, Writes(g)
  PROVE  ValuesOf(g) \in [NodesOf(g) -> Level]
<1>1. Kind[g] # "probe"
  BY DEF Writes, FlipFlops
<1>2. ASSUME NEW n \in NodesOf(g) PROVE ValuesOf(g)[n] \in Level
  <2>1. PICK i \in Driven(g) : n = Pin[g][i]
    BY DEF NodesOf
  <2>2. OutAt(g, i) \in Level
    BY <1>1, OutType DEF Driven
  <2>3. QED BY <2>1, <2>2, DrivenNodes
<1>3. QED BY <1>2 DEF ValuesOf

LEMMA SetStatesType ==
  ASSUME TypeOK, NEW N \in SUBSET Node, NEW f \in [N -> Level], SetStates(f)
  PROVE  level' \in [Node -> Level] /\ later' \subseteq Gate
  BY DEF TypeOK, SetStates, Readers

-----------------------------------------------------------------------------
(* Type correctness.                                                       *)

LEMMA InitInv == Init => Inv
<1>1. Init => TypeOK
  BY GatesAssumption DEF Init, TypeOK, Level
<1>2. Init => Reacted /\ DemuxListed /\ IdleDelivered
  BY DEF Init, Reacted, DemuxListed, IdleDelivered
<1>3. QED BY <1>1, <1>2 DEF Inv

LEMMA DriveType ==
  ASSUME TypeOK, NEW s \in Source, NEW l \in Level, DriveSource(s, l)
  PROVE  level' \in [Node -> Level] /\ later' \subseteq Gate /\ age' \in 0..(Depth + 1)
<1>1. CASE Pin[s][1] = NC
  BY <1>1 DEF TypeOK, DriveSource
<1>2. CASE Pin[s][1] # NC
  <2>1. {Pin[s][1]} \subseteq Node
    BY <1>2, SourcePinType
  <2>2. [m \in {Pin[s][1]} |-> l] \in [{Pin[s][1]} -> Level]
    OBVIOUS
  <2>3. SetStates([m \in {Pin[s][1]} |-> l]) /\ age' \in {0, age}
    BY <1>2 DEF DriveSource
  <2>4. level' \in [Node -> Level] /\ later' \subseteq Gate
    BY <2>1, <2>2, <2>3, SetStatesType
  <2>5. QED BY <2>3, <2>4, GatesAssumption DEF TypeOK
<1>3. QED BY <1>1, <1>2

LEMMA ClickType ==
  ASSUME TypeOK, NEW s \in Source, MayClick(s)
  PROVE  source' \in [Source -> Level] /\ clicks' \in 0..MaxClicks /\ source'[s] \in Level
<1>1. Toggled(source[s]) \in Level
  BY DEF Toggled, Level
<1>2. QED BY <1>1, GatesAssumption DEF TypeOK, MayClick

LEMMA EventType ==
  ASSUME TypeOK, NEW g \in Gate, Event(g)
  PROVE  TypeOK'
<1>1. level' \in [Node -> Level] /\ later' \subseteq Gate
  <2>1. CASE Writes(g)
    <3>1. SetStates(ValuesOf(g))
      BY <2>1 DEF Event, ValuesOf, NodesOf
    <3>2. QED BY <2>1, <3>1, ValuesType, DrivenNodes, SetStatesType
  <2>2. CASE ~Writes(g)
    BY <2>2 DEF Event, TypeOK
  <2>3. QED BY <2>1, <2>2
<1>2. clk' \in [Gate -> BOOLEAN]
  BY DEF TypeOK, Event, Remember
<1>3. shown' \in [Gate -> Level]
  <2>1. CASE Kind[g] = "probe"
    <3>1. At(g, 1) \in Level
      BY <2>1, OwnPins, AtType
    <3>2. QED BY <2>1, <3>1 DEF TypeOK, Event, Remember
  <2>2. CASE Kind[g] # "probe"
    BY <2>2 DEF TypeOK, Event, Remember
  <2>3. QED BY <2>1, <2>2
<1>4. age' \in {0, age} /\ due' \subseteq Gate /\ heard' \subseteq Gate
  BY DEF TypeOK, Event
<1>5. QED BY <1>1, <1>2, <1>3, <1>4, GatesAssumption DEF TypeOK, Event, inputs

LEMMA TypeStep ==
  ASSUME TypeOK, [Next]_vars
  PROVE  TypeOK'
<1>1. CASE UNCHANGED vars
  BY <1>1 DEF TypeOK, vars, inputs, memory
<1>2. CASE BeginStep
  BY <1>2 DEF TypeOK, BeginStep, inputs, memory
<1>3. CASE EndClock
  BY <1>3 DEF TypeOK, EndClock, inputs, memory
<1>4. CASE EndStep
  BY <1>4, GatesAssumption DEF TypeOK, EndStep, inputs, memory
<1>5. ASSUME NEW s \in Source, Clock(s) PROVE TypeOK'
  <2>1. source[s] \in Level
    BY DEF TypeOK
  <2>2. CASE SourcePin(s) = source[s]
    BY <1>5, <2>2 DEF TypeOK, Clock, inputs, memory
  <2>3. CASE SourcePin(s) # source[s]
    BY <1>5, <2>1, <2>3, DriveType DEF TypeOK, Clock, inputs, memory
  <2>4. QED BY <2>2, <2>3
<1>6. ASSUME NEW g \in Gate, Event(g) PROVE TypeOK'
  BY <1>6, EventType
<1>7. ASSUME NEW s \in Source, Click(s) PROVE TypeOK'
  BY <1>7, ClickType DEF TypeOK, Click, memory
<1>8. ASSUME NEW s \in Source, ClickInClock(s) PROVE TypeOK'
  BY <1>8, ClickType, DriveType DEF TypeOK, ClickInClock, memory
<1>9. QED BY <1>1, <1>2, <1>3, <1>4, <1>5, <1>6, <1>7, <1>8 DEF Next, Step

-----------------------------------------------------------------------------
(* An element is told of what it depends on.                                *)

LEMMA RegisteredCases ==
  ASSUME NEW g \in Gate
  PROVE  /\ Kind[g] \in Simple => Registered(g) = InPins(g)
         /\ Kind[g] \in Selectors => Registered(g) = 1..(Ways + Lines + 1)
         /\ Kind[g] \in FlipFlops \cup {"buff", "probe"} => Registered(g) = Pins(g)
<1>1. ASSUME Kind[g] \in Simple PROVE Registered(g) = InPins(g)
  BY <1>1 DEF Registered, Simple, Selectors
<1>2. ASSUME Kind[g] \in Selectors PROVE Registered(g) = 1..(Ways + Lines + 1)
  BY <1>2 DEF Registered, Simple, Selectors
<1>3. ASSUME Kind[g] \in FlipFlops \cup {"buff", "probe"} PROVE Registered(g) = Pins(g)
  BY <1>3 DEF Registered, Simple, Selectors, FlipFlops
<1>4. QED BY <1>1, <1>2, <1>3

LEMMA OutAtCasesNext ==
  ASSUME NEW g \in Gate, NEW i
  PROVE  /\ Kind[g] \in Simple => OutAt(g, i)' = GateOut(g)'
         /\ Kind[g] = "buff" => OutAt(g, i)' = BuffOut(g)'
         /\ Kind[g] = "mux" => OutAt(g, i)' = MuxOut(g, i)'
         /\ Kind[g] \in FlipFlops => OutAt(g, i)' = FlipOut(g, i)'
<1>1. ASSUME Kind[g] \in Simple PROVE OutAt(g, i)' = GateOut(g)'
  BY <1>1 DEF OutAt, Simple
<1>2. ASSUME Kind[g] = "buff" PROVE OutAt(g, i)' = BuffOut(g)'
  BY <1>2 DEF OutAt, Simple
<1>3. ASSUME Kind[g] = "mux" PROVE OutAt(g, i)' = MuxOut(g, i)'
  BY <1>3 DEF OutAt, Simple
<1>4. ASSUME Kind[g] \in FlipFlops PROVE OutAt(g, i)' = FlipOut(g, i)'
  BY <1>4 DEF OutAt, Simple, FlipFlops
<1>5. QED BY <1>1, <1>2, <1>3, <1>4

\* While the pins an element is registered on keep their levels, so does what it
\* asks for; a demultiplexer also reads its data.
LEMMA SameOut ==
  ASSUME NEW g \in Gate, Kind[g] # "demux", NEW i,
         \A j \in Registered(g) : At(g, j)' = At(g, j)
  PROVE  OutAt(g, i)' = OutAt(g, i) \/ Kind[g] = "probe"
<1>1. CASE Kind[g] \in Simple
  <2>1. Ones(g)' = Ones(g)
    BY <1>1, RegisteredCases DEF Ones, InPins
  <2>2. GateOut(g)' = GateOut(g)
    BY <2>1 DEF GateOut
  <2>3. QED BY <1>1, <2>2, OutAtCases, OutAtCasesNext
<1>2. CASE Kind[g] = "buff"
  <2>1. At(g, 1)' = At(g, 1)
    BY <1>2, RegisteredCases, OwnPins
  <2>2. BuffOut(g)' = BuffOut(g)
    BY <2>1 DEF BuffOut
  <2>3. QED BY <1>2, <2>2, OutAtCases, OutAtCasesNext
<1>3. CASE Kind[g] = "mux"
  <2>1. \A j \in 1..(Ways + Lines + 1) : At(g, j)' = At(g, j)
    BY <1>3, RegisteredCases DEF Selectors
  <2>2. \A k \in 1..3 : Line(g, k)' = Line(g, k)
    BY <2>1, WaysType DEF Line
  <2>3. Selected(g)' = Selected(g)
    BY <2>2 DEF Selected
  <2>4. At(g, Selected(g))' = At(g, Selected(g))
    <3>1. Selected(g) \in 1..(Ways + Lines + 1)
      BY SelectedType, WaysType
    <3>2. At(g, Selected(g))' = (IF Pin[g][Selected(g)'] = NC THEN "FLOAT" ELSE level'[Pin[g][Selected(g)']])
      BY DEF At
    <3>3. \A j \in {Selected(g)} : At(g, j)' = At(g, j)
      BY <2>1, <3>1
    <3>4. QED BY <2>3, <3>2, <3>3 DEF At
  <2>5. Enabled(g)' = Enabled(g)
    BY <2>1, WaysType DEF Enabled
  <2>6. MuxOut(g, i)' = MuxOut(g, i)
    BY <2>4, <2>5 DEF MuxOut
  <2>7. QED BY <1>3, <2>6, OutAtCases, OutAtCasesNext
<1>4. CASE Kind[g] \in FlipFlops
  <2>1. \A j \in 1..6 : At(g, j)' = At(g, j)
    BY <1>4, RegisteredCases, OwnPins
  <2>2. Latched(g)' = Latched(g) /\ SetPin(g)' = SetPin(g) /\ ResetPin(g)' = ResetPin(g)
    BY <2>1 DEF Latched, SetPin, ResetPin
  <2>3. FlipOut(g, i)' = FlipOut(g, i)
    BY <2>2 DEF FlipOut
  <2>4. QED BY <1>4, <2>3, OutAtCases, OutAtCasesNext
<1>5. QED
  BY <1>1, <1>2, <1>3, <1>4, GatesAssumption DEF Kinds, Selectors

\* An element whose pins and memory nobody touches stays up to date.
LEMMA StaysCurrent ==
  ASSUME NEW g \in Gate, Current(g),
         Kind[g] = "demux" => Driven(g) = {},
         \A j \in Registered(g) : At(g, j)' = At(g, j),
         \A i \in Driven(g) : level'[Pin[g][i]] = level[Pin[g][i]],
         Kind[g] \in FlipFlops => clk'[g] = clk[g],
         Kind[g] = "probe" => shown'[g] = shown[g]
  PROVE  Current(g)'
<1>1. Kind[g] # "probe" /\ Follows(g) => Follows(g)'
  <2>1. CASE Kind[g] = "demux"
    BY <2>1 DEF Follows, Driven
  <2>2. CASE Kind[g] # "demux"
    BY <2>2, SameOut DEF Follows, Driven
  <2>3. QED BY <2>1, <2>2
<1>2. Kind[g] \in FlipFlops =>
        /\ SetPin(g)' = SetPin(g) /\ ResetPin(g)' = ResetPin(g)
        /\ At(g, 3)' = At(g, 3)
  BY RegisteredCases, OwnPins DEF SetPin, ResetPin
<1>3. Kind[g] = "probe" => At(g, 1)' = At(g, 1)
  BY RegisteredCases, OwnPins
<1>4. g \in Combined => Kind[g] # "probe"
  BY DEF Combined, OfKind, Simple, Selectors
<1>5. Kind[g] \in FlipFlops => Kind[g] # "probe"
  BY DEF FlipFlops
<1>6. QED BY <1>1, <1>2, <1>3, <1>4, <1>5 DEF Current

-----------------------------------------------------------------------------
(* Reacted.                                                                *)

\* The nodes of N are driven: whoever reads one is on the list, and the elements
\* that are on no list see what they saw.
LEMMA UnreadUnchanged ==
  ASSUME TypeOK, NEW N \in SUBSET Node, NEW f, DOMAIN f = N, SetStates(f),
         NEW g \in Gate, g \notin later'
  PROVE  /\ \A j \in Registered(g) : At(g, j)' = At(g, j)
         /\ \A j \in Registered(g) : Pin[g][j] \notin N
         /\ g \notin later
<1>1. \A n \in N : g \notin Readers(n)
  BY DEF SetStates
<1>2. \A j \in Registered(g) : Pin[g][j] \notin N
  BY <1>1 DEF Readers
<1>3. ASSUME NEW j \in Registered(g) PROVE At(g, j)' = At(g, j)
  <2>1. Pin[g][j] \in Node \cup {NC} /\ Pin[g][j] \notin N
    BY <1>2, OwnPins, PinType
  <2>2. Pin[g][j] # NC => level'[Pin[g][j]] = level[Pin[g][j]]
    BY <2>1 DEF SetStates
  <2>3. QED BY <2>2 DEF At
<1>4. QED BY <1>2, <1>3 DEF SetStates

\* Driving nodes that g does not drive leaves g up to date, or puts it on the list.
LEMMA OthersCurrent ==
  ASSUME Inv, NEW N \in SUBSET Node, NEW f, DOMAIN f = N, SetStates(f),
         NEW g \in heard, g \notin due \cup later',
         \A i \in Driven(g) : Pin[g][i] \notin N,
         Kind[g] \in FlipFlops => clk'[g] = clk[g],
         Kind[g] = "probe" => shown'[g] = shown[g]
  PROVE  Current(g)'
<1>1. g \in Gate /\ g \notin later
  BY UnreadUnchanged DEF Inv, TypeOK, SetStates
<1>2. Current(g) /\ (Kind[g] = "demux" => Driven(g) = {})
  BY <1>1 DEF Inv, Reacted, DemuxListed
<1>3. \A j \in Registered(g) : At(g, j)' = At(g, j)
  BY <1>1, UnreadUnchanged DEF Inv
<1>4. \A i \in Driven(g) : level'[Pin[g][i]] = level[Pin[g][i]]
  <2>1. \A i \in Driven(g) : Pin[g][i] \in Node \ N
    BY <1>1, OwnPins, PinType DEF Driven
  <2>2. QED BY <2>1 DEF SetStates
<1>5. QED BY <1>1, <1>2, <1>3, <1>4, StaysCurrent

\* Driving a source.
LEMMA DriveReacted ==
  ASSUME Inv, NEW s \in Source, NEW l \in Level, DriveSource(s, l),
         UNCHANGED <<due, heard, memory>>
  PROVE  Reacted' /\ DemuxListed'
<1>1. later \subseteq later'
  BY DEF DriveSource, SetStates
<1>2. DemuxListed'
  BY <1>1 DEF Inv, DemuxListed, Driven
<1>3. CASE Pin[s][1] = NC
  <2>1. UNCHANGED <<level, later>>
    BY <1>3 DEF DriveSource
  <2>2. \A g \in Gate : Current(g) => Current(g)'
    <3>1. SUFFICES ASSUME NEW g \in Gate, Current(g) PROVE Current(g)'
      OBVIOUS
    <3>2. QED
      BY <2>1, <3>1 DEF Current, Follows, Driven, At, memory, OutAt, GateOut, Ones, BuffOut,
           MuxOut, DemuxOut, FlipOut, Enabled, Selected, Line, SetPin, ResetPin, Latched
  <2>3. QED BY <1>2, <2>1, <2>2 DEF Inv, Reacted, TypeOK
<1>4. CASE Pin[s][1] # NC
  <2> DEFINE N == {Pin[s][1]}
             f == [m \in N |-> l]
  <2>1. N \subseteq Node /\ DOMAIN f = N
    BY <1>4, SourcePinType
  <2>2. SetStates(f)
    BY <1>4 DEF DriveSource
  <2>3. ASSUME NEW g \in heard, g \notin due \cup later' PROVE Current(g)'
    <3>1. g \in Gate
      BY DEF Inv, TypeOK
    <3>2. \A i \in Driven(g) : Pin[g][i] \notin N
      BY <3>1, DriverAssumption DEF Driven
    <3>3. clk' = clk /\ shown' = shown
      BY DEF memory
    <3>4. HIDE DEF N, f
    <3>5. QED BY <2>1, <2>2, <2>3, <3>2, <3>3, OthersCurrent
  <2>4. QED BY <1>2, <2>3 DEF Reacted
<1>5. QED BY <1>3, <1>4

\* The event of g leaves g itself up to date, or on the list.
LEMMA OwnCurrent ==
  ASSUME Inv, NEW g \in Gate, Event(g), g \notin later'
  PROVE  Current(g)'
<1>1. Kind[g] \in FlipFlops => clk'[g] = (At(g, 3) = "HIGH")
  BY DEF Event, Remember, Inv, TypeOK
<1>2. Kind[g] = "probe" => shown'[g] = At(g, 1)
  BY DEF Event, Remember, Inv, TypeOK
<1>3. \A j \in Registered(g) : At(g, j)' = At(g, j)
  <2>1. CASE Writes(g)
    <3>1. SetStates(ValuesOf(g)) /\ DOMAIN ValuesOf(g) = NodesOf(g)
      BY <2>1 DEF Event, ValuesOf, NodesOf
    <3>2. QED BY <3>1, DrivenNodes, UnreadUnchanged DEF Inv
  <2>2. CASE ~Writes(g)
    BY <2>2 DEF Event, At
  <2>3. QED BY <2>1, <2>2
<1>4. Kind[g] \in FlipFlops =>
        SetPin(g)' = SetPin(g) /\ ResetPin(g)' = ResetPin(g) /\ At(g, 3)' = At(g, 3)
  BY <1>3, RegisteredCases, OwnPins DEF SetPin, ResetPin
<1>5. Kind[g] = "probe" => At(g, 1)' = At(g, 1)
  BY <1>3, RegisteredCases, OwnPins
<1>6. Writes(g) /\ Kind[g] # "probe" => Follows(g)'
  <2>1. SUFFICES ASSUME Writes(g), Kind[g] # "probe", NEW i \in Driven(g)
                 PROVE  level'[Pin[g][i]] = OutAt(g, i)'
    BY DEF Follows, Driven
  <2>2. SetStates(ValuesOf(g)) /\ DOMAIN ValuesOf(g) = NodesOf(g) /\ Pin[g][i] \in NodesOf(g)
    BY <2>1 DEF Event, ValuesOf, NodesOf
  <2>3. level'[Pin[g][i]] = OutAt(g, i)
    BY <2>2, DrivenNodes DEF SetStates
  <2>4. Kind[g] # "demux"
    <3>1. SUFFICES ASSUME Kind[g] = "demux" PROVE FALSE
      OBVIOUS
    <3>2. i \in Registered(g)
      BY <3>1, RegisteredCases, WaysType DEF Driven, OutPins, Simple, Selectors
    <3>3. QED BY <2>2, <3>2, DrivenNodes, UnreadUnchanged DEF Inv
  <2>5. QED BY <1>3, <2>1, <2>3, <2>4, SameOut
<1>7. g \in Combined => Writes(g) /\ Kind[g] # "probe"
  BY DEF Combined, OfKind, Writes, FlipFlops, Simple, Selectors
<1>8. Kind[g] \in FlipFlops /\ (SetPin(g) \/ ResetPin(g)) => Writes(g) /\ Kind[g] # "probe"
  BY DEF Writes, FlipFlops
<1>9. QED BY <1>1, <1>2, <1>4, <1>5, <1>6, <1>7, <1>8 DEF Current

LEMMA EventReacted ==
  ASSUME Inv, NEW g \in Gate, Event(g)
  PROVE  Reacted' /\ DemuxListed'
<1>1. ASSUME NEW h \in heard', h \notin (due \cup later)' PROVE Current(h)'
  <2>1. CASE h = g
    BY <1>1, <2>1, OwnCurrent
  <2>2. CASE h # g
    <3>1. h \in heard /\ h \in Gate /\ h \notin due
      BY <1>1, <2>2 DEF Event, Inv, TypeOK
    <3>2. clk'[h] = clk[h] /\ shown'[h] = shown[h]
      BY <2>2, <3>1 DEF Event, Remember, Inv, TypeOK
    <3>3. CASE Writes(g)
      <4>1. SetStates(ValuesOf(g)) /\ DOMAIN ValuesOf(g) = NodesOf(g)
        BY <3>3 DEF Event, ValuesOf, NodesOf
      <4>2. \A i \in Driven(h) : Pin[h][i] \notin NodesOf(g)
        BY <2>2, <3>1, DriverAssumption DEF Driven, NodesOf
      <4>3. QED BY <1>1, <3>1, <3>2, <4>1, <4>2, DrivenNodes, OthersCurrent
    <3>4. CASE ~Writes(g)
      <4>1. Current(h) /\ (Kind[h] = "demux" => Driven(h) = {})
        BY <1>1, <3>1, <3>4 DEF Event, Inv, Reacted, DemuxListed
      <4>2. \A j \in Registered(h) : At(h, j)' = At(h, j)
        BY <3>4 DEF Event, At
      <4>3. QED BY <3>1, <3>2, <3>4, <4>1, <4>2, StaysCurrent DEF Event
    <3>5. QED BY <3>3, <3>4
  <2>3. QED BY <2>1, <2>2
<1>2. ASSUME NEW h \in heard', Kind[h] = "demux", Driven(h) # {} PROVE h \in (due \cup later)'
  <2>1. later \subseteq later'
    BY DEF Event, SetStates
  <2>2. CASE h = g
    <3>1. Writes(g)
      BY <1>2, <2>2 DEF Writes, FlipFlops
    <3>2. SetStates(ValuesOf(g)) /\ DOMAIN ValuesOf(g) = NodesOf(g)
      BY <3>1 DEF Event, ValuesOf, NodesOf
    <3>3. PICK i \in Driven(g) : TRUE
      BY <1>2, <2>2
    <3>4. i \in Registered(g)
      BY <1>2, <2>2, RegisteredCases, WaysType DEF Driven, OutPins, Simple, Selectors
    <3>5. Pin[g][i] \in NodesOf(g) /\ g \in Readers(Pin[g][i])
      BY <3>4 DEF NodesOf, Readers
    <3>6. QED BY <2>2, <3>2, <3>5 DEF SetStates
  <2>3. CASE h # g
    BY <1>2, <2>1, <2>3 DEF Event, Inv, DemuxListed
  <2>4. QED BY <2>2, <2>3
<1>3. QED BY <1>1, <1>2 DEF Reacted, DemuxListed, Driven

\* A step that drives nothing and takes nobody from the lists.
LEMMA IdleReacted ==
  ASSUME Inv, UNCHANGED <<level, heard, memory>>, (due \cup later)' = due \cup later
  PROVE  Reacted' /\ DemuxListed'
<1>1. ASSUME NEW g \in heard, g \notin due \cup later PROVE Current(g)'
  <2>1. g \in Gate /\ Current(g) /\ (Kind[g] = "demux" => Driven(g) = {})
    BY <1>1 DEF Inv, TypeOK, Reacted, DemuxListed
  <2>2. \A j \in Registered(g) : At(g, j)' = At(g, j)
    BY DEF At
  <2>3. QED BY <2>1, <2>2, StaysCurrent DEF memory
<1>2. Reacted'
  BY <1>1 DEF Reacted
<1>3. DemuxListed'
  BY DEF Inv, DemuxListed, Driven
<1>4. QED BY <1>2, <1>3

LEMMA InvStep ==
  ASSUME Inv, [Next]_vars
  PROVE  Inv'
<1>1. TypeOK'
  BY TypeStep DEF Inv
<1>2. Reacted' /\ DemuxListed'
  <2>1. CASE UNCHANGED vars
    BY <2>1, IdleReacted DEF vars
  <2>2. CASE BeginStep
    BY <2>2, IdleReacted DEF BeginStep
  <2>3. CASE EndClock \/ EndStep
    BY <2>3, IdleReacted DEF EndClock, EndStep
  <2>4. ASSUME NEW s \in Source, Clock(s) PROVE Reacted' /\ DemuxListed'
    <3>1. UNCHANGED <<due, heard, memory>> /\ source[s] \in Level
      BY <2>4 DEF Clock, Inv, TypeOK
    <3>2. CASE SourcePin(s) = source[s]
      BY <2>4, <3>1, <3>2, IdleReacted DEF Clock
    <3>3. CASE SourcePin(s) # source[s]
      BY <2>4, <3>1, <3>3, DriveReacted DEF Clock
    <3>4. QED BY <3>2, <3>3
  <2>5. ASSUME NEW g \in Gate, Event(g) PROVE Reacted' /\ DemuxListed'
    BY <2>5, EventReacted
  <2>6. ASSUME NEW s \in Source, Click(s) PROVE Reacted' /\ DemuxListed'
    BY <2>6, IdleReacted DEF Click
  <2>7. ASSUME NEW s \in Source, ClickInClock(s) PROVE Reacted' /\ DemuxListed'
    <3>1. source'[s] \in Level
      BY <2>7, ClickType DEF ClickInClock, Inv
    <3>2. QED BY <2>7, <3>1, DriveReacted DEF ClickInClock
  <2>8. QED BY <2>1, <2>2, <2>3, <2>4, <2>5, <2>6, <2>7 DEF Next, Step
<1>3. IdleDelivered'
  BY DEF Inv, IdleDelivered, Next, Step, BeginStep, EndClock, EndStep, Clock, Event, Click,
     ClickInClock, vars
<1>4. QED BY <1>1, <1>2, <1>3 DEF Inv

LEMMA Invariance == Spec => []Inv
  BY InitInv, InvStep, PTL DEF Spec

\* Type correctness of the digital models.
THEOREM TypeCorrect == Spec => []TypeOK
<1>1. Inv => TypeOK
  BY DEF Inv
<1>2. QED BY Invariance, <1>1, PTL

\* An element that has had an event and waits for none is up to date, on every board:
\* the nodes that pfn_init registers an element on are enough for circ_node_set_state.
THEOREM ElementsReacted == Spec => []Reacted
<1>1. Inv => Reacted
  BY DEF Inv
<1>2. QED BY Invariance, <1>1, PTL

-----------------------------------------------------------------------------
(* Settled.                                                                *)

\* A rank of every element of the combined logic that grows along its wires.
Ranks == {rank \in [Combined -> 1..Depth] :
            \A g, h \in Combined : Feeds(h, g) => rank[h] < rank[g]}

\* So many steps after the last move, the elements of a rank that low agree with their
\* inputs; those of the rank that is next do when they have been called in this step.
LowerFollow(rank) ==
  \A g \in Combined \cap heard :
    /\ age > rank[g] => Follows(g)
    /\ age = rank[g] /\ pc # "idle" => Follows(g) \/ g \in due
RanksSettle == \A rank \in Ranks : LowerFollow(rank)

\* What an element of the combined logic asks for depends on its inputs.
LEMMA OutOfInputs ==
  ASSUME NEW g \in Combined, \A j \in InPins(g) : At(g, j)' = At(g, j), NEW i
  PROVE  OutAt(g, i)' = OutAt(g, i)
<1>1. g \in Gate /\ OutPins(g) \subseteq Pins(g)
  BY PinAssumption DEF Combined, OfKind
<1>2. CASE Kind[g] \in Simple
  <2>1. Ones(g)' = Ones(g)
    BY DEF Ones
  <2>2. GateOut(g)' = GateOut(g)
    BY <2>1 DEF GateOut
  <2>3. QED BY <1>1, <1>2, <2>2, OutAtCases, OutAtCasesNext
<1>3. CASE Kind[g] = "buff"
  <2>1. 1 \in InPins(g)
    BY <1>1, <1>3, OwnPins DEF InPins, OutPins, Simple
  <2>2. BuffOut(g)' = BuffOut(g)
    BY <2>1 DEF BuffOut
  <2>3. QED BY <1>1, <1>3, <2>2, OutAtCases, OutAtCasesNext
<1>4. CASE Kind[g] = "mux"
  <2>1. \A j \in 1..(Ways + Lines + 1) : At(g, j)' = At(g, j)
    <3>1. 1..(Ways + Lines + 1) \subseteq InPins(g)
      <4>1. OutPins(g) = {Ways + Lines + 2, Ways + Lines + 3}
        BY <1>4 DEF OutPins, Simple
      <4>2. QED BY <1>1, <1>4, <4>1, OwnPins, WaysType DEF InPins, Selectors
    <3>2. QED BY <3>1
  <2>2. \A k \in 1..3 : Line(g, k)' = Line(g, k)
    BY <2>1, WaysType DEF Line
  <2>3. Selected(g)' = Selected(g)
    BY <2>2 DEF Selected
  <2>4. Selected(g) \in 1..(Ways + Lines + 1)
    BY <1>1, SelectedType, WaysType
  <2>5. \A j \in {Selected(g)} : At(g, j)' = At(g, j)
    BY <2>1, <2>4
  <2>6. At(g, Selected(g))' = At(g, Selected(g)) /\ Enabled(g)' = Enabled(g)
    BY <2>1, <2>3, <2>5, WaysType DEF At, Enabled
  <2>7. MuxOut(g, i)' = MuxOut(g, i)
    BY <2>6 DEF MuxOut
  <2>8. QED BY <1>1, <1>4, <2>7, OutAtCases, OutAtCasesNext
<1>5. CASE Kind[g] = "demux"
  <2>1. \A j \in (Ways + 1)..(Ways + Lines + 2) : At(g, j)' = At(g, j)
    <3>1. (Ways + 1)..(Ways + Lines + 2) \subseteq InPins(g)
      <4>1. OutPins(g) = 1..Ways
        BY <1>5 DEF OutPins, Simple
      <4>2. QED BY <1>1, <1>5, <4>1, OwnPins, WaysType DEF InPins, Selectors
    <3>2. QED BY <3>1
  <2>2. \A k \in 1..3 : Line(g, k)' = Line(g, k)
    BY <2>1, WaysType DEF Line
  <2>3. Selected(g)' = Selected(g)
    BY <2>2 DEF Selected
  <2>4. Enabled(g)' = Enabled(g) /\ At(g, Ways + Lines + 2)' = At(g, Ways + Lines + 2)
    BY <2>1, WaysType DEF Enabled
  <2>5. DemuxOut(g, i)' = DemuxOut(g, i)
    BY <2>3, <2>4 DEF DemuxOut
  <2>6. OutAt(g, i)' = DemuxOut(g, i)'
    BY <1>5 DEF OutAt, Simple
  <2>7. QED BY <1>1, <1>5, <2>5, <2>6, OutAtCases
<1>6. QED BY <1>2, <1>3, <1>4, <1>5 DEF Combined, OfKind, Selectors

\* While the nodes at the pins of an element keep their levels it goes on to agree.
LEMMA KeepsFollowing ==
  ASSUME NEW g \in Combined, Follows(g),
         \A j \in InPins(g) : At(g, j)' = At(g, j),
         \A i \in Driven(g) : level'[Pin[g][i]] = level[Pin[g][i]]
  PROVE  Follows(g)'
  BY OutOfInputs DEF Follows, Driven

LEMMA SameLevelFollows ==
  ASSUME NEW g \in Combined, Follows(g), level' = level
  PROVE  Follows(g)'
  BY KeepsFollowing DEF At

\* The event of an element that agrees already changes no level.
LEMMA FollowingMovesNothing ==
  ASSUME TypeOK, NEW g \in Combined, Event(g), Follows(g)
  PROVE  level' = level
<1>1. g \in Gate /\ Writes(g)
  BY DEF Combined, OfKind, Writes, FlipFlops, Simple, Selectors
<1>2. SetStates(ValuesOf(g)) /\ DOMAIN ValuesOf(g) = NodesOf(g)
  BY <1>1 DEF Event, ValuesOf, NodesOf
<1>3. ASSUME NEW n \in NodesOf(g) PROVE ValuesOf(g)[n] = level[n]
  <2>1. PICK i \in Driven(g) : n = Pin[g][i]
    BY DEF NodesOf
  <2>2. QED BY <1>1, <2>1, DrivenNodes DEF Follows
<1>4. QED BY <1>2, <1>3 DEF SetStates, TypeOK

\* The event of g leaves g in agreement, and every element that g does not feed.
LEMMA EventOfRank ==
  ASSUME TypeOK, NEW rank \in Ranks, NEW g \in Combined, Event(g)
  PROVE  /\ Follows(g)'
         /\ \A h \in Combined : rank[h] <= rank[g] /\ h # g /\ Follows(h) => Follows(h)'
<1>1. g \in Gate /\ Writes(g) /\ Combined \subseteq Gate
  BY DEF Combined, OfKind, Writes, FlipFlops, Simple, Selectors
<1>2. SetStates(ValuesOf(g)) /\ DOMAIN ValuesOf(g) = NodesOf(g)
  BY <1>1 DEF Event, ValuesOf, NodesOf
<1>3. \A n \in Node \ NodesOf(g) : level'[n] = level[n]
  BY <1>2 DEF SetStates
<1>4. \A h \in Combined : rank[h] \in Nat
  BY GatesAssumption DEF Ranks
<1>5. ASSUME NEW h \in Combined, rank[h] <= rank[g], NEW j \in InPins(h)
      PROVE  At(h, j)' = At(h, j)
  <2>1. ~Feeds(g, h)
    BY <1>4, <1>5 DEF Ranks
  <2>2. Pin[h][j] \notin NodesOf(g)
    BY <2>1 DEF Feeds, NodesOf
  <2>3. Pin[h][j] \in Node \cup {NC}
    BY <1>1, PinType DEF InPins
  <2>4. QED BY <1>3, <2>2, <2>3 DEF At
<1>6. Follows(g)'
  <2>1. SUFFICES ASSUME NEW i \in Driven(g) PROVE level'[Pin[g][i]] = OutAt(g, i)'
    BY DEF Follows, Driven
  <2>2. level'[Pin[g][i]] = OutAt(g, i)
    <3>1. Pin[g][i] \in NodesOf(g) /\ NodesOf(g) \subseteq Node
      BY <1>1, DrivenNodes DEF NodesOf
    <3>2. QED BY <1>1, <1>2, <3>1, DrivenNodes DEF SetStates
  <2>3. QED BY <1>4, <1>5, <2>2, OutOfInputs
<1>7. ASSUME NEW h \in Combined, rank[h] <= rank[g], h # g, Follows(h)
      PROVE  Follows(h)'
  <2>1. ASSUME NEW i \in Driven(h) PROVE level'[Pin[h][i]] = level[Pin[h][i]]
    <3>1. Pin[h][i] \notin NodesOf(g)
      BY <1>1, <1>7, DriverAssumption DEF Driven, NodesOf
    <3>2. Pin[h][i] \in Node
      BY <1>1, OwnPins, PinType DEF Driven
    <3>3. QED BY <1>3, <3>1, <3>2
  <2>2. QED BY <1>5, <1>7, <2>1, KeepsFollowing
<1>8. QED BY <1>6, <1>7

LEMMA EventSettles ==
  ASSUME Inv, NEW rank \in Ranks, LowerFollow(rank), NEW g \in Gate, Event(g)
  PROVE  LowerFollow(rank)'
<1>1. \A h \in Combined : rank[h] \in 1..Depth
  BY DEF Ranks
<1>2. age \in Nat /\ Depth \in Nat
  BY GatesAssumption DEF Inv, TypeOK
<1>3. CASE age' = 0
  BY <1>1, <1>2, <1>3 DEF LowerFollow
<1>4. CASE age' # 0
  <2>1. age' = age /\ heard' = heard /\ g \in heard /\ (Kind[g] \in FlipFlops => level' = level)
    BY <1>4 DEF Event
  <2>2. pc = "logic" /\ pc' = "logic" /\ due' = due \ {g}
    BY DEF Event
  <2>3. CASE g \notin Combined
    <3>1. level' = level
      <4>1. CASE Kind[g] = "probe"
        BY <4>1 DEF Event, Writes, FlipFlops
      <4>2. CASE Kind[g] \in FlipFlops
        BY <2>1, <4>2
      <4>3. QED
        BY <2>3, <4>1, <4>2, GatesAssumption DEF Combined, OfKind, Kinds
    <3>2. QED BY <2>1, <2>2, <2>3, <3>1, SameLevelFollows DEF LowerFollow
  <2>4. CASE g \in Combined /\ Follows(g)
    <3>1. level' = level
      BY <2>4, FollowingMovesNothing DEF Inv
    <3>2. QED BY <2>1, <2>2, <2>4, <3>1, SameLevelFollows DEF LowerFollow
  <2>5. CASE g \in Combined /\ ~Follows(g)
    <3>1. age <= rank[g]
      BY <1>1, <1>2, <2>1, <2>5 DEF LowerFollow
    <3>2. ASSUME NEW h \in Combined \cap heard, rank[h] <= age
          PROVE  /\ age > rank[h] => Follows(h)'
                 /\ age = rank[h] => Follows(h)' \/ h \in due'
      <4>1. CASE h = g
        BY <1>2, <2>5, <3>1, <3>2, <4>1, EventOfRank DEF Inv
      <4>2. CASE h # g
        <5>1. rank[h] <= rank[g]
          BY <1>1, <1>2, <2>5, <3>1, <3>2
        <5>2. Follows(h) => Follows(h)'
          BY <2>5, <4>2, <5>1, EventOfRank DEF Inv
        <5>3. QED BY <2>2, <3>2, <4>2, <5>2 DEF LowerFollow
      <4>3. QED BY <4>1, <4>2
    <3>3. QED BY <1>1, <1>2, <2>1, <2>2, <3>2 DEF LowerFollow
  <2>6. QED BY <2>3, <2>4, <2>5
<1>5. QED BY <1>3, <1>4

LEMMA DriveSettles ==
  ASSUME Inv, NEW rank \in Ranks, LowerFollow(rank), NEW s \in Source, NEW l,
         DriveSource(s, l), UNCHANGED <<pc, due, heard>>
  PROVE  LowerFollow(rank)'
<1>1. \A h \in Combined : rank[h] \in 1..Depth
  BY DEF Ranks
<1>2. CASE age' = 0
  BY <1>1, <1>2, GatesAssumption DEF LowerFollow
<1>3. CASE age' # 0
  <2>1. age' = age /\ level' = level
    <3>1. CASE Pin[s][1] = NC
      BY <3>1 DEF DriveSource
    <3>2. CASE Pin[s][1] # NC
      BY <1>3, <3>2 DEF DriveSource, SetStates, Inv, TypeOK
    <3>3. QED BY <3>1, <3>2
  <2>2. QED BY <2>1, SameLevelFollows DEF LowerFollow
<1>4. QED BY <1>2, <1>3

LEMMA SettleStep ==
  ASSUME Inv, RanksSettle, [Next]_vars
  PROVE  RanksSettle'
<1>1. SUFFICES ASSUME NEW rank \in Ranks PROVE LowerFollow(rank)'
  <2>1. Ranks' = Ranks
    BY DEF Ranks, Combined, OfKind, Feeds, Driven
  <2>2. QED BY <2>1 DEF RanksSettle
<1>2. LowerFollow(rank)
  BY DEF RanksSettle
<1>3. \A h \in Combined : rank[h] \in 1..Depth
  BY DEF Ranks
<1>4. CASE UNCHANGED vars
  BY <1>2, <1>4, SameLevelFollows DEF vars, LowerFollow
<1>5. CASE BeginStep
  <2>1. ASSUME NEW g \in Combined \cap heard PROVE Follows(g) \/ g \in due'
    BY <1>5 DEF BeginStep, Inv, IdleDelivered, Reacted, Current
  <2>2. QED BY <1>2, <1>5, <2>1, SameLevelFollows DEF BeginStep, LowerFollow
<1>6. CASE EndClock
  BY <1>2, <1>6, SameLevelFollows DEF EndClock, LowerFollow
<1>7. CASE EndStep
  <2>1. age \in Nat /\ Depth \in Nat
    BY GatesAssumption DEF Inv, TypeOK
  <2>2. \A g \in Combined \cap heard : age >= rank[g] => Follows(g)
    BY <1>2, <1>3, <1>7, <2>1 DEF EndStep, LowerFollow
  <2>3. \A g \in Combined \cap heard : age' > rank[g] => age >= rank[g]
    BY <1>3, <1>7, <2>1 DEF EndStep
  <2>4. QED BY <1>7, <2>2, <2>3, SameLevelFollows DEF EndStep, LowerFollow
<1>8. ASSUME NEW s \in Source, Clock(s) PROVE LowerFollow(rank)'
  <2>1. CASE SourcePin(s) = source[s]
    BY <1>2, <1>8, <2>1, SameLevelFollows DEF Clock, LowerFollow
  <2>2. CASE SourcePin(s) # source[s]
    BY <1>2, <1>8, <2>2, DriveSettles DEF Clock
  <2>3. QED BY <2>1, <2>2
<1>9. ASSUME NEW g \in Gate, Event(g) PROVE LowerFollow(rank)'
  BY <1>2, <1>9, EventSettles
<1>10. ASSUME NEW s \in Source, Click(s) PROVE LowerFollow(rank)'
  BY <1>2, <1>10, SameLevelFollows DEF Click, LowerFollow
<1>11. ASSUME NEW s \in Source, ClickInClock(s) PROVE LowerFollow(rank)'
  BY <1>2, <1>11, DriveSettles DEF ClickInClock
<1>12. QED
  BY <1>4, <1>5, <1>6, <1>7, <1>8, <1>9, <1>10, <1>11 DEF Next, Step

\* Combined logic settles, on every board: Depth steps after the last move of a source or
\* a flip-flop and the last first event of an element, every element of a logic without
\* rings agrees with its truth table (circ_node_set_state raises an event for a level
\* that stays, which is what keeps a demultiplexer going).
THEOREM LogicSettles == Spec => []Settled
<1>1. Init => RanksSettle
  BY DEF Init, RanksSettle, LowerFollow
<1>2. RanksSettle /\ TypeOK => Settled
  <2>1. SUFFICES ASSUME RanksSettle, TypeOK, Levelled, age > Depth,
                        NEW g \in Combined \cap heard
                 PROVE  Follows(g)
    BY DEF Settled
  <2>2. PICK rank \in Ranks : TRUE
    BY <2>1 DEF Levelled, Ranks
  <2>3. rank[g] \in 1..Depth /\ age \in Nat /\ Depth \in Nat
    BY <2>1, GatesAssumption DEF Ranks, TypeOK
  <2>4. age > rank[g]
    BY <2>1, <2>3
  <2>5. QED BY <2>1, <2>4 DEF RanksSettle, LowerFollow
<1>3. Inv => TypeOK
  BY DEF Inv
<1>4. QED BY <1>1, <1>2, <1>3, Invariance, SettleStep, PTL DEF Spec

-----------------------------------------------------------------------------
(* Refinement of EventDelta.                                               *)

LEMMA DriveDelta ==
  ASSUME NEW s \in Source, NEW l, DriveSource(s, l), due' = due
  PROVE  \/ \E S \in SUBSET Gate : Delta!Raise(S)
         \/ UNCHANGED Delta!vars
<1>1. CASE later' = later
  BY <1>1 DEF Delta!vars
<1>2. CASE later' # later
  <2> DEFINE S == Readers(Pin[s][1])
  <2>1. later' = later \cup S
    BY <1>2 DEF DriveSource, SetStates
  <2>2. S \subseteq Gate /\ S # {}
    BY <1>2, <2>1 DEF Readers
  <2>3. Delta!Raise(S)
    BY <2>1, <2>2 DEF Delta!Raise
  <2>4. QED BY <2>2, <2>3
<1>3. QED BY <1>1, <1>2

LEMMA EventDelivers ==
  ASSUME TypeOK, NEW g \in Gate, Event(g)
  PROVE  \E S \in SUBSET Gate : Delta!Deliver(g, S)
<1> DEFINE R == UNION {Readers(n) : n \in NodesOf(g)}
<1>1. R \in SUBSET Gate
  BY DEF Readers
<1>2. CASE Writes(g)
  <2>1. SetStates(ValuesOf(g)) /\ DOMAIN ValuesOf(g) = NodesOf(g)
    BY <1>2 DEF Event, ValuesOf, NodesOf
  <2>2. later' = later \cup R
    BY <2>1 DEF SetStates
  <2>3. Delta!Deliver(g, R)
    BY <2>2 DEF Event, Delta!Deliver
  <2>4. QED BY <1>1, <2>3
<1>3. CASE ~Writes(g)
  <2>1. Delta!Deliver(g, {})
    BY <1>3 DEF Event, Delta!Deliver
  <2>2. QED BY <2>1
<1>4. QED BY <1>2, <1>3

\* Every step of the digital models is a step of EventDelta or changes neither list.
LEMMA DeltaStep ==
  ASSUME Inv, [Next]_vars
  PROVE  [Delta!Next]_(Delta!vars)
<1>1. CASE UNCHANGED vars
  BY <1>1 DEF vars, Delta!vars
<1>2. CASE BeginStep
  BY <1>2 DEF BeginStep, Delta!Next, Delta!Begin, Inv, IdleDelivered
<1>3. CASE EndClock \/ EndStep
  BY <1>3 DEF EndClock, EndStep, Delta!vars
<1>4. ASSUME NEW s \in Source, Clock(s) PROVE [Delta!Next]_(Delta!vars)
  <2>1. CASE SourcePin(s) = source[s]
    BY <1>4, <2>1 DEF Clock, Delta!vars
  <2>2. CASE SourcePin(s) # source[s]
    BY <1>4, <2>2, DriveDelta DEF Clock, Delta!Next
  <2>3. QED BY <2>1, <2>2
<1>5. ASSUME NEW g \in Gate, Event(g) PROVE [Delta!Next]_(Delta!vars)
  BY <1>5, EventDelivers DEF Delta!Next, Inv
<1>6. ASSUME NEW s \in Source, Click(s) PROVE [Delta!Next]_(Delta!vars)
  BY <1>6 DEF Click, Delta!vars
<1>7. ASSUME NEW s \in Source, ClickInClock(s) PROVE [Delta!Next]_(Delta!vars)
  BY <1>7, DriveDelta DEF ClickInClock, Delta!Next
<1>8. QED BY <1>1, <1>2, <1>3, <1>4, <1>5, <1>6, <1>7 DEF Next, Step

\* The lists of the digital models are those of EventDelta, on every board: an event
\* is delivered once, in the step after the one that raised it.
THEOREM RefinesDelta == Spec => ImplementsDelta
<1>1. Init => Delta!Init
  BY DEF Init, Delta!Init
<1>2. QED BY <1>1, Invariance, DeltaStep, PTL DEF Spec, ImplementsDelta, Delta!SafeSpec
=============================================================================
