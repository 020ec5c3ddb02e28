------------------------------- MODULE Gates -------------------------------
(***************************************************************************)
(* The digital models of opendsim-core/models with the levels of their      *)
(* nodes: gates, buffer, multiplexer, demultiplexer, flip-flops, the probe   *)
(* LOGICSTATE and the driver source, in the logic phase of circuit_run_step.  *)
(*                                                                         *)
(* Circuit.tla has the lists of the scheduler and abstracts the levels; here  *)
(* the two logic lists are due (being delivered) and later (being filled),    *)
(* and pfn_event computes.  Digital elements alone: no port is written and no  *)
(* callback fails.                                                         *)
(***************************************************************************)
EXTENDS Naturals, FiniteSets, Sequences

CONSTANTS
  Node,            \* digital_node_list
  NC,              \* the node of a pin that is not connected
  Source,          \* DRVSRC elements
  Gate,            \* the other digital elements
  Kind,            \* [Gate -> Kinds]
  Reversed,        \* the gates with param->reversed
  Pin,             \* [Gate \cup Source -> Seq(Node \cup {NC})]  pin_vector
  Lines,           \* select lines of MUX and DEMUX: 3 in the code
  Depth,           \* elements on the longest path between sources and flip-flops
  MaxClicks        \* bound: clicks on the sources

\* logic_state_t: no element writes SIG_RISE or SIG_FALL, and the editor never sets
\* the parameter "gate" of a source, which could.
Level == {"LOW", "HIGH", "FLOAT"}

Simple    == {"and", "or", "xor"}            \* template-gate.h
Selectors == {"mux", "demux"}
FlipFlops == {"dff", "jk"}
Kinds     == Simple \cup Selectors \cup FlipFlops \cup {"buff", "probe"}

OfKind(K) == {g \in Gate : Kind[g] \in K}
Pins(g) == 1..Len(Pin[g])
Ways == <<2, 4, 8>>[Lines]

\* The pins an element writes, counted from one.
OutPins(g) ==
  CASE Kind[g] \in Simple -> {Len(Pin[g])}
    [] Kind[g] = "buff"   -> {2}
    [] Kind[g] = "mux"    -> {Ways + Lines + 2, Ways + Lines + 3}
    [] Kind[g] = "demux"  -> 1..Ways
    [] Kind[g] = "dff"    -> {5, 6}
    [] Kind[g] = "jk"     -> {6, 7}
    [] OTHER              -> {}
InPins(g) == Pins(g) \ OutPins(g)

\* The pins whose nodes pfn_init puts the element on the logic_list of: a gate and
\* a multiplexer their inputs, a demultiplexer the first Ways + Lines + 1 pins,
\* without the data pin, the others every pin.  A mutated form forgets one pin.
RegisteredButThird(g) ==
  (IF Kind[g] \in Selectors THEN 1..(Ways + Lines + 1) ELSE Pins(g)) \ {3}
Registered(g) ==
  CASE Kind[g] \in Simple    -> InPins(g)
    [] Kind[g] \in Selectors -> 1..(Ways + Lines + 1)
    [] OTHER                 -> Pins(g)
Readers(n) == {g \in Gate : \E i \in Registered(g) : Pin[g][i] = n}

ASSUME GatesAssumption ==
  /\ NC \notin Node /\ Source \cap Gate = {}
  /\ Kind \in [Gate -> Kinds] /\ Reversed \subseteq Gate
  /\ Pin \in [Gate \cup Source -> Seq(Node \cup {NC})]
  /\ Lines \in 1..3 /\ Depth \in Nat /\ MaxClicks \in Nat

\* Every pin that an element of its kind uses exists.
ASSUME PinAssumption ==
  /\ \A s \in Source : Len(Pin[s]) = 1
  /\ \A g \in Gate : OutPins(g) \cup Registered(g) \subseteq Pins(g)
  /\ \A g \in OfKind({"demux"}) : Len(Pin[g]) = Ways + Lines + 2
  /\ \A g \in OfKind(FlipFlops) : Len(Pin[g]) = IF Kind[g] = "dff" THEN 6 ELSE 7
  /\ \A g \in OfKind({"buff"}) : Len(Pin[g]) = 2
  /\ \A g \in OfKind({"probe"}) : Len(Pin[g]) = 1

\* A node has one driver: the code does not resolve two.
ASSUME DriverAssumption ==
  /\ \A g \in Gate : \A i \in OutPins(g) : Pin[g][i] # NC =>
       /\ \A h \in Gate : \A j \in OutPins(h) : Pin[h][j] = Pin[g][i] => h = g /\ j = i
       /\ \A s \in Source : Pin[s][1] # Pin[g][i]
  /\ \A s, t \in Source : Pin[s][1] = Pin[t][1] => s = t \/ Pin[s][1] = NC

VARIABLES
  pc,              \* "idle", or the phase of the step
  level,           \* circ_node_t.logic_state
  due, later,      \* the list being delivered, the list being filled
  todo,            \* sources whose clock this step has still to call
  source,          \* drvsrc_param_t.state
  clk,             \* flipflop param->clk
  shown,           \* logicstate_param_t.state
  clicks,          \* bound
  heard,           \* history: elements that have had an event
  age              \* history: steps since a source or a flip-flop moved a level, or an
                   \* element had its first event

inputs == <<source, clicks>>
memory == <<clk, shown>>
vars == <<pc, level, due, later, todo, inputs, memory, heard, age>>

TypeOK ==
  /\ pc \in {"idle", "clock", "logic"}
  /\ level \in [Node -> Level]
  /\ due \subseteq Gate /\ later \subseteq Gate /\ todo \subseteq Source
  /\ source \in [Source -> Level] /\ clicks \in 0..MaxClicks
  /\ clk \in [Gate -> BOOLEAN] /\ shown \in [Gate -> Level]
  /\ heard \subseteq Gate /\ age \in 0..(Depth + 1)

-----------------------------------------------------------------------------
(* What the models compute.                                                *)

\* logic_reversed.
Reverse(l) == CASE l = "LOW" -> "HIGH" [] l = "HIGH" -> "LOW" [] OTHER -> "FLOAT"
Bit(b) == IF b THEN "HIGH" ELSE "LOW"

\* circ_pin_get_state.
At(g, i) == IF Pin[g][i] = NC THEN "FLOAT" ELSE level[Pin[g][i]]

\* D_GATE_OPERATOR on the inputs that are high.
Ones(g) == {i \in InPins(g) : At(g, i) = "HIGH"}
GateOut(g) ==
  Bit((g \in Reversed) # (CASE Kind[g] = "and" -> Ones(g) = InPins(g)
                          [] Kind[g] = "or"  -> Ones(g) # {}
                          [] OTHER           -> Cardinality(Ones(g)) = 1))

BuffOut(g) == IF g \in Reversed THEN Reverse(At(g, 1)) ELSE At(g, 1)

\* The way that the select lines name: a line that is SIG_HIGH adds its weight.
bindec_table == <<1, 2, 4>>
Line(g, k) == IF k <= Lines /\ At(g, Ways + k) = "HIGH" THEN bindec_table[k] ELSE 0
Selected(g) == 1 + Line(g, 1) + Line(g, 2) + Line(g, 3)
Enabled(g) == At(g, Ways + Lines + 1) = "LOW"

\* Output pin i of an enabled and of a disabled selector.
MuxOut(g, i) ==
  IF ~Enabled(g) THEN "FLOAT"
  ELSE IF i = Ways + Lines + 2 THEN At(g, Selected(g)) ELSE Reverse(At(g, Selected(g)))
DemuxOut(g, i) ==
  IF ~Enabled(g) THEN "FLOAT"
  ELSE IF i = Selected(g) THEN At(g, Ways + Lines + 2) ELSE "LOW"

\* A flip-flop: SET and RST are active when LOW, and SET goes before RST in JK, where
\* the branch for both falls through into the one for SET.  A mutated form of the
\* edge latches while the clock is high.
SetPin(g) == At(g, 1) = "LOW"
ResetPin(g) == At(g, 2) = "LOW"
RisingLevel(g) == At(g, 3) = "HIGH"
Rising(g) == ~clk[g] /\ At(g, 3) = "HIGH"
Latched(g) ==
  IF Kind[g] = "dff" THEN At(g, 4)
  ELSE LET high == At(g, 6) = "HIGH" IN
       Bit((At(g, 4) = "HIGH" /\ ~high) \/ (At(g, 5) # "HIGH" /\ high))
QPin(g) == IF Kind[g] = "dff" THEN 5 ELSE 6
FlipOut(g, i) ==
  IF SetPin(g) /\ ResetPin(g) /\ Kind[g] = "dff" THEN "HIGH"
  ELSE IF SetPin(g) THEN Bit(i = QPin(g))
  ELSE IF ResetPin(g) THEN Bit(i # QPin(g))
  ELSE IF i = QPin(g) THEN Latched(g) ELSE Reverse(Latched(g))

\* What the event of g writes on its pin i; a flip-flop only writes when it has a
\* reason to, a probe never.
Writes(g) ==
  IF Kind[g] \in FlipFlops THEN SetPin(g) \/ ResetPin(g) \/ Rising(g)
  ELSE Kind[g] # "probe"
OutAt(g, i) ==
  CASE Kind[g] \in Simple    -> GateOut(g)
    [] Kind[g] = "buff"      -> BuffOut(g)
    [] Kind[g] = "mux"       -> MuxOut(g, i)
    [] Kind[g] = "demux"     -> DemuxOut(g, i)
    [] OTHER                 -> FlipOut(g, i)

-----------------------------------------------------------------------------
Init ==
  /\ pc = "idle" /\ due = {} /\ later = {} /\ todo = {}
  /\ level = [n \in Node |-> "LOW"]
  /\ source = [s \in Source |-> "FLOAT"]
  /\ clk = [g \in Gate |-> FALSE] /\ shown = [g \in Gate |-> "LOW"]
  /\ clicks = 0 /\ heard = {} /\ age = 0

\* circ_node_set_state on the nodes of f, each to its value, whatever their level
\* was; a mutated form tells the readers only of a level that changes.
SetStatesIfMoved(f) ==
  /\ level' = [n \in Node |-> IF n \in DOMAIN f THEN f[n] ELSE level[n]]
  /\ later' = later \cup UNION {Readers(n) : n \in {m \in DOMAIN f : f[m] # level[m]}}
SetStates(f) ==
  /\ level' = [n \in Node |-> IF n \in DOMAIN f THEN f[n] ELSE level[n]]
  /\ later' = later \cup UNION {Readers(n) : n \in DOMAIN f}

\* The two lists are exchanged: circuit.c:168-177.  A mutated form delivers the
\* list that is being filled.
BeginStepShared ==
  /\ pc = "idle"
  /\ pc' = "clock" /\ todo' = Source
  /\ due' = later /\ later' = later
  /\ UNCHANGED <<level, inputs, memory, heard, age>>
BeginStep ==
  /\ pc = "idle"
  /\ pc' = "clock" /\ todo' = Source
  /\ due' = later /\ later' = due
  /\ UNCHANGED <<level, inputs, memory, heard, age>>

\* drvsrc_clock with the state l: a node at another level is driven.
DriveSource(s, l) ==
  LET n == Pin[s][1] IN
  IF n = NC THEN UNCHANGED <<level, later, age>>
  ELSE SetStates([m \in {n} |-> l]) /\ age' = IF level[n] = l THEN age ELSE 0

SourcePin(s) == IF Pin[s][1] = NC THEN "FLOAT" ELSE level[Pin[s][1]]

Clock(s) ==
  /\ pc = "clock" /\ s \in todo
  /\ todo' = todo \ {s}
  /\ IF SourcePin(s) = source[s] THEN UNCHANGED <<level, later, age>>
     ELSE DriveSource(s, source[s])
  /\ UNCHANGED <<pc, due, inputs, memory, heard>>

\* A click on a source takes its state to HIGH or LOW, on the GUI thread, also
\* between the two times that drvsrc_clock reads it; a mutated form goes through
\* the enumeration.
ToggledNext(l) == CASE l = "LOW" -> "RISE" [] l = "RISE" -> "HIGH" [] OTHER -> "LOW"
Toggled(l) == IF l = "HIGH" THEN "LOW" ELSE "HIGH"
MayClick(s) ==
  /\ clicks < MaxClicks /\ clicks' = clicks + 1
  /\ source' = [source EXCEPT ![s] = Toggled(@)]

Click(s) ==
  /\ MayClick(s)
  /\ UNCHANGED <<pc, level, due, later, todo, memory, heard, age>>

ClickInClock(s) ==
  /\ pc = "clock" /\ s \in todo /\ SourcePin(s) # source[s]
  /\ MayClick(s)
  /\ todo' = todo \ {s}
  /\ DriveSource(s, source'[s])
  /\ UNCHANGED <<pc, due, memory, heard>>

EndClock ==
  /\ pc = "clock" /\ todo = {}
  /\ pc' = "logic"
  /\ UNCHANGED <<level, due, later, todo, inputs, memory, heard, age>>

\* pfn_event of g: it reads its pins, drives its outputs and keeps what it has to; a
\* mutated form does not remember the clock.
RememberRise(g) ==
  /\ clk' = IF Kind[g] \in FlipFlops
              THEN [clk EXCEPT ![g] = @ \/ At(g, 3) = "HIGH"] ELSE clk
  /\ shown' = IF Kind[g] = "probe" THEN [shown EXCEPT ![g] = At(g, 1)] ELSE shown
Remember(g) ==
  /\ clk' = IF Kind[g] \in FlipFlops THEN [clk EXCEPT ![g] = At(g, 3) = "HIGH"] ELSE clk
  /\ shown' = IF Kind[g] = "probe" THEN [shown EXCEPT ![g] = At(g, 1)] ELSE shown

Driven(g) == {i \in OutPins(g) : Pin[g][i] # NC}

Event(g) ==
  /\ pc = "logic" /\ g \in due
  /\ due' = due \ {g} /\ heard' = heard \cup {g}
  /\ IF Writes(g)
       THEN SetStates([n \in {Pin[g][i] : i \in Driven(g)} |->
                         OutAt(g, CHOOSE i \in Driven(g) : Pin[g][i] = n)])
       ELSE UNCHANGED <<level, later>>
  /\ Remember(g)
  /\ age' = IF g \notin heard \/ (Kind[g] \in FlipFlops /\ level' # level) THEN 0 ELSE age
  /\ UNCHANGED <<pc, todo, inputs>>

\* hashmap_clear on the list, which every member has left; the step is over.
EndStep ==
  /\ pc = "logic" /\ due = {}
  /\ pc' = "idle"
  /\ age' = IF age > Depth THEN age ELSE age + 1
  /\ UNCHANGED <<level, due, later, todo, inputs, memory, heard>>

Step ==
  \/ BeginStep \/ EndClock \/ EndStep
  \/ \E s \in Source : Clock(s)
  \/ \E g \in Gate : Event(g)

Next ==
  \/ Step
  \/ \E s \in Source : Click(s) \/ ClickInClock(s)

Spec == Init /\ [][Next]_vars /\ WF_vars(Step)

-----------------------------------------------------------------------------
(* Properties.                                                             *)

\* The elements without a memory, and the outputs of g that agree with its inputs.
Combined == OfKind(Simple \cup Selectors \cup {"buff"})
Follows(g) == \A i \in Driven(g) : level[Pin[g][i]] = OutAt(g, i)

\* An element that has had an event and is on neither list is up to date: its
\* outputs are what its inputs ask for now, a flip-flop remembers the present level
\* of its clock and a probe shows its node.  That is what pfn_init registers for.
Current(g) ==
  /\ (g \in Combined \/ (Kind[g] \in FlipFlops /\ (SetPin(g) \/ ResetPin(g)))) => Follows(g)
  /\ Kind[g] \in FlipFlops => clk[g] = (At(g, 3) = "HIGH")
  /\ Kind[g] = "probe" => shown[g] = At(g, 1)
Reacted == \A g \in heard \ (due \cup later) : Current(g)

\* Combined logic without a ring: its elements stand in at most Depth ranks, and an
\* element only reads what elements of lower ranks drive.
Feeds(h, g) == \E i \in Driven(h) : \E j \in InPins(g) : Pin[g][j] = Pin[h][i]
Levelled ==
  \E rank \in [Combined -> 1..Depth] :
    \A g, h \in Combined : Feeds(h, g) => rank[h] < rank[g]

\* Combined logic settles: as many steps after the last move of a source or of a
\* flip-flop, and after the last first event, as there are elements in line, every
\* output of an element that has had an event is what the inputs ask for, also the
\* output of a demultiplexer, which is never told of its data.
Settled ==
  Levelled /\ pc = "idle" /\ age > Depth => \A g \in Combined \cap heard : Follows(g)

\* When nobody clicks any more the levels come to rest, although buffers, selectors
\* and held flip-flops raise events for ever.
ComesToRest == <>[](pc = "idle" => age > Depth)

\* The two lists are the delta cycles of EventDelta: an event raised while events are
\* delivered waits for the next step, and is delivered once.
Delta == INSTANCE EventDelta WITH Sink <- Gate, failures <- 0
ImplementsDelta == Delta!SafeSpec
=============================================================================
