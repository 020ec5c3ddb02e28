# Verification of OpenDSIM

TLA+ specifications of OpenDSIM, a simulator for circuits with an analog and a
digital half: the scheduler that steps a circuit, the container its lists are
made of, the editor in which a schema is drawn, the netlist made of it, the session
that compiles it and runs it on a worker thread, the digital elements, and the AVR
microcontroller that may be a part of it. The modules are checked with TLC on small
instances; the invariants of the scheduler, of the session, of the editor and the netlists made
of its documents, of the digital elements, of the hash map and of the AVR are proved with TLAPS
for every value of the constants. Line numbers refer to the repository.

## 1. Inventory

| Component | Code | State | Operations | Module |
|---|---|---|---|---|
| Simulation scheduler | `opendsim-core/circuit/circuit.c` | two logic lists and the flag that names the one being filled, the reactive, fast and non-linear lists, `changed_node_list`, two counters | `circuit_init`, `circuit_run_step`, `circuit_fast_update`, `circuit_stop` | `Circuit` |
| Nodes and pins | `circ-node.c`, `circ-pin.c` | voltage or level, stamps by pin, `changed`, lists of elements to notify | stamp, set voltage, set state, connect | `Circuit` (stamps and notification) |
| Matrix | `math/circ-matrix/circmatrix.c` | admittances, currents, factors, two dirty flags | rebuild a row, factor and solve | `Circuit` (when it runs, returns early, fails) |
| Hash map | `util/hashmap.c`, `dsim/hashmap.h` | buckets of chains, collected nodes | find, add, remove, clear, iterate | `HashMap` |
| Element models | `opendsim-core/models` | parameters | init, stamp, vchanged, clock, event | elements of `Circuit`; the digital ones `Gates` |
| AVR | `models/d-mcu-avr` | `next_cycle`, `steps_pclk`, ports | clock runs instructions until the cycle counter has caught up; event of a pin; reset; a port write calls `circuit_fast_update` | `Avr`; `PortWrite` of `Circuit` |
| simavr | `models/d-mcu-avr/thirdparty/sim` (vendored) | core state, interrupt table with its fifo, cycle timers, devices | run one instruction, expire timers, serve interrupts, sleep | `AvrInterrupts`, `CycleTimers`, `Avr` |
| Session | `schemasheet.cxx`, `schemaeditorform.cxx`, `mainwindow.cxx` | edit state, timer, canceled, future, circuit, compiled, nodes | View netlist, Step, Run, Restart, End, close, timer event | `Session` |
| Netlist generation | `SchemaSheet::generateNetlist` | ports, union-find sets, `m_nodes` | generate | `Netlist`; `Session` (when it runs) |
| Editor | `schemaview*.cxx`, `element*.cxx`, `idallocator.cxx` | elements in order, ids, wires with two ports, joints, the mouse handlers in force, the wire being drawn | place, draw, join, delete, give up, save and open, close | `Schema` |
| Instruments | `instruments/`, `instrumentmanagement.*` | list of instruments, sample buffers | `clockTick` (GUI), `syncClockTick` (worker) | - |
| Documents | `lispdataset.cxx`, `scheme-intr/` | buffer, lexer, tree | open, save | - |
| Containers, strings, memory, log | `util/` | - | - | - |

How they interact. A timer of `SchemaSheet` starts `runLoop` on a thread of the
pool whenever the one before has finished; `runLoop` is one `circuit_run_step`,
that is `steprate` simulation steps. A step calls elements; an element stamps its
nodes, drives digital nodes, and thereby adds nodes and elements to the
circuit's lists while the circuit iterates them. A moved voltage, found when the
matrix is solved, adds elements too. An AVR writes a port out of its clock
callback, and `circuit_fast_update` then calls the readers of the pin in the
middle of the step; a digital node that changes reaches the AVR as an event of its
pin. The editor's elements become nodes through `generateNetlist`, which `compile`
reads. The GUI thread waits for the worker only inside `SchemaSheet::end`, which
`compile` calls as well.

What is hard: lists that are extended, and maps that are rehashed, while they are
iterated; a `return rc` at any callback, which leaves lists half served for the
next call; rounds that take place every 50th or 10th step only; a fast update
nested in a step; commands that interleave with a worker and a timer; one edit
state for several documents; node lists kept across edits; destructors of wires
that delete joints that delete wires; interrupts that are raised, cleared and
raised again while a fifo keeps the old entries; timers whose callbacks register
and cancel timers; a reset in the middle of any of it. PROJECT.json
lists each such hazard at its line, with the properties that cover it.

What makes each part correct:

- scheduler: no change of a voltage and no event is forgotten; an event costs one
  step; a step ends with the stamped circuit solved; rounds start when they are due;
- hash map: it is a set of keys, a node's memory is in one place, an iteration
  meets every node once;
- editor and netlist: wires and ports name each other, an edit changes only the nets
  it is about, the nodes of the circuit are the nets of the drawing;
- digital elements: an element that waits for no event is up to date, logic settles
  to its truth tables, a flip-flop sees each edge once;
- AVR: an interrupt that is pending is served once interrupts are on, a device that
  waits has its timer, a clock of the circuit comes back;
- session: a circuit is stepped by one thread, compiled, and never freed under it;
  End is final; what the window says is what happens; no stale node is used.

## 2. Modules

| Module | Models | Composed with |
|---|---|---|
| `Circuit` | circuit.c, with the stamping and notifying half of circ-node.c | |
| `EventDelta` | abstract: delta cycles | refined by `Circuit` and by `Gates` (`ImplementsDelta`) |
| `CircuitLatency` | the waits of every element, on top of `Circuit` | extends `Circuit` |
| `CircuitProofs` | theorems about `Circuit` | extends `Circuit` |
| `LatencyProofs` | the theorem about the waits | extends `CircuitLatency`, `CircuitProofs` |
| `Gates` | the digital models with the levels of their nodes | |
| `GatesProofs` | theorems about `Gates` | extends `Gates` |
| `HashMap` | hashmap.c and its macros | |
| `HashMapProofs` | theorems about `HashMap` | extends `HashMap` |
| `KeySet` | abstract: a set of keys, what `Circuit` takes the map for | refined by `HashMap` (`ImplementsKeySet`) |
| `Session` | schemasheet.cxx, the debug slots of mainwindow.cxx | |
| `SessionProofs` | theorems about `Session` | extends `Session` |
| `Schema` | the wire graph of a document and the mouse and key handlers | |
| `Netlist` | `generateNetlist` on the documents of `Schema` | extends `Schema` |
| `SchemaProofs` | theorems about `Schema` | extends `Netlist`, for the folds of both |
| `NetlistProofs` | theorems about `Netlist` | extends `Netlist`, `SchemaProofs` |
| `Nets` | abstract: pins fall into nets that are connected and cut | refined by `Netlist` (`ImplementsNets`) |
| `AvrInterrupts` | sim_interrupts.c as operators on a record | |
| `CycleTimers` | sim_cycle_timers.c as operators on a sequence | |
| `Avr` | mcu_avr_clock, the run loop of sim_avr.c, INT0, watchdog, converter, sender | extends `AvrInterrupts`, `CycleTimers` |
| `AvrProofs` | theorems about the interrupts, devices and timers of `Avr` | extends `Avr` |
| `MCCircuit`, `MCDigital`, `MCAdc`, `MCGates`, `MCHashMap`, `MCSession`, `MCSchema`, `MCAvr` | instances for TLC | |

### Circuit

The topology is constant: which nodes there are, which elements the node's
`changed_fast_list`, `react_list`, `non_linear_list` and `logic_list` name, which
nodes an element stamps and drives, which elements have a clock, a port, an
event callback. A callback is one step of the model (`VChanged`, `Clock`,
`Event`, `FastVChanged`, `FastEvent`) and may do any part of what its element can
do; the scheduler's code between two callbacks is another (`BeginStep`, `EndReact`,
`EndFast`, `EndClock`, `EndLogic`, `EndNonLin`, `NonLinSolve`, `Solve`, `Sync`). `pc`
names the place in `circuit_run_step` or `circuit_fast_update`, `todo` and `ftodo`
are what the two iterations have still to visit.

| Variable | Code |
|---|---|
| `left`, `reactCount`, `nonLinCount`, `loops` | `steprate - i`, `react_count`, `non_linear_count`, `counter` |
| `ping`, `logic` | `logic_list_curr_ping`, `logic_list_ping` and `logic_list_pong` |
| `react`, `fast`, `nonlin`, `changedNodes` | the lists of `circuit_t` |
| `changed` | `circ_node_t.changed` |
| `dirty` | `circ_matrix_t.admit_changed`, `curr_changed` |
| `caller`, `ftodo`, `writes` | the MCU inside `port_reg_cb` |
| `staleV`, `staleL`, `nested` | history: inputs that changed since the element was called |

Voltages and levels are abstracted to "it moved": a solution moves any set of
nodes, a callback drives any of its outputs. This over-approximates the numerics,
so an invariant that holds here holds with them. Every `return rc` is an action:
`VChangedFails`, `ClockFails`, `EventFails`, `SolverFails` (singular, or NaN met
half way), `SyncFails`, `InitFails`, and `FastFails`, which `port_reg_cb` ignores. In
`Stop`, which is one step, an element that fails leaves those after it unstamped.
A failed step leaves its lists, and the next call begins anew on them, as the
worker does since nobody reads what `runLoop` returns. Memory that runs out and
an allocation that fails inside a list operation are not modelled.

`FastEvent` models the one place where the list being iterated is the list being
filled: a new member may be put before or behind the iteration and a rehash may
reorder what is ahead, so after an addition any of the members may remain.
`circuit_stop` and a second `circuit_init` have no caller in the editor (only
tests call the first; the editor frees a circuit and creates another) and are
modelled as the library offers them.

### Gates

`Circuit` abstracts what an element computes; `Gates` keeps the levels and abstracts
the rest of the scheduler: digital elements alone, without ports of an MCU and
without failures. `due` is the logic list that is being delivered, `later` the one
that is being filled. A step is `BeginStep` (the lists change places), `Clock` of
every source, `EndClock`, one `Event` for each element on `due` in any order,
`EndStep`.

| Definition | Code |
|---|---|
| `Registered`, `Readers` | the `circ_node_add_logic` calls of each `pfn_init`, and the `logic_list` they fill |
| `GateOut`, `BuffOut`, `MuxOut`, `DemuxOut`, `FlipOut` | what `pfn_event` of each model drives |
| `Remember` | `clk` of a flip-flop, `state` of a LOGICSTATE |
| `SetStates` | `circ_node_set_state`: an event for every reader, also of a level that stays |
| `Click`, `ClickInClock` | a click on a source, on the GUI thread |

The models are translated as they are: an XOR is high when exactly one input is; of
SET and RST together JK falls through into SET, D drives both outputs high; the
demultiplexer is not registered on its data pin. `drvsrc_clock` reads the
state of the source twice, and the GUI thread may write it in between
(`ClickInClock`). Levels are LOW, HIGH and FLOAT: no model writes RISE or FALL.
Assumed of the board: a node has one driver, since the code does not resolve two.
Buffers have one lane, and `Lines` is 1 to 3 (3 in the code). `heard` and `age` are
history: the elements that have had an event, and the steps since a source or a
flip-flop moved a level or an element had its first event.

### HashMap

The chains are sequences, the collected nodes a sequence, keys naturals.
`ToInt` and `Rem` model the conversion of `unsigned long` to `int` and the sign of
C's remainder, which `hashmap_at` and `hashmap_remove` apply and `hashmap_insert`
does not; a look-up at a negative index, which is undefined, finds nothing here.
`Rehash` relinks node by node in the order of the code (`InOrder`), because
`foreach_hashmap` depends on the chains it makes. `element_count` is the counter of
the code, which decides whether the table grows and whether a look-up walks at all. `ForEach` and `NextNode` are the loop, and any
`NewAt` may come between them, as callbacks do. `max_load_factor` and
`growth_factor` are never changed, so `next_resize` is the size.

### Session

The GUI thread handles one command at a time; `gui` says where a command stands
that waits or runs long (`wait`: in `waitForFinished`, `build`: creating devices
or compiling, `stepping`: in `circuit_run_step`). Between two handlers the user may
switch, open or close a document, place or delete a component, and timers fire.
A worker is `running` from `Launch` (`timerEvent`) to `WorkerDone`. `tracked` is
`m_clkTimer != 0` and `live` counts the timers that exist: `run` overwrites
`m_clkTimer` without killing. `m_canceled` is not initialised and starts as any
value. `Finished` is the guard of `waitForFinished`, `Netlist` what
`generateNetlist` does to `m_nodes` and `m_compiled`, `Reinit` what `end` does
after the wait.

### Schema, Netlist and Nets

A document is one record. `elements` is `m_elements[0]` in its order, `ids` the set
of `IdAllocator`, `cls` the class of an element, `ends` the two ports of a wire,
`wire` and `opp` the connected wire and the opposite port of a port, `owner` and
`subs` what a port is a part of and its parts. One key press runs through a chain
of destructors, so functions of the code are operators from document to document:
`ReleaseWire` erases a wire and tells its ports (`Disconnected`), a port of a joint
tells the joint (`RemoveJoint`), the joint puts one wire in the place of two
(`JoinWires`) and releases those. Their order is the order of the code, because a
wire leaves the list and gives its number back before its ports hear of it, and
the next wire takes that number. `handler` stands for the table of mouse handlers a
mode installs, `hint` for `m_hintElement`. Positions are left out: a click lands on
any pin or wire, and moving, mirroring and corners of wires change nothing here.

`Reloaded` is a document that was saved and opened: the elements keep order and
numbers, and wires are connected anew. It needs no wire in progress, since such a
document is refused.

Two ways of deleting leave a pointer to what is gone, and `freed` is the element
that is gone and still named. Delete takes the selected components also while a wire is
drawn from one of them, which is the usual case, since the press on a pin selects its
component: the wire goes too, and `m_hintElement` stays (`KeyPressDelete`). A double click
of the right button deletes what it meets, also a pin or a joint alone, which leaves its
wires without an end and its component or the ports of the joint with a dangling pointer (`RemovePart`;
the comment at elementbase.cxx:71 says never to do that). What the program does once it uses that
pointer is undefined, so after `freed` the handlers that would use it are left out. Those that do not
remain: saving, opening and closing do not look at `m_hintElement`. `Undefined` stands
for whatever else happens, and nothing is claimed of it. `LinksAgree` and the properties
of the nets speak of a document from which no part was deleted alone (`Intact`), and say of
the deletion under the hand what holds of the document after it: the wire is gone and all
else is linked.

The model offers more than the mouse does in two places. A double click meets a component
before its pins where they overlap (`ItemStacksBehindParent`,
elementgraphitemfunctions.hxx:43), and `RemovePart` may take any pin. As built, no `WireSegment` is known
to `elementbase_cast`, so neither the menu nor a double click finds a wire;
`OnRemoveSelected` is kept, because schemaviewmenus.cxx:103 is written for it. The texts of
a component, which can be deleted alone as well, are not in the model.

`Netlist` translates `generateNetlist` over these documents: `Extracted` numbers the
ports as the first loop does, `UnionSets` is `unionSets` with the chain
threaded through the members, `GenerateNetlist` collects the pins along the chain of
every root. `nets` is a history variable, what the drawing connects, computed from
the links alone; `Nets` says how an edit may change it.

### Avr, AvrInterrupts and CycleTimers

The firmware is any program: after every instruction any other may follow, `Nop`
standing for all that touch nothing modelled here. The part of `avr_t` that takes
part in interrupts is the record `core` (`wait` is `interrupt_state`, `fifo` the
pending fifo of vector numbers, `raised`, `enabled`, `pending` the vectors with that
bit), and the functions of sim_interrupts.c are operators on it. The cycle timers
are a sequence ordered by the cycles left, counted from the present cycle, so that
no number grows; `ahead` is `next_cycle - cycle`. A run of `avr_callback_run_raw` is
`RunOne` (one instruction, `run_cycle_limit` being 1; asleep it is `RunNone`), one
`TimerExpires` for each timer that is due, and `EndOfRun` (done, sleep to the next
timer, serve an interrupt, leave the loop of `mcu_avr_clock`).
`Clock`, `Event` and `McuReset` are what the circuit calls.

Four devices stand for the kinds there are. INT0 has a level mode that polls the
pin with a timer. The watchdog has a protocol of timed writes, an interrupt that
disables itself (`OneShot`) and a reset that replaces the run function. The
converter starts itself again when it runs free. The sender of the
serial port has a flag that is never taken back by service (`Sticky`), so that its
vector is raised and cleared again and again. `lost` is a history field: vectors
that were marked pending while the fifo was full. `Taken` models the assignment that
moves the front of the fifo into the slot of the entry taken, whose two sides C may
evaluate in either order, as gcc evaluates it; `TakenLate` is the other order, and
breaks `PendingIsQueued`. The transmitter stays on and the
interrupt of a byte that has gone stays disabled, as they are after a reset; the
firmware starts no conversion while the converter is off (the bit would then
never be cleared).

## 3. Runs

| Run | Config | What it shows |
|---|---|---|
| `circuit` | MCCircuit.cfg | eight invariants of the scheduler on a mixed board |
| `digital` | MCDigital.cfg | refinement of `EventDelta`, latency bounds, liveness |
| `lost_event` | MCLost.cfg | violation: a fast update drops an event |
| `gates` | MCGates.cfg | digital elements react, settle and come to rest, and implement `EventDelta` |
| `adc_event` | MCAdc.cfg | violation: a null `pfn_event` is called |
| `session` | MCSession.cfg | safety and liveness of the editor session |
| `stale_nodes` | MCNodes.cfg | violation: `m_nodes` is used after an edit |
| `hashmap` | MCHashMap.cfg | the hash map is a set; iteration is complete |
| `hash_keys` | MCKeys.cfg | violation: keys beyond `int` are lost |
| `schema` | MCSchema.cfg | links of the drawing, promise of every edit, the netlist is connectivity |
| `avr` | MCAvr.cfg | interrupts, timers and the clock of an AVR under any firmware |
| `avr_stop` | MCAvrStop.cfg | violation: a stopped core never leaves the clock |

`circuit`. An MCU pin feeds a buffer, which feeds a DAC onto an analog node with a
diode, a capacitor and an analog pin of the MCU: every list has a member, a port
pin has digital and analog readers, and the chain pin, buffer, DAC is the shortest
in which a fast update raises an event. Bounds: `StepsReact` 3 and `StepsNonLinear`
2 (50 and 10 in the code) are the smallest periods that differ from each other and
from one step, so rounds coincide and fall apart; `StepRate` 2, so that a call has
an inner boundary; `MaxLoops` 1 (1000), so that the cap is met and not met;
`MaxErrors` 1, `MaxPortWrites` 2, `MaxRestarts` 2. The proofs remove all of them.

`NoLostVoltage` and `NoLostEventButFast` say that an element whose input changed
since it was last called is in a list that will still be visited.
`StampedIsListed` and `StepEndsSolved` are about `changed` and
`changed_node_list`; `DrainedAtBoundary` and `CountersBelowPeriods` about the
boundary of a step; `RoundConverges` about the cap.

`digital`. The same scheduler where no pin of a port has digital readers, with a
ring (a gate that reads its own output). `ImplementsDelta` maps the two lists to
`due` and `later` of `EventDelta`: an event is delivered once, in the step after
it was raised, unless a step failed. `LatencyBounds` counts steps: one for an event
or a fast element, a period for the others; a wait is counted up to `MaxWait`.
`EveryVoltageServed` is the liveness of the rounds.

`gates`. One source goes through an inverter, a multiplexer and a demultiplexer,
clears a divider by two, and is J of a JK flip-flop (its inverse is K). The other
source selects both selectors and clocks both flip-flops, whose outputs meet in an
XOR before a probe. The divider reads its own output, and the clock moves the logic
before and behind the flip-flops at once. Not on the board are AND, which differs
from OR in one operator, and the buffer; the proofs cover both. Two ways (`Lines` 1)
instead of eight leave the pins in the same order. `Depth` 3 is the longest chain, and
with 2 `Settled` fails. `MaxClicks` 3 raises, lowers and raises a clock, or moves one
source while the other moves. `Reacted` is what `pfn_init` registers for. `Settled`
says that logic is right `Depth` steps after the last move, also behind the
demultiplexer, on a board whose logic has no ring (`Levelled`: the elements can be put in
`Depth` levels). `ComesToRest` is liveness: a demultiplexer and held flip-flops raise
events in every step, but levels stop moving.

`session`. Two documents, since the edit state is shared by all of them; one
component each; two timers, the second being the one `run` leaks (`MaxTimers`
keeps a third from being created). Properties that hold only while the user stays
with one document say so with `~switched`: with two documents the one edit state
is wrong about one of them, which is why `ModeTellsTimer` and `OneStepper` are
conditional while `WorkerOnReadyCircuit` and `EndIsFinal` are not.
`WorkerOnReadyCircuit` speaks of open documents: closing one frees its circuit
without waiting for the worker. `WaitsOnlyForSteps` is what can be said of commands:
one that never returns is in a `circuit_run_step`, or waits for a worker in one, that never returns. Run
`avr_stop` shows such a step, and then End waits for ever; but no leaked timer, no
other document's worker and no order of commands keeps the window waiting.

`hashmap`. Four nodes and the keys 0, 2, 5, 7 make collisions in tables of 2 and 5
buckets, and two rehashes (0 to 2, 2 to 5). `IntMax` 15 is above every key.
`IterationComplete` is conditional on the table not growing: what happens
otherwise is the arbitrary remainder of `FastEvent`.

`schema`. Two components of one or two pins, and eight edits until the view is
closed: enough for two joints in a row, a wire between two joints, a component
wired to itself, for a joint to be undone by the deletion of each of its wires,
of a component at it, and of both at once, and for a component to be deleted while a wire
is drawn from it. `CharMax` 10 lies below and above the number of
ports the run reaches. `LinksAgree` is the invariant of the wire graph,
`NetlistIsConnectivity` compares the nodes with the nets, `ImplementsNets` says that
an edit changes no net it is not about, `CloseReleasesAll` that a closed view is
empty.

`avr`. The four vectors have the order they have in an ATmega328; the periods are 2
or 3 cycles with instructions of 2, so that each timer comes due in each phase of
the others. Three instructions other than `Nop` between two resets (`MaxWrites`) set up
any two devices against each other; a fifo of three slots holds two entries and is
full while others come. `SleepDefault` 3 is longer than an instruction. `NeverStuck` and `PendingIsQueued`
are about the table, `TimersKept` about devices and timers, `ClockReturns` is
liveness. `MaxTimers` 6 is never reached, as 64 is not by all devices: five timers is all they
register.

Deadlock is checked in every passing run: the system always can go on. `adc_event`
switches it off, since the model stops at the crash.

## 4. Findings

- `lost_event`: RunStep, the MCU writes a port, the buffer's event raises one of the
  DAC into the list being delivered, and the list is cleared with it. Whether it is
  dropped depends on the order of the buckets. README.md:9 promises an
  event-driven model of digital circuits.
- `adc_event`: adcinit.c:52 registers the ADC as a reader of its own output; when
  the output changes `dsim_element_event` calls its null `pfn_event`.
  testcase/test-mdel-adc.c:117 expects that step to succeed.
- `stale_nodes`: View netlist, delete the component, Step: `generateNetlist` finds no
  wire and returns before it clears `m_nodes`; `end` then uses the deleted port,
  against the comment at schemasheet.cxx:140.
- `hash_keys`: three keys, the table grows, and a key above `INT_MAX` is in the
  bucket of its `unsigned long` but looked for in that of its `int`; pointers are
  such keys on LP64. hashmap.h:123 promises one element per key.

- `avr_stop`: `cli`, `sleep`: the core is done, its cycle counter stands still, and
  `mcu_avr_clock` (dmcuavrclock.c:24) waits for it to pass `next_cycle`. The worker
  never ends, and End waits for the worker. sim_avr.h:111 calls this stopping
  gracefully.

## 5. Fairness

`Circuit`: weak fairness of `RunStep` (the timer calls `circuit_run_step` again and
again while a simulation runs) and of the steps inside it (a call runs to its
end: every callback returns; an AVR whose core has stopped is the exception, and
outside these runs). Failures are not fair. `Session`: weak fairness of
the handler that stands in the middle of a command and can go on,
and of the timer event of each sheet (Qt delivers the events of a timer to an
idle event loop, and no other event of the sheet disables it). That `circuit_run_step` returns
is not assumed, neither in a worker (`WorkerDone`) nor on the GUI thread (`StepReturns`): see `avr_stop`.
The user is never fair. `Avr`: weak fairness of `Run`, since a call of `mcu_avr_clock` is a loop on one
thread and runs on until it returns; when the circuit calls is not fair. `Gates`: weak
fairness of `Step`, since the worker steps on while a simulation runs; clicks are not
fair. `Schema`
and `HashMap` state no fairness. No strong fairness is assumed of any implementation; the strong fairness in
`EventDelta` is what is promised, and checked.

## 6. Proofs

`CircuitProofs` proves, for every topology that satisfies `TopologyAssumption` and
every bound that satisfies `BoundAssumption`, that the six safety properties and
the type invariant of run `circuit` are invariants, from one inductive invariant

    IInv == TypeInv /\ CountersBelowPeriods /\ MatrixInv /\ VoltageInv /\ EventInv

None of the properties is inductive alone. `TypeInv` adds that a call in progress
has steps left and that an iteration under way is not exhausted. `VoltageInv` adds
that what an iteration has still to visit is a part of the list it iterates:
without it a callback that fails could leave elements that were neither called nor
listed. `EventInv` adds the same for the two logic lists, that the list to deliver
is empty from its delivery to the next step when nothing failed, and what holds
inside a fast update whose events raised none. `MatrixInv` adds that without an
error the matrix's flags are clear between two solutions. Each part is kept by
every action, by a lemma with one step per action (`TypeStep`, `CounterStep`,
`MatrixStep`, `VoltageStep`, `EventStep`); `Inductive` combines them.
`DeltaRefinement` proves from it that the scheduler implements the safety part of
`EventDelta` where no port pin has digital readers, one step at a time
(`DeltaStep`).

`LatencyProofs` proves `LatencyBounds` for every circuit and all periods under
`Regular`: every element is in the lists of one kind, no pin of a port has digital
readers, and the circuit is initialised once. An element of two kinds may wait for the
longer of its two periods, a fast update delivers events in between, and a second
`circuit_init` resets the counters. The invariant
ties each wait to the counter of the rounds it waits for: a reactive element has
waited at most `reactCount` steps, a non-linear one at most `nonLinCount`, one more
while the step has not advanced that counter yet (`VoltWaits`). An event waits only
while it is being delivered (`EventWaits`). Both need `IInv`: an element that waits is
listed, so the round that is due serves it, and the counters stop at their periods.

`SessionProofs` proves, for any number of documents, parts and timers, the five
safety properties of run `session`. The invariant `Inv` adds to the type what the
handlers rely on without saying so. `GuiInv`: a command under way is about the
active document, which cannot be closed or left meanwhile. `CircuitInv`: what is
compiled is initialised, and a document not open has neither circuit nor timer.
`TimerInv`: a timer that is not cancelled is the one the sheet knows, so that what
`timerEvent` launches is what `run` started; during the wait of `end` the timer is
already gone. `ModeInv`: as long as the user stays with one document only that one
has a timer, and exactly while the window says RUNNING. Once the user has
switched it is false: the mode belongs to the window, the timer to the document.

`GatesProofs` proves, for every board that satisfies `PinAssumption` and
`DriverAssumption`, the type, `Reacted`, and that the two lists implement the safety part
of `EventDelta`. `Reacted` holds because a level that an element reads is only
written together with an event for it. It is inductive for every kind but one: the
demultiplexer is not told of its data. The invariant adds `DemuxListed`: a
demultiplexer that drives a node and has had an event is always on a list, because it is registered
on the outputs it drives itself. `IdleDelivered` adds that nothing is left to deliver
between two steps, which the refinement needs. One lemma per kind of element says what
its outputs depend on; the step then needs only which pins an action writes.

`Settled` needs an induction along the levels of the board. The invariant says that
after k steps of rest the elements of the first k levels are right, which one step
extends by a level, because their inputs are right and whatever was driven since has
been delivered. The proof showed an earlier form false: an element that was never heard before may
still have its first event after `Depth` steps of rest and then move a level, so `age`
also starts again there.

`AvrProofs` proves, for every set of vectors, every size of the fifo and all timings
that satisfy `InterruptAssumption` and `AvrAssumption`, that `NeverStuck` and
`PendingIsQueued` are invariants and that the fifo keeps a slot free (`FifoFits`). The
inductive invariant is `Good(core)`: the type of the record, `TableFits`, `TableAwake`
and `TableQueued`. There is one lemma for each operator of the table (`GoodRaise`,
`GoodClear`, `GoodSetI`, `GoodSleep`, `GoodService`, ...): it keeps
`Good` for every record. The step then only says which operators an
action applies, since devices and timers reach the core through nothing else.
Two of them need more than their definition. `SetI` keeps `TableAwake`
only on a core that is awake, which an instruction guarantees: `sei` never runs on a
sleeping core. `Service` needs that the fifo has a lowest vector
(`LowestInFifo`, from well-foundedness of the naturals by `LeastNat`) and that moving
the front into its slot loses no other vector (`TakenKeeps`).

The second part of `AvrProofs` adds the devices. Its invariant, `Inv`, is `Good(core)`, the type of each
device and `Kept`: a device that waits has its timer in the queue, which is ordered by the
cycles left and holds no timer twice. `Clocked` adds what holds between the runs of one clock. The
lemmas are about the list: inserting a timer, cancelling one and letting time pass
keep it ordered and without repetition; callbacks then only register and cancel.
That `MaxTimers` exceeds the timers there are (`AvrAssumption`) is what the 64 slots of the code
are to its devices.

`HashMapProofs` proves all five invariants of run `hashmap` and the refinement of `KeySet`,
for every set of keys, every memory and every list of primes that has one large
enough. Inductions over the length of a sequence are arguments about a
least counterexample (`LeastNat`), and the functions that `FlattenSeq` and `Rehash` define by recursion are
shown to exist in the same way (`FlattenExists`, `MovesExist`). `MapInv` says that
chains have no node in common and none twice (`Chains`), that a node is in the bucket of its
key (`Home`), that the collected nodes are others, and that the count is right. Moving a node to
the head of a chain keeps it (`PutFirst`, `PutHome`), and so does a rehash, which is a
sequence of such moves into an empty table (`MovesKeep`), and taking a node out (`DropKeeps`).
`IterationComplete` needs where the iterator stands: the nodes still due are behind it and
those visited are not (`OnTrack`); a node put at the head of a chain, the iterator's own included,
moves neither past the other (`PutOnTrack`). `Findable` and `ImplementsKeySet` are proved under `KeysFit`, that a
key is not above the largest `int`, since they are false without it (run `hash_keys`):
then the bucket that is probed is the one the node was put in (`ProbedIsBucket`).

`SchemaProofs` proves, for all symbols and any number of components and edits, the type,
`LinksAgree` and that a closed view is empty (`CloseReleasesAll`). The invariant is, until
a part is deleted alone, `Sound` of the document (after that only `Shape`, which the
type needs): its lists name what exists (`Shape`), ports and their owners name
each other (`Owned`), wires and their ends name each other (`Plugged`), and wires and joints
form a forest (`Forest`: among any joints one has at most one wire to another of
them). `LinksAgree` does not say the last, and is not inductive without it: releasing a joint
erases one of its wires and splices the other two, and a cycle shrinks that way until a wire would join
two ports of one joint. A new wire starts at a free pin, so wiring to a wire only adds
a leaf. `Sound(d, X)` speaks of a document in which the ports X
are loose, as they are between two calls of a destructor: `CutWire` takes a
wire out, and `DisconnectedIs` frees a loose port, with its joint if it is part of one,
which is spliced out of the forest (`DisconnectJoint`, `SpliceSound`; `SplitSound` is the reverse, when
a wire ends on a wire). `ReleaseComponent` then is a
sequence of these (`ReleaseWireIs`, `UnwiredIs`), and so are the deletion of a selection and the
rebuilding of a document from a file. The folds that model those loops are
treated at once: a fold is a sequence of steps (`FoldSteps`), and what each step keeps
the fold keeps, by a least counterexample. `Close` needs one fact more (`NoComponents`): a forest of joints
has a leaf, whose other ports are wired to pins, so without components there are no joints and no wires.

`NetlistProofs` proves, for the same documents, that every edit keeps the promise of `Nets`
(`ImplementsNets`) and that `generateNetlist` makes its nodes out of exactly the nets of more than
one pin (`NetlistIsConnectivity`). The invariant adds to that of the editor only that `nets` are the nets
of the document (`NetInv`). The argument needs a notion of connection that does not count
steps: two ports are connected if every set of ports that is closed under wires and joints
(`Closed`) holds both or neither (`Conn`). The nets that `PinNets` computes by
reaching out step by step are the classes of that relation (`ReachCloses`, `PinNetsPartition`).

- The forest holds each net together by single wires. If the ends of a wire were
  connected without it, joints would lead around it, and pruning leaves of that
  bridge, one after the other, ends in a contradiction (`AllBridged`, `Pruneable`,
  `NoBridge`, `SidesApart`). On each side of a wire there is a pin (`HasPin`): otherwise the joints
  on that side would have a leaf too many. Hence deleting a wire cuts one net into two that are not
  empty (`Severed`), which is what `Cut` promises.
- An edit is compared with its result by their closed sets. Splicing a joint out, ending a
  wire on another and rebuilding a document change no connection between the ports
  that stay (`SplicedAgree`, `DisconnectedAgree`, `SplitNets`); deleting components is a
  sequence of such steps on what is left (`TrimmedNets`, `DeleteTrimmed`).
- Of the union-find the invariant is `Trees`: each port has a root and a place, parents
  come before children, the places under one root are used once and without gaps, `last` is the
  last of them and `next` leads from each to the following. It exists for the
  arrays at the beginning (`FreshTrees`), and hanging one tree behind another keeps it
  (`HungTrees`): the places of the tree that is hung move up by those of the other. `setsFind` then
  finds the root (`FindRootIs`) and a chain lists a tree (`ChainIs`). What is merged was connected
  (`Sorting`), and at the end the ports of each wire and joint have one root (`MergedGroups`),
  so a tree is closed and is a class (`RootsConnect`). A port of a link is at the end
  of a wire, so its net has a pin on either side, and a pin without a wire is alone
  (`NetsOfLinks`).

The theorem keeps the hypotheses of the property: no wire is half drawn, no part was
deleted alone, and the indices fit a `char`.

Only model-checked is liveness (`EveryVoltageServed`, `WaitsOnlyForSteps`,
`RunningIsServed`, `ComesToRest`, `ClockReturns` and the fairness half of `ImplementsDelta`):
fairness is out of the prover's reach. The runs that expect a violation have nothing to prove.

## 7. Not modelled

- The numerics of the matrix and of the analog models: floating point. The scheduler
  is checked against any numerics.
- The display LCD8544, a sink of events with a frame buffer.
- What the digital elements do not promise. An element is evaluated after a node it reads
  was driven: what is never driven keeps its first level, and so does all behind it (an inverter
  behind a flip-flop that was never clocked shows LOW). Of two flip-flops on one clock
  the second reads what the first has written in the same delivery, if it comes later in
  the hash map. `Reacted` and `Settled` speak of elements that have had an event and of
  combined logic.
- Whether INT0 polls a low pin again after `mcu_avr_reset`: the reset takes the timer and
  leaves `is_polling` (avr_extint.c:103). It is in `Avr` and no property asks.
- The order of callbacks when a timer asks to be called again for a cycle that has
  already passed: sim_cycle_timers.c:231 calls it at once, `Again` puts it into the list, where a
  timer due before it goes first. No device of the model asks for that with the periods of
  the chips.
- What the editor does with a pointer to a deleted element.
- The thresholds of ADC and DAC, and the early return of `adc_vchanged` with it:
  which input of an element moved is below what `Circuit` distinguishes.
- Instruments, drawing, properties, printing, positions in the editor: GUI code.
- Of simavr: the instruction set, the receiver of the serial port, timers, SPI, TWI,
  EEPROM, gdb, and the headers of the chips, which are tables. `run_cycle_limit`
  above 1, which no caller sets.
- Loading firmware and building pins in `mcu_avr_init`.
- The reader and writer of the document format, strings, logging, files; memory that
  runs out; lists and trees, which are sequential; the netlist parser, a stub.
- The setters of the scheduler's periods, which have no caller.

A continuation would model the bridges (`adc_vchanged`, hysteresis) beneath
`Circuit`, the list of instruments that two threads share, and the remaining devices of
simavr on `AvrInterrupts` and `CycleTimers`.
