------------------------------ MODULE Circuit ------------------------------
(***************************************************************************)
(* The simulation scheduler of opendsim-core/circuit/circuit.c with the    *)
(* node side of it in circ-node.c: circuit_init, circuit_run_step,         *)
(* circuit_fast_update and circuit_stop.                                   *)
(*                                                                         *)
(* One call of an element callback (pfn_vchanged, pfn_clock, pfn_event) is *)
(* one step; the scheduler's own code between two callbacks is another.    *)
(* Voltages and logic levels are abstracted to the fact that they changed. *)
(* The hash maps of circuit_t are sets (HashMap.tla says when they are);   *)
(* the order in which foreach_hashmap meets their members is any order.    *)
(***************************************************************************)
EXTENDS Naturals, FiniteSets

CONSTANTS
  ANode,           \* analog_node_list
  DNode,           \* digital_node_list
  Elem,            \* analog_element_list and digital_element_list
  NoElem,          \* no element
  FastList,        \* [ANode -> SUBSET Elem]  circ_node_t.changed_fast_list
  ReactList,       \* [ANode -> SUBSET Elem]  circ_node_t.react_list
  NonLinList,      \* [ANode -> SUBSET Elem]  circ_node_t.non_linear_list
  LogicList,       \* [DNode -> SUBSET Elem]  circ_node_t.logic_list
  Stamps,          \* [Elem -> SUBSET ANode]  nodes an element's callbacks stamp
  Drives,          \* [Elem -> SUBSET DNode]  nodes an element's callbacks drive
  Clocked,         \* elements with a pfn_clock
  PortPins,        \* [Elem -> SUBSET (ANode \cup DNode)]  pins of port_reg_cb
  HasEvent,        \* elements with a pfn_event
  StepsReact,      \* steps_react: 50, the setter has no caller
  StepsNonLinear,  \* steps_non_linear: 10, the setter has no caller
  StepRate,        \* circuit_t.steprate: steps of one circuit_run_step
  MaxLoops,        \* 1000 in the code: the cap on non-linear iterations
  MaxErrors,       \* bound: callbacks or solutions that fail, per behaviour
  MaxPortWrites,   \* bound: port writes of one clock callback
  MaxRestarts      \* bound: calls of circuit_stop and repeated circuit_init

ASSUME TopologyAssumption ==
  /\ NoElem \notin Elem
  /\ ANode \cap DNode = {}
  /\ FastList \in [ANode -> SUBSET Elem]
  /\ ReactList \in [ANode -> SUBSET Elem]
  /\ NonLinList \in [ANode -> SUBSET Elem]
  /\ LogicList \in [DNode -> SUBSET Elem]
  /\ Stamps \in [Elem -> SUBSET ANode]
  /\ Drives \in [Elem -> SUBSET DNode]
  /\ Clocked \subseteq Elem
  /\ PortPins \in [Elem -> SUBSET (ANode \cup DNode)]
  /\ HasEvent \subseteq Elem

ASSUME BoundAssumption ==
  /\ StepsReact \in Nat \ {0}
  /\ StepsNonLinear \in Nat \ {0}
  /\ StepRate \in Nat \ {0}
  /\ MaxLoops \in Nat
  /\ MaxErrors \in Nat
  /\ MaxPortWrites \in Nat
  /\ MaxRestarts \in Nat

VARIABLES
  pc,              \* where circuit_run_step or circuit_fast_update stands
  left,            \* steprate - i: steps this call has still to take
  todo,            \* members of the list being iterated not yet visited
  ping,            \* logic_list_curr_ping
  logic,           \* logic[TRUE] = logic_list_ping, logic[FALSE] = _pong
  react, fast, nonlin,  \* react_list, changed_fast_list, non_linear_list
  changedNodes,    \* changed_node_list
  changed,         \* circ_node_t.changed: stamped since its row was rebuilt
  dirty,           \* circ_matrix_t.admit_changed || curr_changed
  reactCount, nonLinCount,
  loops,           \* counter of the non-linear iteration
  caller, ftodo, writes,  \* the clock callback inside circuit_fast_update
  nested,                 \* history: an event of a fast update raised an event
  errors, restarts,       \* bounds
  staleV,          \* elements whose analog input changed since vchanged
  staleL           \* elements whose digital input was set since event

flow    == <<pc, left, todo>>
lists   == <<react, fast, nonlin>>
matrix  == <<changedNodes, changed, dirty>>
counts  == <<reactCount, nonLinCount, loops>>
port    == <<caller, ftodo, writes, nested>>
bounds  == <<errors, restarts>>
vars    == <<flow, ping, logic, lists, matrix, counts, port, bounds,
             staleV, staleL>>

\* The points between two callbacks; "crashed" is a call of a null pointer.
Phases == {"created", "idle", "pick", "react", "fast", "clock", "logic", "nonlin",
           "nlSolve", "solve", "sync", "fuSolve", "fuFast", "fuLogic", "crashed"}

TypeOK ==
  /\ pc \in Phases /\ left \in 0..StepRate /\ todo \subseteq Elem
  /\ ping \in BOOLEAN /\ logic \in [BOOLEAN -> SUBSET Elem]
  /\ react \subseteq Elem /\ fast \subseteq Elem /\ nonlin \subseteq Elem
  /\ changedNodes \subseteq ANode /\ changed \in [ANode -> BOOLEAN]
  /\ dirty \in BOOLEAN
  /\ reactCount \in Nat /\ nonLinCount \in Nat
  /\ loops \in 0..(MaxLoops + 1)
  /\ caller \in Elem \cup {NoElem} /\ ftodo \subseteq Elem
  /\ writes \in 0..MaxPortWrites /\ nested \in BOOLEAN
  /\ errors \in 0..MaxErrors /\ restarts \in 0..MaxRestarts
  /\ staleV \subseteq Elem /\ staleL \subseteq Elem

-----------------------------------------------------------------------------
(* What the callbacks do to the shared state.                              *)

\* The elements that list l of the nodes in V names.
Registered(l, V) == UNION {l[n] : n \in V}

\* circ_node_stamp_admit and circ_node_stamp_current on the nodes S; a mutated
\* form sets the flag before it tests it.
StampFlagFirst(S) ==
  /\ changed' = [n \in ANode |-> changed[n] \/ n \in S]
  /\ UNCHANGED <<changedNodes, dirty>>
Stamp(S) ==
  /\ changed' = [n \in ANode |-> changed[n] \/ n \in S]
  /\ changedNodes' = changedNodes \cup {n \in S : ~changed[n]}
  /\ UNCHANGED dirty

\* circ_node_set_state on the nodes D, whatever their state was: circuit_add_logic
\* puts their readers in the list being filled; a mutated form takes the other.
EnqueueOther(D) == [logic EXCEPT ![~ping] = @ \cup Registered(LogicList, D)]
Enqueue(D) == [logic EXCEPT ![ping] = @ \cup Registered(LogicList, D)]

\* The nodes D are driven; the elements in handled have just had their event.
Drive(D, handled) ==
  /\ logic' = Enqueue(D)
  /\ staleL' = (staleL \ handled) \cup Registered(LogicList, D)

\* circ_node_set_volt on the nodes V whose voltage differs; a mutated form
\* forgets the reactive elements.
NotifyNoReact(V) ==
  /\ fast'   = fast   \cup Registered(FastList, V)
  /\ nonlin' = nonlin \cup Registered(NonLinList, V)
  /\ staleV' = staleV \cup Registered(FastList, V)
                      \cup Registered(ReactList, V) \cup Registered(NonLinList, V)
  /\ UNCHANGED react
Notify(V) ==
  /\ fast'   = fast   \cup Registered(FastList, V)
  /\ react'  = react  \cup Registered(ReactList, V)
  /\ nonlin' = nonlin \cup Registered(NonLinList, V)
  /\ staleV' = staleV \cup Registered(FastList, V)
                      \cup Registered(ReactList, V) \cup Registered(NonLinList, V)

\* A clocked element drives its outputs from its clock, any other element
\* from vchanged (the A/D bridge) or event (the gates).
Outputs(e) == IF e \in Clocked THEN {} ELSE Drives[e]

\* A callback of e stamps some of its nodes and drives some of its outputs.
StampBy(e) == \E S \in SUBSET Stamps[e] : Stamp(S)
DriveBy(e, handled) == \E D \in SUBSET Outputs(e) : Drive(D, handled)
ClockDrives(e) == \E D \in SUBSET (Drives[e] \ PortPins[e]) : Drive(D, {})

\* matrix_solve is called only with something in changed_node_list; it
\* returns at once when no row was rebuilt since the last solution.
Rebuilt == dirty \/ \E n \in changedNodes : changed[n]

\* solve_matrix that succeeds, moving the voltages of some nodes.
SolveOK ==
  /\ \E V \in SUBSET ANode :
       /\ V # {} => Rebuilt
       /\ Notify(V)
  /\ changed' = [n \in ANode |-> changed[n] /\ n \notin changedNodes]
  /\ changedNodes' = {}
  /\ dirty' = FALSE

\* solve_matrix that fails: a singular matrix leaves the matrix's flags set, a
\* NaN is met after they were cleared, with the nodes before it updated.
SolveFails ==
  /\ Rebuilt
  /\ \/ dirty' = TRUE /\ UNCHANGED <<lists, staleV>>
     \/ dirty' = FALSE /\ \E V \in SUBSET ANode : Notify(V)
  /\ changed' = [n \in ANode |-> changed[n] /\ n \notin changedNodes]
  /\ changedNodes' = {}

\* solve_matrix, if a node is listed; a mutated form asks the matrix's flags.
MaySolveIfDirty == IF dirty THEN SolveOK ELSE UNCHANGED <<matrix, lists, staleV>>
MaySolve == IF changedNodes = {} THEN UNCHANGED <<matrix, lists, staleV>> ELSE SolveOK

\* Any rc # 0: circuit_run_step returns with its lists as they are.
Abort ==
  /\ errors < MaxErrors
  /\ errors' = errors + 1
  /\ pc' = "idle" /\ left' = 0 /\ todo' = {}
  /\ caller' = NoElem /\ ftodo' = {} /\ writes' = 0
  /\ UNCHANGED <<nested, restarts>>

-----------------------------------------------------------------------------
(* circuit_init and circuit_stop, called while no step runs.               *)

Init ==
  /\ pc = "created" /\ left = 0 /\ todo = {}
  /\ ping = FALSE /\ logic = [b \in BOOLEAN |-> {}]
  /\ react = {} /\ fast = {} /\ nonlin = {}
  /\ changedNodes = {} /\ changed = [n \in ANode |-> FALSE] /\ dirty = FALSE
  /\ reactCount = 0 /\ nonLinCount = 0
  /\ loops = 0
  /\ caller = NoElem /\ ftodo = {} /\ writes = 0 /\ nested = FALSE
  /\ errors = 0 /\ restarts = 0
  /\ staleV = {} /\ staleL = {}

\* The analog lists and the counters are reset, the logic lists and the ping
\* flag are not.  Every element stamps its nodes, every row is rebuilt (which
\* clears the flags, not changed_node_list) and the matrix is solved.
MayInit ==
  \/ pc = "created" /\ UNCHANGED restarts
  \/ pc = "idle" /\ restarts < MaxRestarts /\ restarts' = restarts + 1

InitCircuit ==
  /\ MayInit
  /\ changedNodes' = UNION {Stamps[e] : e \in Elem}
  /\ changed' = [n \in ANode |-> FALSE]
  /\ dirty' = FALSE
  /\ \E V \in SUBSET ANode :
       /\ fast'   = Registered(FastList, V)
       /\ react'  = Registered(ReactList, V)
       /\ nonlin' = Registered(NonLinList, V)
       /\ staleV' = fast' \cup react' \cup nonlin'
  /\ reactCount' = 0 /\ nonLinCount' = 0
  /\ pc' = "idle"
  /\ UNCHANGED <<left, todo, ping, logic, loops,
                 port, errors, staleL>>

\* An element, a row or the first solution fails: compile gives the circuit up.
InitFails ==
  /\ MayInit
  /\ errors < MaxErrors /\ errors' = errors + 1
  /\ \E S \in SUBSET UNION {Stamps[e] : e \in Elem} : \E R \in SUBSET S :
       /\ changedNodes' = S
       /\ changed' = [n \in ANode |-> n \in S \ R]
       /\ dirty' = (R # {})
  /\ fast' = {} /\ react' = {} /\ nonlin' = {} /\ staleV' = {}
  /\ reactCount' = 0 /\ nonLinCount' = 0
  /\ pc' = "created"
  /\ UNCHANGED <<left, todo, ping, logic, loops,
                 port, staleL>>

\* Every node is set to zero, and every element initialised and reset, or those
\* before one that fails.
Stop ==
  /\ pc = "idle"
  /\ restarts < MaxRestarts /\ restarts' = restarts + 1
  /\ \E V \in SUBSET ANode : Notify(V)
  /\ Drive(DNode, {})
  /\ \E done \in SUBSET Elem : Stamp(UNION {Stamps[e] : e \in done})
  /\ UNCHANGED <<flow, ping, counts, port, errors>>

-----------------------------------------------------------------------------
(* circuit_run_step.                                                       *)

RunStep ==
  /\ pc = "idle"
  /\ pc' = "pick" /\ left' = StepRate
  /\ UNCHANGED <<todo, ping, logic, lists, matrix, counts, port, bounds,
                 staleV, staleL>>

\* The list filled until now becomes the one to deliver, and the other is filled;
\* a mutated form stays on one list.
NoFlip == ping
Flip == ~ping

\* ++count == period starts a round and resets the counter; the mutated forms
\* compare before they increment, lose the increment or lose the reset.
DueLate(count, period) == count = period
Due(count, period) == count + 1 = period
AdvanceStuck(count, period) == IF Due(count, period) THEN 0 ELSE count
AdvanceNoReset(count, period) == count + 1
Advance(count, period) == IF Due(count, period) THEN 0 ELSE count + 1

BeginStep ==
  /\ pc = "pick"
  /\ ping' = Flip
  /\ reactCount' = Advance(reactCount, StepsReact)
  /\ IF Due(reactCount, StepsReact)
       THEN pc' = "react" /\ todo' = react
       ELSE pc' = "fast" /\ todo' = fast
  /\ UNCHANGED <<left, logic, lists, matrix, nonLinCount, loops, port, bounds, staleV, staleL>>

\* asim_element_vchanged on a member of react_list, changed_fast_list or
\* non_linear_list: it reads its voltages and may stamp, or drive logic.
VChanged(e) ==
  /\ pc \in {"react", "fast", "nonlin"} /\ e \in todo
  /\ todo' = todo \ {e}
  /\ StampBy(e)
  /\ DriveBy(e, {})
  /\ staleV' = staleV \ {e}
  /\ UNCHANGED <<pc, left, ping, lists, counts, port, bounds>>

VChangedFails(e) ==
  /\ pc \in {"react", "fast", "nonlin"} /\ e \in todo
  /\ StampBy(e)
  /\ DriveBy(e, {})
  /\ Abort
  /\ UNCHANGED <<ping, lists, counts, staleV>>

EndReact ==
  /\ pc = "react" /\ todo = {}
  /\ react' = {}
  /\ pc' = "fast" /\ todo' = fast
  /\ UNCHANGED <<left, ping, logic, fast, nonlin, matrix, counts, port, bounds,
                 staleV, staleL>>

EndFast ==
  /\ pc = "fast" /\ todo = {}
  /\ fast' = {}
  /\ pc' = "clock" /\ todo' = Clocked
  /\ UNCHANGED <<left, ping, logic, react, nonlin, matrix, counts, port, bounds,
                 staleV, staleL>>

\* dsim_element_clock returns; a driver source sets its pin, an MCU has written
\* its ports before (PortWrite).
Clock(e) ==
  /\ pc = "clock" /\ e \in todo /\ caller \in {NoElem, e}
  /\ todo' = todo \ {e}
  /\ caller' = NoElem /\ writes' = 0
  /\ ClockDrives(e)
  /\ UNCHANGED <<pc, left, ping, lists, matrix, counts, ftodo, nested, bounds, staleV>>

ClockFails(e) ==
  /\ pc = "clock" /\ e \in todo /\ caller \in {NoElem, e}
  /\ ClockDrives(e)
  /\ Abort
  /\ UNCHANGED <<ping, lists, matrix, counts, staleV>>

EndClock ==
  /\ pc = "clock" /\ todo = {}
  /\ pc' = "logic" /\ todo' = logic[~ping]
  /\ UNCHANGED <<left, ping, logic, lists, matrix, counts, port, bounds,
                 staleV, staleL>>

\* dsim_element_event on a member of the list being delivered.  A null pfn_event
\* is called all the same.
Event(e) ==
  /\ pc = "logic" /\ e \in todo
  /\ IF e \in HasEvent
       THEN /\ todo' = todo \ {e}
            /\ StampBy(e)
            /\ DriveBy(e, {e})
            /\ UNCHANGED pc
       ELSE /\ pc' = "crashed"
            /\ UNCHANGED <<todo, matrix, logic, staleL>>
  /\ UNCHANGED <<left, ping, lists, counts, port, bounds, staleV>>

EventFails(e) ==
  /\ pc = "logic" /\ e \in todo /\ e \in HasEvent
  /\ StampBy(e)
  /\ DriveBy(e, {})
  /\ Abort
  /\ UNCHANGED <<ping, lists, counts, staleV>>

\* hashmap_clear on the list just delivered; a mutated form leaves it full.
ClearNothing == logic
ClearDelivered == [logic EXCEPT ![~ping] = {}]

EndLogic ==
  /\ pc = "logic" /\ todo = {}
  /\ logic' = ClearDelivered
  /\ nonLinCount' = Advance(nonLinCount, StepsNonLinear)
  /\ loops' = 0
  /\ IF Due(nonLinCount, StepsNonLinear) /\ nonlin # {}
       THEN pc' = "nonlin" /\ todo' = nonlin
       ELSE pc' = "solve" /\ UNCHANGED todo
  /\ UNCHANGED <<left, ping, lists, matrix, reactCount, port, bounds, staleV, staleL>>

EndNonLin ==
  /\ pc = "nonlin" /\ todo = {}
  /\ nonlin' = {}
  /\ pc' = "nlSolve"
  /\ UNCHANGED <<left, todo, ping, logic, react, fast, matrix, counts, port, bounds,
                 staleV, staleL>>

\* ++counter > 1000; the mutated forms stop one iteration early or late.
ExhaustedEarly(n) == n >= MaxLoops
ExhaustedLate(n) == n > MaxLoops + 1
Exhausted(n) == n > MaxLoops

\* One more iteration while the solution moved a non-linear element's voltage.
NonLinSolve ==
  /\ pc = "nlSolve"
  /\ MaySolve
  /\ loops' = loops + 1
  /\ IF Exhausted(loops + 1) \/ nonlin' = {}
       THEN pc' = "solve" /\ UNCHANGED todo
       ELSE pc' = "nonlin" /\ todo' = nonlin'
  /\ UNCHANGED <<left, ping, logic, reactCount, nonLinCount, port, bounds, staleL>>

Solve ==
  /\ pc = "solve"
  /\ MaySolve
  /\ pc' = "sync"
  /\ UNCHANGED <<left, todo, ping, logic, counts, port, bounds, staleL>>

SolverFails ==
  /\ pc \in {"nlSolve", "solve"} /\ changedNodes # {}
  /\ SolveFails
  /\ Abort
  /\ UNCHANGED <<ping, logic, counts, staleL>>

\* The clk callback, then the next step of this call or the return of it.
Sync ==
  /\ pc = "sync"
  /\ left' = left - 1
  /\ pc' = IF left = 1 THEN "idle" ELSE "pick"
  /\ UNCHANGED <<todo, ping, logic, lists, matrix, counts, port, bounds,
                 staleV, staleL>>

SyncFails ==
  /\ pc = "sync"
  /\ Abort
  /\ UNCHANGED <<ping, logic, lists, matrix, counts, staleV, staleL>>

-----------------------------------------------------------------------------
(* port_reg_cb and circuit_fast_update: an MCU writes a port from its clock *)
(* callback and the readers of the pin are called at once.                 *)

PortWrite(e, p) ==
  /\ pc = "clock" /\ e \in todo /\ p \in PortPins[e]
  /\ caller \in {NoElem, e}
  /\ writes < MaxPortWrites /\ writes' = writes + 1
  /\ caller' = e
  /\ IF p \in DNode
       THEN /\ logic' = Enqueue({p})
            /\ staleL' = staleL \cup LogicList[p]
            /\ IF LogicList[p] # {}            \* node->digital_fast_update
                 THEN pc' = "fuLogic" /\ ftodo' = logic'[ping]
                 ELSE UNCHANGED <<pc, ftodo>>
       ELSE /\ UNCHANGED <<logic, staleL>>
            /\ IF FastList[p] # {}             \* node->analog_fast_update
                 THEN pc' = "fuSolve" /\ UNCHANGED ftodo
                 ELSE UNCHANGED <<pc, ftodo>>
  /\ UNCHANGED <<left, todo, ping, lists, matrix, counts, nested, bounds, staleV>>

FastSolve ==
  /\ pc = "fuSolve"
  /\ MaySolve
  /\ pc' = "fuFast" /\ ftodo' = fast'
  /\ UNCHANGED <<left, todo, ping, logic, counts, caller, writes, nested, bounds, staleL>>

FastVChanged(e) ==
  /\ pc = "fuFast" /\ e \in ftodo
  /\ ftodo' = ftodo \ {e}
  /\ StampBy(e)
  /\ DriveBy(e, {})
  /\ staleV' = staleV \ {e}
  /\ UNCHANGED <<flow, ping, lists, counts, caller, writes, nested, bounds>>

EndFastVChanged ==
  /\ pc = "fuFast" /\ ftodo = {}
  /\ fast' = {}
  /\ pc' = "clock"
  /\ UNCHANGED <<left, todo, ping, logic, react, nonlin, matrix, counts, port, bounds,
                 staleV, staleL>>

\* The list being delivered is the one being filled.  A member the iteration has
\* passed is not added again.  A new member may lie ahead or behind; and if the
\* table grows for it, hashmap.c's rehash reorders the buckets under the
\* iteration, which goes on with any of the members ahead.
FastEvent(e) ==
  /\ pc = "fuLogic" /\ e \in ftodo
  /\ IF e \in HasEvent
       THEN /\ StampBy(e)
            /\ DriveBy(e, {e})
            /\ IF logic' = logic
                 THEN ftodo' = ftodo \ {e}
                 ELSE ftodo' \in SUBSET logic'[ping]
            /\ nested' = (nested \/ logic' # logic \/ staleL' # staleL \ {e})
            /\ UNCHANGED pc
       ELSE /\ pc' = "crashed"
            /\ UNCHANGED <<ftodo, nested, matrix, logic, staleL>>
  /\ UNCHANGED <<left, todo, ping, lists, counts, caller, writes, bounds, staleV>>

EndFastEvent ==
  /\ pc = "fuLogic" /\ ftodo = {}
  /\ logic' = [logic EXCEPT ![ping] = {}]
  /\ pc' = "clock"
  /\ UNCHANGED <<left, todo, ping, lists, matrix, counts, port, bounds, staleV, staleL>>

\* port_reg_cb ignores the result of circuit_fast_update.
FastFails ==
  /\ errors < MaxErrors /\ errors' = errors + 1
  /\ \/ /\ pc = "fuSolve" /\ changedNodes # {}
        /\ SolveFails /\ UNCHANGED <<logic, staleL>>
     \/ /\ pc \in {"fuFast", "fuLogic"}
        /\ \E e \in ftodo :
             /\ pc = "fuLogic" => e \in HasEvent
             /\ StampBy(e) /\ DriveBy(e, {})
        /\ UNCHANGED <<lists, staleV>>
  /\ ftodo' = {} /\ pc' = "clock"
  /\ UNCHANGED <<left, todo, ping, counts, caller, writes, nested, restarts>>

-----------------------------------------------------------------------------

Step ==
  \/ BeginStep
  \/ \E e \in Elem : VChanged(e)
  \/ EndReact \/ EndFast
  \/ \E e \in Elem : Clock(e)
  \/ EndClock
  \/ \E e \in Elem : Event(e)
  \/ EndLogic \/ EndNonLin \/ NonLinSolve \/ Solve \/ Sync

FastUpdate ==
  \/ \E e \in Elem, p \in ANode \cup DNode : PortWrite(e, p)
  \/ FastSolve
  \/ \E e \in Elem : FastVChanged(e)
  \/ EndFastVChanged
  \/ \E e \in Elem : FastEvent(e)
  \/ EndFastEvent

Failure ==
  \/ \E e \in Elem : VChangedFails(e)
  \/ \E e \in Elem : ClockFails(e)
  \/ \E e \in Elem : EventFails(e)
  \/ InitFails \/ SolverFails \/ SyncFails \/ FastFails

Control == InitCircuit \/ Stop \/ RunStep

Next == Step \/ FastUpdate \/ Failure \/ Control

Spec == Init /\ [][Next]_vars

\* The frontend's worker calls circuit_run_step again and again and each call
\* runs to its end.
FairSpec == Spec /\ WF_vars(RunStep) /\ WF_vars(Step \/ FastUpdate)

-----------------------------------------------------------------------------
(* What is still to be visited of a list: all of it, or, while it is being  *)
(* iterated, the members the iteration has not reached.                    *)

LeftOf(list, phase) == IF pc = phase THEN todo ELSE list

DueFast   == IF pc = "fuFast" THEN ftodo ELSE LeftOf(fast, "fast")
Analog    == LeftOf(react, "react") \cup DueFast \cup LeftOf(nonlin, "nonlin")
Delivered == LeftOf(logic[~ping], "logic")

\* An element whose analog input moved since its last vchanged is in a list the
\* scheduler has still to visit: no voltage change is forgotten, across errors,
\* fast updates and restarts.
NoLostVoltage == staleV \subseteq Analog

\* An element whose digital input was set since its last event is in one of the
\* two logic lists, across errors, restarts and port writes, as long as no event
\* callback called inside a fast update has raised an event itself.
NoLostEventButFast ==
  pc # "fuLogic" /\ ~nested => staleL \subseteq Delivered \cup logic[ping]

\* The same with no exception, as an event-driven logical model has it.
NoLostEvent == pc # "fuLogic" => staleL \subseteq Delivered \cup logic[ping]

\* A stamped node is in changed_node_list: circ_node_t.changed, tested to enter
\* it once, never keeps it out.
StampedIsListed == \A n \in ANode : changed[n] => n \in changedNodes

\* A step ends with every row rebuilt and, if nothing failed, the matrix solved:
\* the clk callback reads voltages of the circuit as it is stamped.
StepEndsSolved ==
  pc = "sync" => /\ changedNodes = {}
                 /\ \A n \in ANode : ~changed[n]
                 /\ errors = 0 => ~dirty

\* Both logic lists are never alive at once: the list to deliver is empty at
\* every step boundary, so that no event waits for two steps.
DrainedAtBoundary == pc \in {"idle", "pick", "sync"} /\ errors = 0 => logic[~ping] = {}

\* The ping-pong lists implement EventDelta.tla where no pin of a port has readers
\* (circuit_fast_update is never entered).
Failures == IF pc = "crashed" THEN errors + 1 ELSE errors
Delta == INSTANCE EventDelta
  WITH Sink <- Elem, due <- Delivered, later <- logic[ping], failures <- Failures
ImplementsDelta == Delta!Spec

\* Every element with a changed input voltage is served, a reactive or non-linear
\* one when its round comes, whatever fails on the way.
EveryVoltageServed == \A e \in Elem : (e \in staleV) ~> (e \notin staleV)

\* The counters stay below their periods, so that the equality that starts a
\* round is met.
CountersBelowPeriods == reactCount < StepsReact /\ nonLinCount < StepsNonLinear

\* A non-linear round ends converged unless its iterations ran out.
RoundConverges ==
  pc = "solve" /\ loops \in 1..MaxLoops => nonlin = {} /\ changedNodes = {}

\* No callback is called through a null pointer.
NoNullCallback == pc # "crashed"
=============================================================================
