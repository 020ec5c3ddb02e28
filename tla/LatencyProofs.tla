--------------------------- MODULE LatencyProofs ---------------------------
(***************************************************************************)
(* LatencyBounds for every topology and all periods: how long an element    *)
(* waits is bounded by the counters of the scheduler.                       *)
(***************************************************************************)
EXTENDS CircuitLatency, CircuitProofs

RegFast   == Registered(FastList, ANode)
RegReact  == Registered(ReactList, ANode)
RegNonLin == Registered(NonLinList, ANode)

\* An element is registered in lists of one kind, no pin of a port has digital
\* readers, and a circuit is initialised once.  An element of two kinds may wait for
\* the longer of its periods; a second circuit_init resets the counters and keeps
\* nobody's place.
Regular ==
  /\ RegFast \cap RegReact = {} /\ RegFast \cap RegNonLin = {} /\ RegReact \cap RegNonLin = {}
  /\ NoPortReaders
  /\ MaxRestarts = 0

\* The lists hold what is registered for them, and no delivery is nested.
ListsInv ==
  /\ fast \subseteq RegFast /\ react \subseteq RegReact /\ nonlin \subseteq RegNonLin
  /\ NoFastEvent /\ ~nested
  /\ pc = "created" /\ errors = 0 => staleV = {}

\* Only an event that is being delivered has waited, and for one step.
EventWaits ==
  errors = 0 => \A e \in Elem :
    /\ waitL[e] \in {0, 1}
    /\ waitL[e] = 1 => e \in Delivered

\* The phases of a step before the counter of the non-linear rounds is advanced.
Before == {"react", "fast", "clock", "logic", "fuSolve", "fuFast", "fuLogic", "crashed"}

FastBound == IF pc \in {"react", "fast"} THEN 1 ELSE 0
ReactBound == IF pc = "react" THEN StepsReact ELSE reactCount
NonLinBound ==
  IF pc = "nonlin" THEN StepsNonLinear
  ELSE IF pc \in Before THEN nonLinCount + 1 ELSE nonLinCount

\* A wait follows the counter of its rounds.
VoltWaits ==
  errors = 0 => \A e \in Elem :
    /\ waitV[e] \in Nat
    /\ e \notin staleV => waitV[e] = 0
    /\ e \in RegFast => waitV[e] <= FastBound
    /\ e \in RegReact => waitV[e] <= ReactBound
    /\ e \in RegNonLin => waitV[e] <= NonLinBound

TimedInv == IInv /\ ListsInv /\ EventWaits /\ VoltWaits

-----------------------------------------------------------------------------
LEMMA NotifyRegistered ==
  ASSUME ListsInv, NEW V \in SUBSET ANode, Notify(V)
  PROVE  fast' \subseteq RegFast /\ react' \subseteq RegReact /\ nonlin' \subseteq RegNonLin
  BY DEF ListsInv, Notify, Registered, RegFast, RegReact, RegNonLin

LEMMA SolveRegistered ==
  ASSUME ListsInv, MaySolve \/ SolveFails
  PROVE  fast' \subseteq RegFast /\ react' \subseteq RegReact /\ nonlin' \subseteq RegNonLin
  BY NotifyRegistered DEF ListsInv, MaySolve, SolveOK, SolveFails, lists

LEMMA ListsStep ==
  ASSUME Regular, IInv, ListsInv, [Next]_vars
  PROVE  ListsInv'
  <1>1. NoFastEvent'
    BY NoFastEventStep DEF Regular, ListsInv
  <1>2. ~nested'
    BY DEF ListsInv, NoFastEvent, Next, Step, FastUpdate, Failure, Control, vars, port,
       BeginStep, VChanged, EndReact, EndFast, Clock, EndClock, Event, EndLogic,
       EndNonLin, NonLinSolve, Solve, Sync, PortWrite, FastSolve, FastVChanged,
       EndFastVChanged, FastEvent, EndFastEvent, VChangedFails, ClockFails, EventFails,
       InitFails, SolverFails, SyncFails, FastFails, Abort, InitCircuit, Stop, RunStep
  <1>3. (fast \subseteq RegFast /\ react \subseteq RegReact /\ nonlin \subseteq RegNonLin)'
    <2> DEFINE goal == (fast \subseteq RegFast /\ react \subseteq RegReact
                        /\ nonlin \subseteq RegNonLin)'
    <2>1. CASE NonLinSolve \/ Solve \/ FastSolve \/ SolverFails
      BY <2>1, SolveRegistered DEF NonLinSolve, Solve, FastSolve, SolverFails
    <2>2. CASE FastFails
      BY <2>2, SolveRegistered DEF FastFails, ListsInv, lists
    <2>3. CASE InitCircuit
      BY <2>3 DEF InitCircuit, Registered, RegFast, RegReact, RegNonLin
    <2>4. CASE Stop
      BY <2>4, NotifyRegistered DEF Stop
    <2>5. CASE EndReact \/ EndFast \/ EndNonLin \/ EndFastVChanged \/ InitFails
      BY <2>5 DEF EndReact, EndFast, EndNonLin, EndFastVChanged, InitFails, ListsInv
    <2>6. CASE UNCHANGED lists
      BY <2>6 DEF lists, ListsInv
    <2>7. \/ NonLinSolve \/ Solve \/ FastSolve \/ SolverFails \/ FastFails \/ InitCircuit
          \/ Stop \/ EndReact \/ EndFast \/ EndNonLin \/ EndFastVChanged \/ InitFails
          \/ UNCHANGED lists
      BY DEF Next, Step, FastUpdate, Failure, Control, vars, BeginStep, VChanged, Clock,
         EndClock, Event, EndLogic, Sync, PortWrite, FastVChanged, FastEvent,
         EndFastEvent, VChangedFails, ClockFails, EventFails, SyncFails, RunStep, lists
    <2> QED
      BY <2>1, <2>2, <2>3, <2>4, <2>5, <2>6, <2>7
  <1>4. (pc = "created" /\ errors = 0 => staleV = {})'
    BY DEF ListsInv, Next, Step, FastUpdate, Failure, Control, vars, flow, bounds,
       BeginStep, VChanged, EndReact, EndFast, Clock, EndClock, Event, EndLogic,
       EndNonLin, NonLinSolve, Solve, Sync, PortWrite, FastSolve, FastVChanged,
       EndFastVChanged, FastEvent, EndFastEvent, VChangedFails, ClockFails, EventFails,
       InitFails, SolverFails, SyncFails, FastFails, Abort, InitCircuit, Stop, RunStep
  <1> QED
    BY <1>1, <1>2, <1>3, <1>4 DEF ListsInv

-----------------------------------------------------------------------------
\* A step that is no failure, by what it may be.
LEMMA NoFailure ==
  ASSUME IInv, Next, errors' = 0
  PROVE  errors = 0 /\ (Step \/ FastUpdate \/ Control)
  <1>1. Step \/ FastUpdate \/ Control => errors' = errors
    BY DEF Step, FastUpdate, Control, bounds, BeginStep, VChanged, EndReact, EndFast,
       Clock, EndClock, Event, EndLogic, EndNonLin, NonLinSolve, Solve, Sync, PortWrite,
       FastSolve, FastVChanged, EndFastVChanged, FastEvent, EndFastEvent, InitCircuit,
       Stop, RunStep
  <1>2. Failure => errors' = errors + 1
    BY DEF Failure, VChangedFails, ClockFails, EventFails, InitFails, SolverFails,
       SyncFails, FastFails, Abort
  <1>3. errors \in Nat
    BY BoundAssumption DEF IInv, TypeInv, TypeOK
  <1> QED
    BY <1>1, <1>2, <1>3 DEF Next

\* What waits to be delivered goes on waiting, unless it is served.
LEMMA DeliveredKept ==
  ASSUME Regular, IInv, ListsInv, Next, errors' = 0, ~BeginStep,
         NEW e \in Delivered
  PROVE  e \in Delivered' \/ Served(e)
  <1> USE DEF IInv, TypeInv, TypeOK
  <1>1. Step \/ FastUpdate \/ Control
    BY NoFailure
  <1>2. ASSUME NEW x \in Elem, VChanged(x) PROVE e \in Delivered'
    BY <1>2, CallbackDrives DEF VChanged, Delivered, LeftOf
  <1>3. ASSUME NEW x \in Elem, Clock(x) PROVE e \in Delivered'
    BY <1>3, ClockEffect DEF Clock, Delivered, LeftOf
  <1>4. ASSUME NEW x \in Elem, Event(x) PROVE e \in Delivered' \/ Served(e)
    BY <1>4 DEF Event, Delivered, LeftOf, Served, EventInv
  <1>5. CASE EndReact \/ EndFast \/ EndClock \/ EndNonLin \/ NonLinSolve \/ Solve \/ Sync
    BY <1>5 DEF EndReact, EndFast, EndClock, EndNonLin, NonLinSolve, Solve, Sync,
       Delivered, LeftOf
  <1>6. CASE EndLogic
    BY <1>6 DEF EndLogic, Delivered, LeftOf
  <1>7. ASSUME NEW x \in Elem, NEW p \in ANode \cup DNode, PortWrite(x, p)
        PROVE  e \in Delivered'
    BY <1>7, DriveEffect DEF PortWrite, Delivered, LeftOf, Enqueue
  <1>8. ASSUME NEW x \in Elem, FastVChanged(x) PROVE e \in Delivered'
    BY <1>8, CallbackDrives DEF FastVChanged, flow, Delivered, LeftOf
  <1>9. CASE FastSolve \/ EndFastVChanged
    BY <1>9 DEF FastSolve, EndFastVChanged, Delivered, LeftOf
  <1>10. CASE EndFastEvent \/ \E x \in Elem : FastEvent(x)
    BY <1>10 DEF EndFastEvent, FastEvent, ListsInv, NoFastEvent
  <1>11. ~Stop
    BY BoundAssumption DEF Stop, Regular
  <1>12. CASE InitCircuit \/ RunStep
    BY <1>12 DEF InitCircuit, MayInit, RunStep, Delivered, LeftOf
  <1> QED
    BY <1>1, <1>2, <1>3, <1>4, <1>5, <1>6, <1>7, <1>8, <1>9, <1>10, <1>11, <1>12
    DEF Step, FastUpdate, Control

\* Only BeginStep leaves "pick".
LEMMA NotPicking ==
  ASSUME IInv, Next, errors' = 0, ~BeginStep
  PROVE  pc # "pick"
  <1>1. Step \/ FastUpdate \/ Control
    BY NoFailure
  <1> QED
    BY <1>1
    DEF Step, FastUpdate, Control, VChanged, EndReact, EndFast, Clock, EndClock, Event,
        EndLogic, EndNonLin, NonLinSolve, Solve, Sync, PortWrite, FastSolve,
        FastVChanged, EndFastVChanged, FastEvent, EndFastEvent, InitCircuit, MayInit,
        Stop, RunStep

LEMMA EventWaitsStep ==
  ASSUME Regular, IInv, ListsInv, EventWaits, TimedNext
  PROVE  EventWaits'
  <1> SUFFICES ASSUME errors' = 0, NEW e \in Elem
               PROVE  waitL'[e] \in {0, 1} /\ (waitL'[e] = 1 => e \in Delivered')
    BY DEF EventWaits
  <1>1. errors = 0 /\ Next
    BY NoFailure DEF TimedNext
  <1>2. waitL'[e] = IF e \in staleL /\ e \in staleL' /\ ~Served(e)
                      THEN Waited(waitL, e) ELSE 0
    BY DEF TimedNext
  <1>3. waitL[e] \in {0, 1} /\ (waitL[e] = 1 => e \in Delivered)
    BY <1>1 DEF EventWaits
  <1>4. CASE BeginStep
    <2>1. Delivered = {}
      BY <1>1, <1>4 DEF BeginStep, IInv, EventInv, Delivered, LeftOf
    <2>2. Delivered' = logic[ping]
      BY <1>4 DEF BeginStep, Flip, IInv, TypeInv, TypeOK, Delivered, LeftOf
    <2>3. staleL \subseteq logic[ping]
      BY <1>4, <2>1 DEF BeginStep, IInv, EventInv, NoLostEventButFast, ListsInv
    <2>4. Waited(waitL, e) \in {0, 1}
      BY <1>3, <2>1 DEF Waited
    <2> QED
      BY <1>2, <2>2, <2>3, <2>4
  <1>5. CASE ~BeginStep
    <2>2. pc # "pick"
      BY <1>1, <1>5, NotPicking
    <2>3. Waited(waitL, e) = waitL[e]
      BY <2>2 DEF Waited
    <2>4. waitL[e] = 1 => e \in Delivered' \/ Served(e)
      BY <1>1, <1>3, <1>5, DeliveredKept
    <2> QED
      BY <1>2, <1>3, <2>3, <2>4
  <1> QED
    BY <1>4, <1>5

-----------------------------------------------------------------------------
\* Where an element with a changed input is listed.
LEMMA WhereListed ==
  ASSUME Regular, IInv, ListsInv, NEW e \in staleV
  PROVE  /\ e \in RegFast \cup RegReact \cup RegNonLin
         /\ e \in RegFast => e \in DueFast
         /\ e \in RegReact => e \in LeftOf(react, "react")
         /\ e \in RegNonLin => e \in LeftOf(nonlin, "nonlin")
  <1>1. e \in Analog
    BY DEF IInv, VoltageInv, NoLostVoltage
  <1>2. /\ DueFast \subseteq RegFast
        /\ LeftOf(react, "react") \subseteq RegReact
        /\ LeftOf(nonlin, "nonlin") \subseteq RegNonLin
    BY DEF IInv, VoltageInv, ListsInv, DueFast, LeftOf
  <1> QED
    BY <1>1, <1>2 DEF Analog, Regular

\* A step that starts and ends no round and no phase keeps the bounds.
LEMMA SameBounds ==
  ASSUME Regular, IInv, ListsInv, Next, errors' = 0,
         ~BeginStep, ~EndReact, ~EndFast, ~EndLogic, ~EndNonLin, ~NonLinSolve, ~InitCircuit
  PROVE  FastBound' = FastBound /\ ReactBound' = ReactBound /\ NonLinBound' = NonLinBound
  <1>1. Step \/ FastUpdate \/ Control
    BY NoFailure
  <1>2. ~Stop
    BY BoundAssumption DEF Stop, Regular, IInv, TypeInv, TypeOK
  <1>3. CASE \E e \in Elem : VChanged(e)
    BY <1>3 DEF VChanged, counts, FastBound, ReactBound, NonLinBound
  <1>4. CASE \E e \in Elem : Clock(e)
    BY <1>4 DEF Clock, counts, FastBound, ReactBound, NonLinBound
  <1>5. CASE \E e \in Elem : Event(e)
    BY <1>5 DEF Event, counts, FastBound, ReactBound, NonLinBound, Before
  <1>6. CASE EndClock \/ Solve \/ Sync
    BY <1>6 DEF EndClock, Solve, Sync, counts, FastBound, ReactBound, NonLinBound, Before
  <1>7. CASE \E e \in Elem, p \in ANode \cup DNode : PortWrite(e, p)
    BY <1>7 DEF PortWrite, counts, FastBound, ReactBound, NonLinBound, Before
  <1>8. CASE FastSolve \/ EndFastVChanged \/ EndFastEvent
    BY <1>8 DEF FastSolve, EndFastVChanged, EndFastEvent, counts, FastBound, ReactBound,
       NonLinBound, Before
  <1>9. CASE \E e \in Elem : FastVChanged(e)
    BY <1>9 DEF FastVChanged, flow, counts, FastBound, ReactBound, NonLinBound
  <1>10. CASE \E e \in Elem : FastEvent(e)
    BY <1>10 DEF FastEvent, ListsInv, NoFastEvent
  <1>11. CASE RunStep
    BY <1>11 DEF RunStep, counts, FastBound, ReactBound, NonLinBound, Before
  <1> QED
    BY <1>1, <1>2, <1>3, <1>4, <1>5, <1>6, <1>7, <1>8, <1>9, <1>10, <1>11
    DEF Step, FastUpdate, Control

LEMMA VoltWaitsStep ==
  ASSUME Regular, IInv, ListsInv, VoltWaits, TimedNext
  PROVE  VoltWaits'
  <1> DEFINE Goal(e) == /\ waitV'[e] \in Nat
                        /\ e \notin staleV' => waitV'[e] = 0
                        /\ e \in RegFast => waitV'[e] <= FastBound'
                        /\ e \in RegReact => waitV'[e] <= ReactBound'
                        /\ e \in RegNonLin => waitV'[e] <= NonLinBound'
  <1> SUFFICES ASSUME errors' = 0, NEW e \in Elem PROVE Goal(e)
    BY DEF VoltWaits
  <1> USE BoundAssumption
  <1>1. errors = 0 /\ Next
    BY NoFailure DEF TimedNext
  <1>2. waitV'[e] = IF e \in staleV /\ e \in staleV' THEN Waited(waitV, e) ELSE 0
    BY DEF TimedNext
  <1>3. /\ waitV[e] \in Nat
        /\ e \in RegFast => waitV[e] <= FastBound
        /\ e \in RegReact => waitV[e] <= ReactBound
        /\ e \in RegNonLin => waitV[e] <= NonLinBound
    BY <1>1 DEF VoltWaits
  <1>4. /\ reactCount \in Nat /\ nonLinCount \in Nat
        /\ reactCount < StepsReact /\ nonLinCount < StepsNonLinear
        /\ StepsReact \in Nat /\ StepsNonLinear \in Nat
    BY DEF IInv, TypeInv, TypeOK, CountersBelowPeriods
  <1>5. /\ FastBound \in Nat /\ ReactBound \in Nat /\ NonLinBound \in Nat
    BY <1>4 DEF FastBound, ReactBound, NonLinBound
  <1>6. CASE BeginStep
    <2>1. waitV'[e] \in Nat /\ waitV'[e] <= waitV[e] + 1
      BY <1>2, <1>3 DEF Waited
    <2>2. e \notin staleV' => waitV'[e] = 0
      BY <1>2
    <2>3. e \in RegFast => waitV'[e] <= FastBound'
      BY <1>3, <1>6, <2>1 DEF BeginStep, FastBound
    <2>4. e \in RegReact => waitV'[e] <= ReactBound'
      BY <1>3, <1>4, <1>6, <2>1 DEF BeginStep, Advance, Due, ReactBound
    <2>5. e \in RegNonLin => waitV'[e] <= NonLinBound'
      BY <1>3, <1>4, <1>6, <2>1 DEF BeginStep, NonLinBound, Before
    <2> QED
      BY <2>1, <2>2, <2>3, <2>4, <2>5
  <1>7. CASE ~BeginStep
    <2>1. pc # "pick"
      BY <1>1, <1>7, NotPicking
    <2>2. /\ waitV'[e] \in Nat /\ waitV'[e] <= waitV[e]
          /\ e \notin staleV \/ e \notin staleV' => waitV'[e] = 0
      BY <1>2, <1>3, <2>1 DEF Waited
    <2>3. e \in staleV => /\ e \in RegFast => e \in DueFast
                          /\ e \in RegReact => e \in LeftOf(react, "react")
                          /\ e \in RegNonLin => e \in LeftOf(nonlin, "nonlin")
      BY WhereListed
    <2>4. CASE EndReact
      <3>1. e \in RegReact => waitV'[e] = 0
        BY <2>2, <2>3, <2>4 DEF EndReact, LeftOf
      <3>2. FastBound' = FastBound /\ NonLinBound' = NonLinBound /\ ReactBound' \in Nat
        BY <1>4, <2>4 DEF EndReact, counts, FastBound, ReactBound, NonLinBound, Before
      <3> QED
        BY <1>3, <1>5, <2>2, <3>1, <3>2
    <2>5. CASE EndFast
      <3>1. e \in RegFast => waitV'[e] = 0
        BY <2>2, <2>3, <2>5 DEF EndFast, DueFast, LeftOf
      <3>2. ReactBound' = ReactBound /\ NonLinBound' = NonLinBound /\ FastBound' \in Nat
        BY <2>5 DEF EndFast, counts, FastBound, ReactBound, NonLinBound, Before
      <3> QED
        BY <1>3, <1>5, <2>2, <3>1, <3>2
    <2>6. CASE EndLogic
      <3>1. FastBound' = FastBound /\ ReactBound' = ReactBound
        BY <2>6 DEF EndLogic, FastBound, ReactBound
      <3>2. e \in RegNonLin => waitV'[e] <= NonLinBound'
        <4>1. CASE Due(nonLinCount, StepsNonLinear) /\ nonlin = {}
          <5>1. e \in RegNonLin => e \notin staleV
            BY <2>3, <2>6, <4>1 DEF EndLogic, LeftOf
          <5>2. NonLinBound' = 0
            BY <2>6, <4>1 DEF EndLogic, Advance, NonLinBound, Before
          <5> QED
            BY <2>2, <5>1, <5>2
        <4>2. CASE Due(nonLinCount, StepsNonLinear) /\ nonlin # {}
          BY <1>3, <1>4, <2>2, <2>6, <4>2 DEF EndLogic, Due, NonLinBound, Before
        <4>3. CASE ~Due(nonLinCount, StepsNonLinear)
          BY <1>3, <1>4, <2>2, <2>6, <4>3 DEF EndLogic, Advance, NonLinBound, Before
        <4> QED
          BY <4>1, <4>2, <4>3
      <3> QED
        BY <1>3, <1>5, <2>2, <3>1, <3>2
    <2>7. CASE EndNonLin
      <3>1. e \in RegNonLin => waitV'[e] = 0
        BY <2>2, <2>3, <2>7 DEF EndNonLin, LeftOf
      <3>2. FastBound' = FastBound /\ ReactBound' = ReactBound /\ NonLinBound' \in Nat
        BY <1>4, <2>7 DEF EndNonLin, counts, FastBound, ReactBound, NonLinBound, Before
      <3> QED
        BY <1>3, <1>5, <2>2, <3>1, <3>2
    <2>8. CASE NonLinSolve
      <3>1. FastBound' = FastBound /\ ReactBound' = ReactBound
        BY <2>8 DEF NonLinSolve, FastBound, ReactBound
      <3>2. NonLinBound <= NonLinBound' /\ NonLinBound' \in Nat
        BY <1>4, <2>8 DEF NonLinSolve, NonLinBound, Before
      <3> QED
        BY <1>3, <1>5, <2>2, <3>1, <3>2
    <2>9. CASE InitCircuit
      <3>1. pc = "created"
        BY <2>9 DEF InitCircuit, MayInit, Regular, IInv, TypeInv, TypeOK
      <3>2. waitV'[e] = 0
        BY <1>1, <2>2, <3>1 DEF ListsInv
      <3>3. FastBound' \in Nat /\ ReactBound' \in Nat /\ NonLinBound' \in Nat
        BY <2>9 DEF InitCircuit, FastBound, ReactBound, NonLinBound, Before
      <3> QED
        BY <3>2, <3>3
    <2>10. CASE ~(EndReact \/ EndFast \/ EndLogic \/ EndNonLin \/ NonLinSolve \/ InitCircuit)
      <3>1. FastBound' = FastBound /\ ReactBound' = ReactBound /\ NonLinBound' = NonLinBound
        BY <1>1, <1>7, <2>10, SameBounds
      <3> QED
        BY <1>3, <1>5, <2>2, <3>1
    <2> QED
      BY <2>4, <2>5, <2>6, <2>7, <2>8, <2>9, <2>10
  <1> QED
    BY <1>6, <1>7

-----------------------------------------------------------------------------
LEMMA InitTimedInv == TimedInit => TimedInv
  <1> SUFFICES ASSUME TimedInit PROVE TimedInv
    OBVIOUS
  <1>1. IInv
    BY InitIInv DEF TimedInit
  <1>2. ListsInv
    BY DEF TimedInit, Init, ListsInv, NoFastEvent
  <1>3. EventWaits
    BY DEF TimedInit, EventWaits
  <1>4. VoltWaits
    BY BoundAssumption
    DEF TimedInit, Init, VoltWaits, FastBound, ReactBound, NonLinBound, Before
  <1> QED
    BY <1>1, <1>2, <1>3, <1>4 DEF TimedInv

LEMMA TimedStep == Regular /\ TimedInv /\ [TimedNext]_timedVars => TimedInv'
  <1> SUFFICES ASSUME Regular, TimedInv, [TimedNext]_timedVars PROVE TimedInv'
    OBVIOUS
  <1>1. [Next]_vars
    BY DEF TimedNext, timedVars
  <1>2. IInv' /\ ListsInv'
    BY <1>1, IInvStep, ListsStep DEF TimedInv
  <1>3. CASE TimedNext
    BY <1>2, <1>3, EventWaitsStep, VoltWaitsStep DEF TimedInv
  <1>4. CASE UNCHANGED timedVars
    <2>1. EventWaits'
      BY <1>4 DEF timedVars, vars, flow, bounds, TimedInv, EventWaits, Delivered, LeftOf
    <2>2. VoltWaits'
      BY <1>4 DEF timedVars, vars, flow, bounds, counts, TimedInv, VoltWaits, FastBound,
         ReactBound, NonLinBound
    <2> QED
      BY <1>2, <2>1, <2>2 DEF TimedInv
  <1> QED
    BY <1>3, <1>4

\* Without an error an event waits one step, a fast element one step, a reactive or
\* a non-linear element a period of its rounds, whatever the board and the periods:
\* circuit.c:167-240.
THEOREM WaitsBounded == Regular /\ TimedSpec => []LatencyBounds
  <1>1. Regular /\ TimedInv => LatencyBounds
    <2> SUFFICES ASSUME Regular, TimedInv, errors = 0, NEW e \in Elem
                 PROVE  waitL[e] <= 1 /\ waitV[e] <= PeriodOf(e)
      BY DEF LatencyBounds
    <2>1. waitL[e] <= 1
      BY DEF TimedInv, EventWaits
    <2>2. /\ waitV[e] \in Nat
          /\ e \notin staleV => waitV[e] = 0
          /\ e \in RegFast => waitV[e] <= FastBound
          /\ e \in RegReact => waitV[e] <= ReactBound
          /\ e \in RegNonLin => waitV[e] <= NonLinBound
      BY DEF TimedInv, VoltWaits
    <2>3. FastBound <= 1 /\ ReactBound <= StepsReact /\ NonLinBound <= StepsNonLinear
      BY BoundAssumption DEF TimedInv, IInv, TypeInv, TypeOK, CountersBelowPeriods,
         FastBound, ReactBound, NonLinBound
    <2>4. FastBound \in Nat /\ ReactBound \in Nat /\ NonLinBound \in Nat
      BY BoundAssumption DEF TimedInv, IInv, TypeInv, TypeOK, FastBound, ReactBound,
         NonLinBound
    <2>5. /\ e \in RegFast => PeriodOf(e) = 1
          /\ e \in RegReact => PeriodOf(e) = StepsReact
          /\ e \notin RegFast \cup RegReact => PeriodOf(e) = StepsNonLinear
          /\ PeriodOf(e) \in Nat
      BY BoundAssumption DEF PeriodOf, RegFast, RegReact, Regular
    <2>6. e \in staleV => e \in RegFast \cup RegReact \cup RegNonLin
      BY WhereListed DEF TimedInv
    <2>7. waitV[e] <= PeriodOf(e)
      BY <2>2, <2>3, <2>4, <2>5, <2>6, BoundAssumption
    <2> QED
      BY <2>1, <2>7
  <1>2. SUFFICES ASSUME Regular PROVE TimedSpec => []LatencyBounds
    OBVIOUS
  <1> QED
    BY <1>1, <1>2, InitTimedInv, TimedStep, PTL DEF TimedSpec
=============================================================================
