---------------------------- MODULE CircuitProofs ----------------------------
(***************************************************************************)
(* Theorems about Circuit.tla for every topology and every period.         *)
(***************************************************************************)
EXTENDS Circuit, TLAPS

(* The control facts the type invariant needs to be inductive: a call in   *)
(* progress has steps left, and a non-linear iteration under way is not     *)
(* exhausted.                                                              *)
InCall == Phases \ {"created", "idle", "crashed"}

ControlOK ==
  /\ pc \in InCall => left > 0
  /\ pc \in {"nonlin", "nlSolve"} => loops <= MaxLoops

TypeInv == TypeOK /\ ControlOK

\* The lists of a node name elements only, the stamps of an element nodes only.
LEMMA RegisteredType ==
  /\ \A V \in SUBSET ANode : /\ Registered(FastList, V) \subseteq Elem
                             /\ Registered(ReactList, V) \subseteq Elem
                             /\ Registered(NonLinList, V) \subseteq Elem
  /\ \A D \in SUBSET DNode : Registered(LogicList, D) \subseteq Elem
  /\ UNION {Stamps[e] : e \in Elem} \subseteq ANode
BY TopologyAssumption DEF Registered

\* What stamping, driving and moving nodes writes is of the right type.
LEMMA WriteType ==
  ASSUME TypeOK
  PROVE  /\ \A S \in SUBSET ANode : Stamp(S) =>
              /\ changedNodes' \subseteq ANode
              /\ changed' \in [ANode -> BOOLEAN]
              /\ dirty' \in BOOLEAN
         /\ \A D \in SUBSET DNode, H \in SUBSET Elem : Drive(D, H) =>
              /\ logic' \in [BOOLEAN -> SUBSET Elem]
              /\ staleL' \subseteq Elem
         /\ \A V \in SUBSET ANode : Notify(V) =>
              /\ react' \subseteq Elem /\ fast' \subseteq Elem
              /\ nonlin' \subseteq Elem /\ staleV' \subseteq Elem
<1>1. ASSUME NEW S \in SUBSET ANode, Stamp(S)
      PROVE  /\ changedNodes' \subseteq ANode
             /\ changed' \in [ANode -> BOOLEAN]
             /\ dirty' \in BOOLEAN
  BY <1>1 DEF TypeOK, Stamp
<1>2. ASSUME NEW D \in SUBSET DNode, NEW H \in SUBSET Elem, Drive(D, H)
      PROVE  logic' \in [BOOLEAN -> SUBSET Elem] /\ staleL' \subseteq Elem
  BY <1>2, RegisteredType DEF TypeOK, Drive, Enqueue
<1>3. ASSUME NEW V \in SUBSET ANode, Notify(V)
      PROVE  /\ react' \subseteq Elem /\ fast' \subseteq Elem
             /\ nonlin' \subseteq Elem /\ staleV' \subseteq Elem
  BY <1>3, RegisteredType DEF TypeOK, Notify
<1>4. QED BY <1>1, <1>2, <1>3

\* What a callback of e writes is of the right type.
LEMMA CallbackType ==
  ASSUME TypeOK, NEW e \in Elem
  PROVE  /\ StampBy(e) => /\ changedNodes' \subseteq ANode
                          /\ changed' \in [ANode -> BOOLEAN]
                          /\ dirty' \in BOOLEAN
         /\ DriveBy(e, {}) \/ DriveBy(e, {e}) \/ ClockDrives(e) =>
              /\ logic' \in [BOOLEAN -> SUBSET Elem]
              /\ staleL' \subseteq Elem
<1>1. /\ Stamps[e] \subseteq ANode
      /\ Outputs(e) \subseteq DNode
      /\ Drives[e] \ PortPins[e] \subseteq DNode
  BY TopologyAssumption DEF Outputs
<1>2. QED BY <1>1, WriteType DEF StampBy, DriveBy, ClockDrives

\* What a solution, complete or not, writes is of the right type.
LEMMA SolutionType ==
  ASSUME TypeOK, SolveFails \/ MaySolve
  PROVE  /\ changedNodes' \subseteq ANode /\ changed' \in [ANode -> BOOLEAN]
         /\ dirty' \in BOOLEAN
         /\ react' \subseteq Elem /\ fast' \subseteq Elem
         /\ nonlin' \subseteq Elem /\ staleV' \subseteq Elem
<1>1. CASE SolveFails
  BY <1>1, WriteType DEF SolveFails, TypeOK, lists
<1>2. CASE MaySolve
  BY <1>2, WriteType DEF MaySolve, SolveOK, TypeOK, lists, matrix
<1>3. QED BY <1>1, <1>2

\* Every step keeps the types.
LEMMA TypeStep == TypeInv /\ [Next]_vars => TypeInv'
<1> SUFFICES ASSUME TypeInv, [Next]_vars PROVE TypeInv'
  OBVIOUS
<1>1. CASE BeginStep
  BY <1>1, BoundAssumption
  DEF BeginStep, Flip, Due, Advance, TypeInv, TypeOK, ControlOK, InCall, Phases,
      lists, matrix, port, bounds
<1>2. ASSUME NEW e \in Elem, VChanged(e) PROVE TypeInv'
  BY <1>2, CallbackType, BoundAssumption
  DEF VChanged, TypeInv, TypeOK, ControlOK, InCall, Phases,
      lists, counts, port, bounds
<1>3. CASE EndReact
  BY <1>3, BoundAssumption
  DEF EndReact, TypeInv, TypeOK, ControlOK, InCall, Phases,
      matrix, counts, port, bounds
<1>4. CASE EndFast
  BY <1>4, TopologyAssumption, BoundAssumption
  DEF EndFast, TypeInv, TypeOK, ControlOK, InCall, Phases,
      matrix, counts, port, bounds
<1>5. ASSUME NEW e \in Elem, Clock(e) PROVE TypeInv'
  <2>1. /\ logic' \in [BOOLEAN -> SUBSET Elem] /\ staleL' \subseteq Elem
    BY <1>5, CallbackType DEF Clock, TypeInv
  <2>2. QED
    BY <1>5, <2>1, BoundAssumption
    DEF Clock, TypeInv, TypeOK, ControlOK, InCall, Phases,
        lists, matrix, counts, bounds
<1>6. CASE EndClock
  BY <1>6, BoundAssumption
  DEF EndClock, TypeInv, TypeOK, ControlOK, InCall, Phases,
      lists, matrix, counts, port, bounds
<1>7. ASSUME NEW e \in Elem, Event(e) PROVE TypeInv'
  BY <1>7, CallbackType, BoundAssumption
  DEF Event, TypeInv, TypeOK, ControlOK, InCall, Phases,
      lists, matrix, counts, port, bounds
<1>8. CASE EndLogic
  BY <1>8, BoundAssumption
  DEF EndLogic, Due, Advance, ClearDelivered, TypeInv, TypeOK, ControlOK, InCall, Phases,
      lists, matrix, port, bounds
<1>9. CASE EndNonLin
  BY <1>9, BoundAssumption
  DEF EndNonLin, TypeInv, TypeOK, ControlOK, InCall, Phases,
      matrix, counts, port, bounds
<1>10. CASE NonLinSolve
  BY <1>10, SolutionType, BoundAssumption
  DEF NonLinSolve, Exhausted, TypeInv, TypeOK, ControlOK, InCall, Phases,
      port, bounds
<1>11. CASE Solve
  BY <1>11, SolutionType, BoundAssumption
  DEF Solve, TypeInv, TypeOK, ControlOK, InCall, Phases,
      counts, port, bounds
<1>12. CASE Sync
  BY <1>12, BoundAssumption
  DEF Sync, TypeInv, TypeOK, ControlOK, InCall, Phases,
      lists, matrix, counts, port, bounds
<1>13. ASSUME NEW e \in Elem, NEW p \in ANode \cup DNode, PortWrite(e, p)
       PROVE  TypeInv'
  BY <1>13, RegisteredType, TopologyAssumption, BoundAssumption
  DEF PortWrite, Enqueue, TypeInv, TypeOK, ControlOK, InCall, Phases,
      lists, matrix, counts, bounds
<1>14. CASE FastSolve
  BY <1>14, SolutionType, BoundAssumption
  DEF FastSolve, TypeInv, TypeOK, ControlOK, InCall, Phases,
      counts, bounds
<1>15. ASSUME NEW e \in Elem, FastVChanged(e) PROVE TypeInv'
  BY <1>15, CallbackType, BoundAssumption
  DEF FastVChanged, TypeInv, TypeOK, ControlOK, InCall, Phases,
      flow, lists, counts, bounds
<1>16. CASE EndFastVChanged
  BY <1>16, BoundAssumption
  DEF EndFastVChanged, TypeInv, TypeOK, ControlOK, InCall, Phases,
      matrix, counts, port, bounds
<1>17. ASSUME NEW e \in Elem, FastEvent(e) PROVE TypeInv'
  BY <1>17, CallbackType, BoundAssumption
  DEF FastEvent, TypeInv, TypeOK, ControlOK, InCall, Phases,
      lists, matrix, counts, bounds
<1>18. CASE EndFastEvent
  BY <1>18, BoundAssumption
  DEF EndFastEvent, TypeInv, TypeOK, ControlOK, InCall, Phases,
      lists, matrix, counts, port, bounds
<1>19. ASSUME NEW e \in Elem, VChangedFails(e) PROVE TypeInv'
  <2>1. /\ changedNodes' \subseteq ANode /\ changed' \in [ANode -> BOOLEAN]
        /\ dirty' \in BOOLEAN
        /\ logic' \in [BOOLEAN -> SUBSET Elem] /\ staleL' \subseteq Elem
    BY <1>19, CallbackType DEF VChangedFails, TypeInv
  <2>2. QED
    BY <1>19, <2>1, BoundAssumption
    DEF VChangedFails, Abort, TypeInv, TypeOK, ControlOK, InCall, Phases,
        lists, counts
<1>20. ASSUME NEW e \in Elem, ClockFails(e) PROVE TypeInv'
  <2>1. /\ logic' \in [BOOLEAN -> SUBSET Elem] /\ staleL' \subseteq Elem
    BY <1>20, CallbackType DEF ClockFails, TypeInv
  <2>2. QED
    BY <1>20, <2>1, BoundAssumption
    DEF ClockFails, Abort, TypeInv, TypeOK, ControlOK, InCall, Phases,
        lists, matrix, counts
<1>21. ASSUME NEW e \in Elem, EventFails(e) PROVE TypeInv'
  <2>1. /\ changedNodes' \subseteq ANode /\ changed' \in [ANode -> BOOLEAN]
        /\ dirty' \in BOOLEAN
        /\ logic' \in [BOOLEAN -> SUBSET Elem] /\ staleL' \subseteq Elem
    BY <1>21, CallbackType DEF EventFails, TypeInv
  <2>2. QED
    BY <1>21, <2>1, BoundAssumption
    DEF EventFails, Abort, TypeInv, TypeOK, ControlOK, InCall, Phases,
        lists, counts
<1>22. CASE InitFails
  BY <1>22, RegisteredType, BoundAssumption
  DEF InitFails, MayInit, TypeInv, TypeOK, ControlOK, InCall, Phases,
      port
<1>23. CASE SolverFails
  BY <1>23, SolutionType, BoundAssumption
  DEF SolverFails, Abort, TypeInv, TypeOK, ControlOK, InCall, Phases,
      counts
<1>24. CASE SyncFails
  BY <1>24, BoundAssumption
  DEF SyncFails, Abort, TypeInv, TypeOK, ControlOK, InCall, Phases,
      lists, matrix, counts
<1>25. CASE FastFails
  <2>1. /\ changedNodes' \subseteq ANode /\ changed' \in [ANode -> BOOLEAN]
        /\ dirty' \in BOOLEAN
        /\ logic' \in [BOOLEAN -> SUBSET Elem] /\ staleL' \subseteq Elem
        /\ lists' \in (SUBSET Elem) \X (SUBSET Elem) \X (SUBSET Elem)
        /\ staleV' \subseteq Elem
    BY <1>25, CallbackType, SolutionType DEF FastFails, TypeInv, TypeOK, lists
  <2>2. QED
    BY <1>25, <2>1, BoundAssumption
    DEF FastFails, TypeInv, TypeOK, ControlOK, InCall, Phases,
        lists, counts
<1>26. CASE InitCircuit
  <2>1. /\ changedNodes' \subseteq ANode /\ changed' \in [ANode -> BOOLEAN]
        /\ dirty' \in BOOLEAN
    BY <1>26, RegisteredType DEF InitCircuit
  <2>2. /\ react' \subseteq Elem /\ fast' \subseteq Elem
        /\ nonlin' \subseteq Elem /\ staleV' \subseteq Elem
    BY <1>26, RegisteredType DEF InitCircuit
  <2>3. /\ pc' = "idle" /\ restarts' \in 0..MaxRestarts
        /\ reactCount' = 0 /\ nonLinCount' = 0
        /\ UNCHANGED <<left, todo, ping, logic, loops, caller, ftodo, writes,
                       errors, staleL>>
    BY <1>26, BoundAssumption DEF InitCircuit, MayInit, TypeInv, TypeOK, port
  <2>4. nested' \in BOOLEAN
    BY <1>26 DEF InitCircuit, TypeInv, TypeOK, port
  <2>5. QED
    BY <2>1, <2>2, <2>3, <2>4 DEF TypeInv, TypeOK, ControlOK, InCall, Phases
<1>27. CASE Stop
  <2>1. /\ UNCHANGED <<pc, left, todo, ping, reactCount, nonLinCount, loops, caller,
                       ftodo, writes, nested, errors>>
        /\ restarts' \in 0..MaxRestarts
    BY <1>27, BoundAssumption DEF Stop, TypeInv, TypeOK, flow, counts, port
  <2>2. /\ react' \subseteq Elem /\ fast' \subseteq Elem
        /\ nonlin' \subseteq Elem /\ staleV' \subseteq Elem
        /\ logic' \in [BOOLEAN -> SUBSET Elem] /\ staleL' \subseteq Elem
        /\ changed' \in [ANode -> BOOLEAN] /\ changedNodes' \subseteq ANode
        /\ dirty' \in BOOLEAN
    BY <1>27, RegisteredType, WriteType DEF Stop, TypeInv, TypeOK
  <2>3. nested' \in BOOLEAN
    BY <2>1 DEF TypeInv, TypeOK
  <2>4. QED
    BY <2>1, <2>2, <2>3 DEF TypeInv, TypeOK, ControlOK, InCall, Phases
<1>28. CASE RunStep
  BY <1>28, BoundAssumption
  DEF RunStep, TypeInv, TypeOK, ControlOK, InCall, Phases,
      lists, matrix, counts, port, bounds
<1>29. CASE UNCHANGED vars
  BY <1>29 DEF TypeInv, TypeOK, ControlOK, vars, flow, lists, matrix, counts, port, bounds
<1>30. QED
  BY <1>1, <1>2, <1>3, <1>4, <1>5, <1>6, <1>7, <1>8, <1>9, <1>10, <1>11, <1>12,
     <1>13, <1>14, <1>15, <1>16, <1>17, <1>18, <1>19, <1>20, <1>21, <1>22, <1>23,
     <1>24, <1>25, <1>26, <1>27, <1>28, <1>29
  DEF Next, Step, FastUpdate, Failure, Control

-----------------------------------------------------------------------------
(* The counters and the matrix.                                            *)

\* The counters stay below their periods in every step.
LEMMA CounterStep ==
  TypeInv /\ CountersBelowPeriods /\ [Next]_vars => CountersBelowPeriods'
<1> SUFFICES ASSUME TypeInv, CountersBelowPeriods, [Next]_vars
             PROVE  CountersBelowPeriods'
  OBVIOUS
<1>1. CASE BeginStep
  BY <1>1, BoundAssumption
  DEF BeginStep, Advance, Due, CountersBelowPeriods, TypeInv, TypeOK
<1>2. CASE EndLogic
  BY <1>2, BoundAssumption
  DEF EndLogic, Advance, Due, CountersBelowPeriods, TypeInv, TypeOK
<1>3. CASE InitCircuit \/ InitFails
  BY <1>3, BoundAssumption DEF InitCircuit, InitFails, CountersBelowPeriods
<1>4. CASE UNCHANGED <<reactCount, nonLinCount>>
  BY <1>4 DEF CountersBelowPeriods
<1>5. [Next]_vars => \/ BeginStep \/ EndLogic \/ InitCircuit \/ InitFails
                     \/ UNCHANGED <<reactCount, nonLinCount>>
  BY DEF Next, Step, FastUpdate, Failure, Control, vars, counts, VChanged, EndReact,
     EndFast, Clock, EndClock, Event, EndNonLin, NonLinSolve, Solve, Sync, PortWrite,
     FastSolve, FastVChanged, EndFastVChanged, FastEvent, EndFastEvent,
     VChangedFails, ClockFails, EventFails, SolverFails, SyncFails, FastFails,
     Stop, RunStep
<1>6. QED BY <1>1, <1>2, <1>3, <1>4, <1>5

\* Between two steps of the scheduler the flags of the matrix are clear, the stamps
\* are listed, and what StepEndsSolved and RoundConverges say holds.
MatrixInv ==
  /\ StampedIsListed
  /\ errors = 0 => ~dirty
  /\ StepEndsSolved
  /\ RoundConverges

\* Every step keeps the stamps listed and the convergence of a round.
LEMMA MatrixStep == TypeInv /\ MatrixInv /\ [Next]_vars => MatrixInv'
<1> SUFFICES ASSUME TypeInv, MatrixInv, [Next]_vars PROVE MatrixInv'
  OBVIOUS
<1>1. CASE BeginStep
  BY <1>1, BoundAssumption
  DEF BeginStep, Flip, Due, Advance, lists, matrix, port, bounds, TypeInv,
      TypeOK, MatrixInv, StampedIsListed, StepEndsSolved, RoundConverges
<1>2. ASSUME NEW e \in Elem, VChanged(e) PROVE MatrixInv'
  BY <1>2, BoundAssumption, TopologyAssumption
  DEF VChanged, StampBy, lists, counts, port, bounds, Stamp, TypeInv, TypeOK,
      MatrixInv, StampedIsListed, StepEndsSolved, RoundConverges
<1>3. CASE EndReact
  BY <1>3, BoundAssumption
  DEF EndReact, matrix, counts, port, bounds, TypeInv, TypeOK, MatrixInv,
      StampedIsListed, StepEndsSolved, RoundConverges
<1>4. CASE EndFast
  BY <1>4, BoundAssumption
  DEF EndFast, matrix, counts, port, bounds, TypeInv, TypeOK, MatrixInv,
      StampedIsListed, StepEndsSolved, RoundConverges
<1>5. ASSUME NEW e \in Elem, Clock(e) PROVE MatrixInv'
  BY <1>5, BoundAssumption
  DEF Clock, lists, matrix, counts, bounds, TypeInv, TypeOK, MatrixInv,
      StampedIsListed, StepEndsSolved, RoundConverges
<1>6. CASE EndClock
  BY <1>6, BoundAssumption
  DEF EndClock, lists, matrix, counts, port, bounds, TypeInv, TypeOK,
      MatrixInv, StampedIsListed, StepEndsSolved, RoundConverges
<1>7. ASSUME NEW e \in Elem, Event(e) PROVE MatrixInv'
  BY <1>7, BoundAssumption
  DEF Event, StampBy, lists, matrix, counts, port, bounds, Stamp, TypeInv,
      TypeOK, MatrixInv, StampedIsListed, StepEndsSolved, RoundConverges
<1>8. CASE EndLogic
  BY <1>8, BoundAssumption
  DEF EndLogic, Due, Advance, ClearDelivered, lists, matrix, port, bounds,
      TypeInv, TypeOK, MatrixInv, StampedIsListed, StepEndsSolved,
      RoundConverges
<1>9. CASE EndNonLin
  BY <1>9, BoundAssumption
  DEF EndNonLin, matrix, counts, port, bounds, TypeInv, TypeOK, MatrixInv,
      StampedIsListed, StepEndsSolved, RoundConverges
<1>10. CASE NonLinSolve
  <2>1. changedNodes' = {} /\ (\A n \in ANode : ~changed'[n]) /\ (dirty' => dirty)
    BY <1>10 DEF NonLinSolve, MaySolve, SolveOK, matrix, MatrixInv, StampedIsListed
  <2>2. /\ pc' \in {"solve", "nonlin"} /\ errors' = errors
        /\ pc' = "solve" => loops' > MaxLoops \/ nonlin' = {}
    BY <1>10 DEF NonLinSolve, Exhausted, bounds
  <2>3. QED
    BY <2>1, <2>2, BoundAssumption
    DEF MatrixInv, StampedIsListed, StepEndsSolved, RoundConverges
<1>11. CASE Solve
  BY <1>11, BoundAssumption
  DEF Solve, MaySolve, counts, port, bounds, SolveOK, lists, matrix, Rebuilt,
      TypeInv, TypeOK, MatrixInv, StampedIsListed, StepEndsSolved,
      RoundConverges
<1>12. CASE Sync
  BY <1>12, BoundAssumption
  DEF Sync, lists, matrix, counts, port, bounds, TypeInv, TypeOK, MatrixInv,
      StampedIsListed, StepEndsSolved, RoundConverges
<1>13. ASSUME NEW e \in Elem, NEW p \in ANode \cup DNode, PortWrite(e, p)
       PROVE  MatrixInv'
  BY <1>13, BoundAssumption
  DEF PortWrite, lists, matrix, counts, bounds, TypeInv, TypeOK, MatrixInv,
      StampedIsListed, StepEndsSolved, RoundConverges
<1>14. CASE FastSolve
  BY <1>14, BoundAssumption
  DEF FastSolve, MaySolve, counts, bounds, SolveOK, lists, matrix, Rebuilt,
      TypeInv, TypeOK, MatrixInv, StampedIsListed, StepEndsSolved,
      RoundConverges
<1>15. ASSUME NEW e \in Elem, FastVChanged(e) PROVE MatrixInv'
  BY <1>15, BoundAssumption
  DEF FastVChanged, StampBy, flow, lists, counts, bounds, Stamp, TypeInv,
      TypeOK, MatrixInv, StampedIsListed, StepEndsSolved, RoundConverges
<1>16. CASE EndFastVChanged
  BY <1>16, BoundAssumption
  DEF EndFastVChanged, matrix, counts, port, bounds, TypeInv, TypeOK,
      MatrixInv, StampedIsListed, StepEndsSolved, RoundConverges
<1>17. ASSUME NEW e \in Elem, FastEvent(e) PROVE MatrixInv'
  BY <1>17, BoundAssumption
  DEF FastEvent, StampBy, lists, matrix, counts, bounds, Stamp, TypeInv,
      TypeOK, MatrixInv, StampedIsListed, StepEndsSolved, RoundConverges
<1>18. CASE EndFastEvent
  BY <1>18, BoundAssumption
  DEF EndFastEvent, lists, matrix, counts, port, bounds, TypeInv, TypeOK,
      MatrixInv, StampedIsListed, StepEndsSolved, RoundConverges
<1>19. ASSUME NEW e \in Elem, VChangedFails(e) PROVE MatrixInv'
  BY <1>19, BoundAssumption
  DEF VChangedFails, Abort, StampBy, lists, counts, Stamp, TypeInv, TypeOK,
      MatrixInv, StampedIsListed, StepEndsSolved, RoundConverges
<1>20. ASSUME NEW e \in Elem, ClockFails(e) PROVE MatrixInv'
  BY <1>20, BoundAssumption
  DEF ClockFails, Abort, lists, matrix, counts, TypeInv, TypeOK, MatrixInv,
      StampedIsListed, StepEndsSolved, RoundConverges
<1>21. ASSUME NEW e \in Elem, EventFails(e) PROVE MatrixInv'
  BY <1>21, BoundAssumption
  DEF EventFails, Abort, StampBy, lists, counts, Stamp, TypeInv, TypeOK,
      MatrixInv, StampedIsListed, StepEndsSolved, RoundConverges
<1>22. CASE InitFails
  <2>1. StampedIsListed'
    BY <1>22 DEF InitFails, StampedIsListed
  <2>2. errors' # 0 /\ pc' = "created"
    BY <1>22 DEF InitFails, TypeInv, TypeOK
  <2>3. QED BY <2>1, <2>2 DEF MatrixInv, StepEndsSolved, RoundConverges
<1>23. CASE SolverFails
  <2>1. StampedIsListed'
    BY <1>23 DEF SolverFails, SolveFails, MatrixInv, StampedIsListed
  <2>2. errors' # 0 /\ pc' = "idle"
    BY <1>23 DEF SolverFails, Abort, TypeInv, TypeOK
  <2>3. QED BY <2>1, <2>2 DEF MatrixInv, StepEndsSolved, RoundConverges
<1>24. CASE SyncFails
  BY <1>24, BoundAssumption
  DEF SyncFails, Abort, lists, matrix, counts, TypeInv, TypeOK, MatrixInv,
      StampedIsListed, StepEndsSolved, RoundConverges
<1>25. CASE FastFails
  <2>1. ASSUME SolveFails PROVE StampedIsListed'
    BY <2>1 DEF SolveFails, MatrixInv, StampedIsListed
  <2>2. ASSUME NEW e \in ftodo, StampBy(e) PROVE StampedIsListed'
    BY <2>2 DEF StampBy, Stamp, MatrixInv, StampedIsListed
  <2>3. errors' # 0 /\ pc' = "clock"
    BY <1>25 DEF FastFails, TypeInv, TypeOK
  <2>4. QED
    BY <1>25, <2>1, <2>2, <2>3
    DEF FastFails, MatrixInv, StepEndsSolved, RoundConverges
<1>26. CASE InitCircuit
  BY <1>26, BoundAssumption
  DEF InitCircuit, MayInit, port, TypeInv, TypeOK, MatrixInv, StampedIsListed,
      StepEndsSolved, RoundConverges
<1>27. CASE Stop
  BY <1>27, BoundAssumption
  DEF Stop, Stamp, flow, counts, port, TypeInv, TypeOK, MatrixInv,
      StampedIsListed, StepEndsSolved, RoundConverges
<1>28. CASE RunStep
  BY <1>28, BoundAssumption
  DEF RunStep, lists, matrix, counts, port, bounds, TypeInv, TypeOK,
      MatrixInv, StampedIsListed, StepEndsSolved, RoundConverges
<1>29. CASE UNCHANGED vars
  BY <1>29 DEF vars, flow, lists, matrix, counts, port, bounds, TypeInv,
      TypeOK, MatrixInv, StampedIsListed, StepEndsSolved, RoundConverges
<1>30. QED
  BY <1>1, <1>2, <1>3, <1>4, <1>5, <1>6, <1>7, <1>8, <1>9, <1>10, <1>11,
     <1>12, <1>13, <1>14, <1>15, <1>16, <1>17, <1>18, <1>19, <1>20, <1>21,
     <1>22, <1>23, <1>24, <1>25, <1>26, <1>27, <1>28, <1>29
  DEF Next, Step, FastUpdate, Failure, Control

-----------------------------------------------------------------------------
(* The lists of changed elements.                                          *)

\* What an iteration has still to visit is in the list it iterates, so that an
\* error which stops it leaves the rest listed.
VoltageInv ==
  /\ pc = "react"  => todo \subseteq react
  /\ pc = "fast"   => todo \subseteq fast
  /\ pc = "nonlin" => todo \subseteq nonlin
  /\ pc = "fuFast" => ftodo \subseteq fast
  /\ NoLostVoltage

\* Every step keeps the elements with a changed voltage in a list.
LEMMA VoltageStep == TypeInv /\ VoltageInv /\ [Next]_vars => VoltageInv'
<1> SUFFICES ASSUME TypeInv, VoltageInv, [Next]_vars PROVE VoltageInv'
  OBVIOUS
<1>1. CASE BeginStep
  BY <1>1
  DEF BeginStep, lists, matrix, port, bounds, VoltageInv, NoLostVoltage,
      Analog, DueFast, LeftOf
<1>2. ASSUME NEW e \in Elem, VChanged(e) PROVE VoltageInv'
  BY <1>2
  DEF VChanged, lists, counts, port, bounds, VoltageInv, NoLostVoltage,
      Analog, DueFast, LeftOf
<1>3. CASE EndReact
  BY <1>3
  DEF EndReact, matrix, counts, port, bounds, VoltageInv, NoLostVoltage,
      Analog, DueFast, LeftOf
<1>4. CASE EndFast
  BY <1>4
  DEF EndFast, matrix, counts, port, bounds, VoltageInv, NoLostVoltage,
      Analog, DueFast, LeftOf
<1>5. ASSUME NEW e \in Elem, Clock(e) PROVE VoltageInv'
  BY <1>5
  DEF Clock, lists, matrix, counts, bounds, VoltageInv, NoLostVoltage, Analog,
      DueFast, LeftOf
<1>6. CASE EndClock
  BY <1>6
  DEF EndClock, lists, matrix, counts, port, bounds, VoltageInv,
      NoLostVoltage, Analog, DueFast, LeftOf
<1>7. ASSUME NEW e \in Elem, Event(e) PROVE VoltageInv'
  BY <1>7
  DEF Event, lists, matrix, counts, port, bounds, VoltageInv, NoLostVoltage,
      Analog, DueFast, LeftOf
<1>8. CASE EndLogic
  BY <1>8
  DEF EndLogic, lists, matrix, port, bounds, VoltageInv, NoLostVoltage,
      Analog, DueFast, LeftOf
<1>9. CASE EndNonLin
  BY <1>9
  DEF EndNonLin, matrix, counts, port, bounds, VoltageInv, NoLostVoltage,
      Analog, DueFast, LeftOf
<1>10. CASE NonLinSolve
  BY <1>10
  DEF NonLinSolve, MaySolve, port, bounds, SolveOK, lists, matrix, Notify,
      VoltageInv, NoLostVoltage, Analog, DueFast, LeftOf
<1>11. CASE Solve
  BY <1>11
  DEF Solve, MaySolve, counts, port, bounds, SolveOK, lists, matrix, Notify,
      VoltageInv, NoLostVoltage, Analog, DueFast, LeftOf
<1>12. CASE Sync
  BY <1>12
  DEF Sync, lists, matrix, counts, port, bounds, VoltageInv, NoLostVoltage,
      Analog, DueFast, LeftOf
<1>13. ASSUME NEW e \in Elem, NEW p \in ANode \cup DNode, PortWrite(e, p)
       PROVE  VoltageInv'
  BY <1>13
  DEF PortWrite, lists, matrix, counts, bounds, VoltageInv, NoLostVoltage,
      Analog, DueFast, LeftOf
<1>14. CASE FastSolve
  BY <1>14
  DEF FastSolve, MaySolve, counts, bounds, SolveOK, lists, matrix, Notify,
      VoltageInv, NoLostVoltage, Analog, DueFast, LeftOf
<1>15. ASSUME NEW e \in Elem, FastVChanged(e) PROVE VoltageInv'
  BY <1>15
  DEF FastVChanged, flow, lists, counts, bounds, VoltageInv, NoLostVoltage,
      Analog, DueFast, LeftOf
<1>16. CASE EndFastVChanged
  BY <1>16
  DEF EndFastVChanged, matrix, counts, port, bounds, VoltageInv,
      NoLostVoltage, Analog, DueFast, LeftOf
<1>17. ASSUME NEW e \in Elem, FastEvent(e) PROVE VoltageInv'
  BY <1>17
  DEF FastEvent, lists, matrix, counts, bounds, VoltageInv, NoLostVoltage,
      Analog, DueFast, LeftOf
<1>18. CASE EndFastEvent
  BY <1>18
  DEF EndFastEvent, lists, matrix, counts, port, bounds, VoltageInv,
      NoLostVoltage, Analog, DueFast, LeftOf
<1>19. ASSUME NEW e \in Elem, VChangedFails(e) PROVE VoltageInv'
  BY <1>19
  DEF VChangedFails, Abort, lists, counts, VoltageInv, NoLostVoltage, Analog,
      DueFast, LeftOf
<1>20. ASSUME NEW e \in Elem, ClockFails(e) PROVE VoltageInv'
  BY <1>20
  DEF ClockFails, Abort, lists, matrix, counts, VoltageInv, NoLostVoltage,
      Analog, DueFast, LeftOf
<1>21. ASSUME NEW e \in Elem, EventFails(e) PROVE VoltageInv'
  BY <1>21
  DEF EventFails, Abort, lists, counts, VoltageInv, NoLostVoltage, Analog,
      DueFast, LeftOf
<1>22. CASE InitFails
  BY <1>22
  DEF InitFails, port, VoltageInv, NoLostVoltage, Analog, DueFast, LeftOf
<1>23. CASE SolverFails
  BY <1>23
  DEF SolverFails, Abort, SolveFails, counts, Notify, lists, VoltageInv,
      NoLostVoltage, Analog, DueFast, LeftOf
<1>24. CASE SyncFails
  BY <1>24
  DEF SyncFails, Abort, lists, matrix, counts, VoltageInv, NoLostVoltage,
      Analog, DueFast, LeftOf
<1>25. CASE FastFails
  BY <1>25
  DEF FastFails, SolveFails, lists, counts, Notify, VoltageInv, NoLostVoltage,
      Analog, DueFast, LeftOf
<1>26. CASE InitCircuit
  BY <1>26
  DEF InitCircuit, port, VoltageInv, NoLostVoltage, Analog, DueFast, LeftOf
<1>27. CASE Stop
  BY <1>27
  DEF Stop, Notify, flow, counts, port, VoltageInv, NoLostVoltage, Analog,
      DueFast, LeftOf
<1>28. CASE RunStep
  BY <1>28
  DEF RunStep, lists, matrix, counts, port, bounds, VoltageInv, NoLostVoltage,
      Analog, DueFast, LeftOf
<1>29. CASE UNCHANGED vars
  BY <1>29 DEF vars, flow, lists, matrix, counts, port, bounds, VoltageInv,
      NoLostVoltage, Analog, DueFast, LeftOf
<1>30. QED
  BY <1>1, <1>2, <1>3, <1>4, <1>5, <1>6, <1>7, <1>8, <1>9, <1>10, <1>11,
     <1>12, <1>13, <1>14, <1>15, <1>16, <1>17, <1>18, <1>19, <1>20, <1>21,
     <1>22, <1>23, <1>24, <1>25, <1>26, <1>27, <1>28, <1>29
  DEF Next, Step, FastUpdate, Failure, Control

\* What driving nodes does to the two logic lists.
LEMMA DriveEffect ==
  ASSUME TypeOK, NEW D \in SUBSET DNode, NEW H, Drive(D, H)
  PROVE  /\ logic'[~ping] = logic[~ping]
         /\ logic'[ping] = logic[ping] \cup Registered(LogicList, D)
         /\ staleL' = (staleL \ H) \cup Registered(LogicList, D)
BY DEF TypeOK, Drive, Enqueue

\* An event or vchanged callback raises events in the list being filled.
LEMMA CallbackDrives ==
  ASSUME TypeOK, NEW e \in Elem, NEW H, DriveBy(e, H)
  PROVE  /\ logic'[~ping] = logic[~ping]
         /\ logic[ping] \subseteq logic'[ping]
         /\ staleL' \subseteq (staleL \ H) \cup logic'[ping]
<1>1. PICK D \in SUBSET Outputs(e) : Drive(D, H)
  BY DEF DriveBy
<1>2. D \in SUBSET DNode
  BY <1>1, TopologyAssumption DEF Outputs
<1>3. QED BY <1>1, <1>2, DriveEffect

\* A clock raises events in the list being filled.
LEMMA ClockEffect ==
  ASSUME TypeOK, NEW e \in Elem, ClockDrives(e)
  PROVE  /\ logic'[~ping] = logic[~ping]
         /\ logic[ping] \subseteq logic'[ping]
         /\ staleL' \subseteq staleL \cup logic'[ping]
<1>1. PICK D \in SUBSET (Drives[e] \ PortPins[e]) : Drive(D, {})
  BY DEF ClockDrives
<1>2. D \in SUBSET DNode
  BY <1>1, TopologyAssumption
<1>3. QED BY <1>1, <1>2, DriveEffect

\* The lists of events: what an iteration has still to deliver is listed, a fast
\* update whose events raise none loses none, and the list to deliver is empty from
\* the delivery to the next step.
EventInv ==
  /\ pc = "logic" => todo \subseteq logic[~ping]
  /\ pc = "fuLogic" => /\ ftodo \subseteq logic[ping]
                       /\ ~nested => staleL \subseteq logic[~ping] \cup ftodo
  /\ errors = 0 /\ pc \in {"created", "idle", "pick", "nonlin", "nlSolve", "solve", "sync"}
       => logic[~ping] = {}
  /\ NoLostEventButFast

\* Every step keeps the elements with an event in one of the two logic lists.
LEMMA EventStep == TypeInv /\ EventInv /\ [Next]_vars => EventInv'
<1> SUFFICES ASSUME TypeInv, EventInv, [Next]_vars PROVE EventInv'
  OBVIOUS
<1>1. CASE BeginStep
  BY <1>1
  DEF BeginStep, Flip, lists, matrix, port, bounds, TypeInv, TypeOK, EventInv,
      NoLostEventButFast, Delivered, LeftOf
<1>2. ASSUME NEW e \in Elem, VChanged(e) PROVE EventInv'
  BY <1>2, CallbackDrives
  DEF VChanged, lists, counts, port, bounds, TypeInv, TypeOK, EventInv,
      NoLostEventButFast, Delivered, LeftOf
<1>3. CASE EndReact
  BY <1>3
  DEF EndReact, matrix, counts, port, bounds, TypeInv, TypeOK, EventInv,
      NoLostEventButFast, Delivered, LeftOf
<1>4. CASE EndFast
  BY <1>4
  DEF EndFast, matrix, counts, port, bounds, TypeInv, TypeOK, EventInv,
      NoLostEventButFast, Delivered, LeftOf
<1>5. ASSUME NEW e \in Elem, Clock(e) PROVE EventInv'
  BY <1>5, ClockEffect
  DEF Clock, lists, matrix, counts, bounds, TypeInv, TypeOK, EventInv,
      NoLostEventButFast, Delivered, LeftOf
<1>6. CASE EndClock
  BY <1>6
  DEF EndClock, lists, matrix, counts, port, bounds, TypeInv, TypeOK,
      EventInv, NoLostEventButFast, Delivered, LeftOf
<1>7. ASSUME NEW e \in Elem, Event(e) PROVE EventInv'
  <2>1. CASE e \in HasEvent
    <3>1. /\ logic'[~ping] = logic[~ping]
          /\ logic[ping] \subseteq logic'[ping]
          /\ staleL' \subseteq (staleL \ {e}) \cup logic'[ping]
      BY <1>7, <2>1, CallbackDrives DEF Event, TypeInv
    <3>2. /\ pc = "logic" /\ pc' = "logic" /\ todo' = todo \ {e}
          /\ ping' = ping /\ nested' = nested
      BY <1>7, <2>1 DEF Event, port
    <3>3. QED BY <3>1, <3>2 DEF EventInv, NoLostEventButFast, Delivered, LeftOf
  <2>2. CASE e \notin HasEvent
    BY <1>7, <2>2 DEF Event, port, EventInv, NoLostEventButFast, Delivered, LeftOf
  <2>3. QED BY <2>1, <2>2
<1>8. CASE EndLogic
  BY <1>8
  DEF EndLogic, ClearDelivered, lists, matrix, port, bounds, TypeInv, TypeOK,
      EventInv, NoLostEventButFast, Delivered, LeftOf
<1>9. CASE EndNonLin
  BY <1>9
  DEF EndNonLin, matrix, counts, port, bounds, TypeInv, TypeOK, EventInv,
      NoLostEventButFast, Delivered, LeftOf
<1>10. CASE NonLinSolve
  BY <1>10
  DEF NonLinSolve, port, bounds, TypeInv, TypeOK, EventInv,
      NoLostEventButFast, Delivered, LeftOf
<1>11. CASE Solve
  BY <1>11
  DEF Solve, counts, port, bounds, TypeInv, TypeOK, EventInv,
      NoLostEventButFast, Delivered, LeftOf
<1>12. CASE Sync
  BY <1>12
  DEF Sync, lists, matrix, counts, port, bounds, TypeInv, TypeOK, EventInv,
      NoLostEventButFast, Delivered, LeftOf
<1>13. ASSUME NEW e \in Elem, NEW p \in ANode \cup DNode, PortWrite(e, p)
       PROVE  EventInv'
  <2>1. pc = "clock" /\ ping' = ping /\ todo' = todo /\ nested' = nested
    BY <1>13 DEF PortWrite
  <2>2. CASE p \in DNode
    <3>1. /\ logic' = Enqueue({p})
          /\ staleL' = staleL \cup LogicList[p]
          /\ \/ pc' = "fuLogic" /\ ftodo' = logic'[ping]
             \/ pc' = "clock"
      BY <1>13, <2>2 DEF PortWrite
    <3>2. LogicList[p] = Registered(LogicList, {p})
      BY DEF Registered
    <3>3. Drive({p}, {})
      BY <3>1, <3>2 DEF Drive
    <3>4. /\ logic'[~ping] = logic[~ping] /\ logic[ping] \subseteq logic'[ping]
          /\ staleL' \subseteq staleL \cup logic'[ping]
      BY <2>2, <3>3, DriveEffect DEF TypeInv
    <3>5. QED BY <2>1, <3>1, <3>4 DEF EventInv, NoLostEventButFast, Delivered, LeftOf
  <2>3. CASE p \notin DNode
    BY <1>13, <2>1, <2>3 DEF PortWrite, EventInv, NoLostEventButFast, Delivered, LeftOf
  <2>4. QED BY <2>2, <2>3
<1>14. CASE FastSolve
  BY <1>14
  DEF FastSolve, counts, bounds, TypeInv, TypeOK, EventInv,
      NoLostEventButFast, Delivered, LeftOf
<1>15. ASSUME NEW e \in Elem, FastVChanged(e) PROVE EventInv'
  BY <1>15, CallbackDrives
  DEF FastVChanged, flow, lists, counts, bounds, TypeInv, TypeOK, EventInv,
      NoLostEventButFast, Delivered, LeftOf
<1>16. CASE EndFastVChanged
  BY <1>16
  DEF EndFastVChanged, matrix, counts, port, bounds, TypeInv, TypeOK,
      EventInv, NoLostEventButFast, Delivered, LeftOf
<1>17. ASSUME NEW e \in Elem, FastEvent(e) PROVE EventInv'
  <2>1. CASE e \notin HasEvent
    BY <1>17, <2>1
    DEF FastEvent, lists, matrix, counts, bounds, TypeInv, TypeOK, EventInv,
        NoLostEventButFast, Delivered, LeftOf
  <2>2. CASE e \in HasEvent
    <3>1. /\ pc = "fuLogic" /\ pc' = "fuLogic" /\ ping' = ping /\ errors' = errors
          /\ DriveBy(e, {e})
      BY <1>17, <2>2 DEF FastEvent, bounds
    <3>2. /\ logic'[~ping] = logic[~ping] /\ logic[ping] \subseteq logic'[ping]
      BY <3>1, CallbackDrives DEF TypeInv
    <3>3. ftodo' \subseteq logic'[ping]
      BY <1>17, <2>2, <3>1, <3>2 DEF FastEvent, EventInv
    <3>4. ~nested' => staleL' \subseteq logic'[~ping] \cup ftodo'
      BY <1>17, <2>2, <3>1, <3>2 DEF FastEvent, EventInv
    <3>5. QED BY <3>1, <3>2, <3>3, <3>4 DEF EventInv, NoLostEventButFast
  <2>3. QED BY <2>1, <2>2
<1>18. CASE EndFastEvent
  BY <1>18
  DEF EndFastEvent, lists, matrix, counts, port, bounds, TypeInv, TypeOK,
      EventInv, NoLostEventButFast, Delivered, LeftOf
<1>19. ASSUME NEW e \in Elem, VChangedFails(e) PROVE EventInv'
  BY <1>19, CallbackDrives
  DEF VChangedFails, Abort, lists, counts, TypeInv, TypeOK, EventInv,
      NoLostEventButFast, Delivered, LeftOf
<1>20. ASSUME NEW e \in Elem, ClockFails(e) PROVE EventInv'
  BY <1>20, ClockEffect
  DEF ClockFails, Abort, lists, matrix, counts, TypeInv, TypeOK, EventInv,
      NoLostEventButFast, Delivered, LeftOf
<1>21. ASSUME NEW e \in Elem, EventFails(e) PROVE EventInv'
  BY <1>21, CallbackDrives
  DEF EventFails, Abort, lists, counts, TypeInv, TypeOK, EventInv,
      NoLostEventButFast, Delivered, LeftOf
<1>22. CASE InitFails
  BY <1>22
  DEF InitFails, MayInit, port, TypeInv, TypeOK, EventInv, NoLostEventButFast,
      Delivered, LeftOf
<1>23. CASE SolverFails
  BY <1>23
  DEF SolverFails, Abort, counts, TypeInv, TypeOK, EventInv,
      NoLostEventButFast, Delivered, LeftOf
<1>24. CASE SyncFails
  BY <1>24
  DEF SyncFails, Abort, lists, matrix, counts, TypeInv, TypeOK, EventInv,
      NoLostEventButFast, Delivered, LeftOf
<1>25. CASE FastFails
  BY <1>25, CallbackDrives
  DEF FastFails, lists, counts, TypeInv, TypeOK, EventInv, NoLostEventButFast,
      Delivered, LeftOf
<1>26. CASE InitCircuit
  BY <1>26
  DEF InitCircuit, MayInit, port, TypeInv, TypeOK, EventInv,
      NoLostEventButFast, Delivered, LeftOf
<1>27. CASE Stop
  <2>1. /\ logic'[~ping] = logic[~ping] /\ logic[ping] \subseteq logic'[ping]
        /\ staleL' \subseteq staleL \cup logic'[ping]
    BY <1>27, DriveEffect DEF Stop, TypeInv
  <2>2. QED
    BY <1>27, <2>1
    DEF Stop, flow, port, EventInv, NoLostEventButFast, Delivered, LeftOf
<1>28. CASE RunStep
  BY <1>28
  DEF RunStep, lists, matrix, counts, port, bounds, TypeInv, TypeOK, EventInv,
      NoLostEventButFast, Delivered, LeftOf
<1>29. CASE UNCHANGED vars
  BY <1>29 DEF vars, flow, lists, matrix, counts, port, bounds, TypeInv,
      TypeOK, EventInv, NoLostEventButFast, Delivered, LeftOf
<1>30. QED
  BY <1>1, <1>2, <1>3, <1>4, <1>5, <1>6, <1>7, <1>8, <1>9, <1>10, <1>11,
     <1>12, <1>13, <1>14, <1>15, <1>16, <1>17, <1>18, <1>19, <1>20, <1>21,
     <1>22, <1>23, <1>24, <1>25, <1>26, <1>27, <1>28, <1>29
  DEF Next, Step, FastUpdate, Failure, Control

-----------------------------------------------------------------------------
(* The theorems of the specification.                                      *)

\* The conjunction that is inductive.
IInv == TypeInv /\ CountersBelowPeriods /\ MatrixInv /\ VoltageInv /\ EventInv

\* A circuit that was created and not initialised satisfies the invariant.
LEMMA InitIInv == Init => IInv
<1> SUFFICES ASSUME Init PROVE IInv
  OBVIOUS
<1>1. TypeInv
  <2>1. /\ ping \in BOOLEAN /\ logic \in [BOOLEAN -> SUBSET Elem]
        /\ changed \in [ANode -> BOOLEAN] /\ dirty \in BOOLEAN
    BY DEF Init
  <2>2. /\ pc \in Phases /\ left \in 0..StepRate /\ loops \in 0..(MaxLoops + 1)
        /\ reactCount \in Nat /\ nonLinCount \in Nat /\ writes \in 0..MaxPortWrites
        /\ errors \in 0..MaxErrors /\ restarts \in 0..MaxRestarts
    BY BoundAssumption DEF Init, Phases
  <2>3. /\ todo \subseteq Elem /\ ftodo \subseteq Elem /\ caller \in Elem \cup {NoElem}
        /\ react \subseteq Elem /\ fast \subseteq Elem /\ nonlin \subseteq Elem
        /\ changedNodes \subseteq ANode /\ staleV \subseteq Elem /\ staleL \subseteq Elem
        /\ nested \in BOOLEAN
    BY DEF Init
  <2>4. ControlOK
    BY DEF Init, ControlOK, InCall
  <2>5. QED BY <2>1, <2>2, <2>3, <2>4 DEF TypeInv, TypeOK
<1>2. CountersBelowPeriods
  BY BoundAssumption DEF Init, CountersBelowPeriods
<1>3. MatrixInv
  BY DEF Init, MatrixInv, StampedIsListed, StepEndsSolved, RoundConverges
<1>4. VoltageInv
  BY DEF Init, VoltageInv, NoLostVoltage
<1>5. EventInv
  BY DEF Init, EventInv, NoLostEventButFast
<1>6. QED BY <1>1, <1>2, <1>3, <1>4, <1>5 DEF IInv

\* Every step keeps the invariant.
LEMMA IInvStep == IInv /\ [Next]_vars => IInv'
BY TypeStep, CounterStep, MatrixStep, VoltageStep, EventStep DEF IInv

\* The invariant holds in every reachable state of every circuit.
THEOREM Inductive == Spec => []IInv
BY InitIInv, IInvStep, PTL DEF Spec

\* Every variable of circuit_t keeps its type: the lists name elements and nodes of
\* the circuit, the loop counter of the non-linear iteration stays bounded.
THEOREM TypeCorrect == Spec => []TypeOK
<1>1. IInv => TypeOK
  BY DEF IInv, TypeInv
<1>2. QED BY <1>1, Inductive, PTL

\* No change of a voltage is forgotten, whatever fails: circuit.c:184-196, 224-240.
THEOREM VoltagesKept == Spec => []NoLostVoltage
<1>1. IInv => NoLostVoltage
  BY DEF IInv, VoltageInv
<1>2. QED BY <1>1, Inductive, PTL

\* No event is forgotten but a downstream one in a fast update: circuit.c:209-280.
THEOREM EventsKept == Spec => []NoLostEventButFast
<1>1. IInv => NoLostEventButFast
  BY DEF IInv, EventInv
<1>2. QED BY <1>1, Inductive, PTL

\* The changed flag of a node never keeps a stamp out of changed_node_list:
\* circ-node.c:89-119.
THEOREM StampsListed == Spec => []StampedIsListed
<1>1. IInv => StampedIsListed
  BY DEF IInv, MatrixInv
<1>2. QED BY <1>1, Inductive, PTL

\* A step ends with its stamps solved: circuit.c:241-243.
THEOREM StampsSolved == Spec => []StepEndsSolved
<1>1. IInv => StepEndsSolved
  BY DEF IInv, MatrixInv
<1>2. QED BY <1>1, Inductive, PTL

\* A non-linear round ends converged or exhausted: circuit.c:224-237.
THEOREM RoundsConverge == Spec => []RoundConverges
<1>1. IInv => RoundConverges
  BY DEF IInv, MatrixInv
<1>2. QED BY <1>1, Inductive, PTL

\* The list to deliver is empty at every boundary of a step: circuit.c:168-177.
THEOREM ListsDrained == Spec => []DrainedAtBoundary
<1>1. IInv => DrainedAtBoundary
  BY DEF IInv, EventInv, DrainedAtBoundary
<1>2. QED BY <1>1, Inductive, PTL

\* The counters meet the equality that starts a round: circuit.c:180, 217.
THEOREM CountersBounded == Spec => []CountersBelowPeriods
<1>1. IInv => CountersBelowPeriods
  BY DEF IInv
<1>2. QED BY <1>1, Inductive, PTL

-----------------------------------------------------------------------------
(* Without a fast update of a digital pin, the ping-pong lists implement the *)
(* delta cycles of EventDelta.tla.                                         *)

\* No port pin is on a digital node with readers.
NoPortReaders == \A e \in Elem : \A p \in PortPins[e] \cap DNode : LogicList[p] = {}

NoFastEvent == pc # "fuLogic"

\* A port whose pins have no readers never makes circuit_fast_update deliver events.
LEMMA NoFastEventStep ==
  ASSUME NoPortReaders, NoFastEvent, [Next]_vars PROVE NoFastEvent'
<1>1. ASSUME NEW e \in Elem, NEW p \in ANode \cup DNode, PortWrite(e, p)
      PROVE  NoFastEvent'
  BY <1>1 DEF PortWrite, NoPortReaders, NoFastEvent
<1>2. CASE \E e \in Elem, p \in ANode \cup DNode : PortWrite(e, p)
  BY <1>1, <1>2
<1>3. CASE ~\E e \in Elem, p \in ANode \cup DNode : PortWrite(e, p)
  BY <1>3 DEF NoFastEvent, Next, Step, FastUpdate, Failure, Control, vars, flow,
     BeginStep, VChanged, EndReact, EndFast, Clock, EndClock, Event, EndLogic,
     EndNonLin, NonLinSolve, Solve, Sync, FastSolve, FastVChanged, EndFastVChanged,
     FastEvent, EndFastEvent, VChangedFails, ClockFails, EventFails, InitFails,
     SolverFails, SyncFails, FastFails, Abort, InitCircuit, Stop, RunStep
<1>4. QED BY <1>2, <1>3

\* Driving nodes outside a delivery raises events, or changes nothing.
LEMMA DriveRaises ==
  ASSUME TypeOK, NEW D \in SUBSET DNode, NEW H, Drive(D, H),
         UNCHANGED <<ping, errors>>,
         pc \notin {"logic", "crashed"}, pc' \notin {"logic", "crashed"}
  PROVE  \/ \E S \in SUBSET Elem : Delta!Raise(S)
         \/ UNCHANGED Delta!vars
<1>1. DEFINE R == Registered(LogicList, D)
<1>2. R \in SUBSET Elem
  BY RegisteredType
<1>3. /\ Delivered' = Delivered /\ (logic[ping])' = logic[ping] \cup R
      /\ Failures' = Failures
  BY DriveEffect DEF Delivered, LeftOf, Failures
<1>4. CASE R = {}
  BY <1>3, <1>4 DEF Delta!vars
<1>5. CASE R # {}
  BY <1>2, <1>3, <1>5 DEF Delta!Raise
<1>6. QED BY <1>4, <1>5

\* A callback that fails outside a delivery has at most raised events.
LEMMA DriveAborts ==
  ASSUME TypeOK, NEW D \in SUBSET DNode, NEW H, Drive(D, H),
         UNCHANGED ping, errors' = errors + 1,
         pc \notin {"logic", "crashed"}, pc' \notin {"logic", "crashed"}
  PROVE  \E A, S \in SUBSET Elem : Delta!Abort(A, S)
<1>1. DEFINE R == Registered(LogicList, D)
<1>2. R \in SUBSET Elem
  BY RegisteredType
<1>3. /\ Delivered' = Delivered /\ (logic[ping])' = logic[ping] \cup R
      /\ Failures' = Failures + 1
  BY DriveEffect DEF Delivered, LeftOf, Failures
<1>4. Delta!Abort({}, R)
  BY <1>3 DEF Delta!Abort
<1>5. QED BY <1>2, <1>4

\* A step that touches neither list outside a delivery is no step of EventDelta.
LEMMA Idle ==
  ASSUME UNCHANGED <<ping, logic, errors>>,
         pc \notin {"logic", "crashed"}, pc' \notin {"logic", "crashed"}
  PROVE  UNCHANGED Delta!vars
BY DEF Delta!vars, Delivered, LeftOf, Failures

\* A failure that touches neither list outside a delivery is only counted.
LEMMA IdleAborts ==
  ASSUME UNCHANGED <<ping, logic>>, errors' = errors + 1,
         pc \notin {"logic", "crashed"}, pc' \notin {"logic", "crashed"}
  PROVE  \E A, S \in SUBSET Elem : Delta!Abort(A, S)
<1>1. Delta!Abort({}, {})
  BY DEF Delta!Abort, Delivered, LeftOf, Failures
<1>2. QED BY <1>1

\* Every step of the scheduler is a step of EventDelta or changes nothing it sees.
LEMMA DeltaStep ==
  ASSUME NoPortReaders, NoFastEvent, IInv, [Next]_vars
  PROVE  [Delta!Next]_(Delta!vars)
<1> USE DEF IInv, TypeInv
<1>1. CASE BeginStep
  <2>1. Delivered = {} \/ Failures > 0
    BY <1>1 DEF BeginStep, EventInv, Delivered, LeftOf, Failures, TypeOK, BoundAssumption
  <2>2. Delta!Begin
    <3>1. /\ ping' = ~ping /\ UNCHANGED <<logic, errors>>
          /\ pc \notin {"logic", "crashed"} /\ pc' \notin {"logic", "crashed"}
      BY <1>1 DEF BeginStep, Flip, bounds
    <3>2. QED
      BY <2>1, <3>1 DEF Delta!Begin, Delivered, LeftOf, Failures, TypeOK
  <2>3. QED BY <2>2 DEF Delta!Next
<1>2. ASSUME NEW e \in Elem, VChanged(e) PROVE [Delta!Next]_(Delta!vars)
  <2>1. PICK D \in SUBSET Outputs(e) : Drive(D, {})
    BY <1>2 DEF VChanged, DriveBy
  <2>2. D \in SUBSET DNode
    BY <2>1, TopologyAssumption DEF Outputs
  <2>3. /\ UNCHANGED <<ping, errors>>
        /\ pc \notin {"logic", "crashed"} /\ pc' \notin {"logic", "crashed"}
    BY <1>2 DEF VChanged, bounds
  <2>4. QED BY <2>1, <2>2, <2>3, DriveRaises DEF Delta!Next
<1>3. CASE EndReact
  BY <1>3, Idle DEF EndReact, bounds
<1>4. CASE EndFast
  BY <1>4, Idle DEF EndFast, bounds
<1>5. ASSUME NEW e \in Elem, Clock(e) PROVE [Delta!Next]_(Delta!vars)
  <2>1. PICK D \in SUBSET (Drives[e] \ PortPins[e]) : Drive(D, {})
    BY <1>5 DEF Clock, ClockDrives
  <2>2. D \in SUBSET DNode
    BY <2>1, TopologyAssumption
  <2>3. /\ UNCHANGED <<ping, errors>>
        /\ pc \notin {"logic", "crashed"} /\ pc' \notin {"logic", "crashed"}
    BY <1>5 DEF Clock, bounds
  <2>4. QED BY <2>1, <2>2, <2>3, DriveRaises DEF Delta!Next
<1>6. CASE EndClock
  BY <1>6 DEF EndClock, TypeOK, Delta!vars, Delivered, LeftOf, Failures, bounds
<1>7. ASSUME NEW e \in Elem, Event(e) PROVE [Delta!Next]_(Delta!vars)
  <2>1. CASE e \in HasEvent
    <3>1. PICK D \in SUBSET Outputs(e) : Drive(D, {e})
      BY <1>7, <2>1 DEF Event, DriveBy
    <3>2. D \in SUBSET DNode
      BY <3>1, TopologyAssumption DEF Outputs
    <3>3. Registered(LogicList, D) \in SUBSET Elem
      BY <3>2, RegisteredType
    <3>4. Delta!Deliver(e, Registered(LogicList, D))
      BY <1>7, <2>1, <3>1, <3>2, DriveEffect
      DEF Event, Delta!Deliver, Delivered, LeftOf, Failures, bounds
    <3>5. QED BY <3>3, <3>4 DEF Delta!Next
  <2>2. CASE e \notin HasEvent
    <3>1. /\ pc = "logic" /\ pc' = "crashed" /\ UNCHANGED <<ping, logic, errors>>
          /\ todo \subseteq logic[~ping]
      BY <1>7, <2>2 DEF Event, EventInv, bounds
    <3>2. Delta!Abort(logic[~ping], {})
      BY <3>1 DEF Delta!Abort, Delivered, LeftOf, Failures
    <3>3. QED BY <3>2 DEF Delta!Next, TypeOK
  <2>3. QED BY <2>1, <2>2
<1>8. CASE EndLogic
  BY <1>8 DEF EndLogic, ClearDelivered, TypeOK, Delta!vars, Delivered, LeftOf,
     Failures, bounds
<1>9. CASE EndNonLin
  BY <1>9, Idle DEF EndNonLin, bounds
<1>10. CASE NonLinSolve
  BY <1>10, Idle DEF NonLinSolve, bounds
<1>11. CASE Solve
  BY <1>11, Idle DEF Solve, bounds
<1>12. CASE Sync
  BY <1>12, Idle DEF Sync, bounds
<1>13. ASSUME NEW e \in Elem, NEW p \in ANode \cup DNode, PortWrite(e, p)
       PROVE  [Delta!Next]_(Delta!vars)
  <2>1. /\ UNCHANGED <<ping, errors>>
        /\ pc \notin {"logic", "crashed"} /\ pc' \notin {"logic", "crashed"}
    BY <1>13 DEF PortWrite, bounds
  <2>2. logic' = logic
    <3>1. CASE p \in DNode
      <4>1. Registered(LogicList, {p}) = {}
        BY <1>13, <3>1 DEF PortWrite, Registered, NoPortReaders
      <4>2. logic' = [logic EXCEPT ![ping] = logic[ping] \cup {}]
        BY <1>13, <3>1, <4>1 DEF PortWrite, Enqueue
      <4>3. QED BY <4>2 DEF TypeOK
    <3>2. CASE p \notin DNode
      BY <1>13, <3>2 DEF PortWrite
    <3>3. QED BY <3>1, <3>2
  <2>3. QED BY <2>1, <2>2, Idle
<1>14. CASE FastSolve
  BY <1>14, Idle DEF FastSolve, bounds
<1>15. ASSUME NEW e \in Elem, FastVChanged(e) PROVE [Delta!Next]_(Delta!vars)
  <2>1. PICK D \in SUBSET Outputs(e) : Drive(D, {})
    BY <1>15 DEF FastVChanged, DriveBy
  <2>2. D \in SUBSET DNode
    BY <2>1, TopologyAssumption DEF Outputs
  <2>3. /\ UNCHANGED <<ping, errors>>
        /\ pc \notin {"logic", "crashed"} /\ pc' \notin {"logic", "crashed"}
    BY <1>15 DEF FastVChanged, flow, bounds
  <2>4. QED BY <2>1, <2>2, <2>3, DriveRaises DEF Delta!Next
<1>16. CASE EndFastVChanged
  BY <1>16, Idle DEF EndFastVChanged, bounds
<1>17. ASSUME NEW e \in Elem, FastEvent(e) PROVE [Delta!Next]_(Delta!vars)
  BY <1>17 DEF FastEvent, NoFastEvent
<1>18. CASE EndFastEvent
  BY <1>18 DEF EndFastEvent, NoFastEvent
<1>19. ASSUME NEW e \in Elem, VChangedFails(e) PROVE [Delta!Next]_(Delta!vars)
  <2>1. PICK D \in SUBSET Outputs(e) : Drive(D, {})
    BY <1>19 DEF VChangedFails, DriveBy
  <2>2. D \in SUBSET DNode
    BY <2>1, TopologyAssumption DEF Outputs
  <2>3. /\ UNCHANGED ping /\ errors' = errors + 1
        /\ pc \notin {"logic", "crashed"} /\ pc' \notin {"logic", "crashed"}
    BY <1>19 DEF VChangedFails, Abort
  <2>4. QED BY <2>1, <2>2, <2>3, DriveAborts DEF Delta!Next
<1>20. ASSUME NEW e \in Elem, ClockFails(e) PROVE [Delta!Next]_(Delta!vars)
  <2>1. PICK D \in SUBSET (Drives[e] \ PortPins[e]) : Drive(D, {})
    BY <1>20 DEF ClockFails, ClockDrives
  <2>2. D \in SUBSET DNode
    BY <2>1, TopologyAssumption
  <2>3. /\ UNCHANGED ping /\ errors' = errors + 1
        /\ pc \notin {"logic", "crashed"} /\ pc' \notin {"logic", "crashed"}
    BY <1>20 DEF ClockFails, Abort
  <2>4. QED BY <2>1, <2>2, <2>3, DriveAborts DEF Delta!Next
<1>21. ASSUME NEW e \in Elem, EventFails(e) PROVE [Delta!Next]_(Delta!vars)
  <2>1. PICK D \in SUBSET Outputs(e) : Drive(D, {})
    BY <1>21 DEF EventFails, DriveBy
  <2>2. D \in SUBSET DNode
    BY <2>1, TopologyAssumption DEF Outputs
  <2>3. Registered(LogicList, D) \in SUBSET Elem
    BY <2>2, RegisteredType
  <2>4. /\ pc = "logic" /\ pc' = "idle" /\ ping' = ping /\ errors' = errors + 1
        /\ todo \subseteq logic[~ping]
    BY <1>21 DEF EventFails, Abort, EventInv
  <2>5. Delta!Abort(logic[~ping], Registered(LogicList, D))
    BY <2>1, <2>2, <2>4, DriveEffect DEF Delta!Abort, Delivered, LeftOf,
       Failures
  <2>6. QED BY <2>3, <2>5 DEF Delta!Next, TypeOK
<1>22. CASE InitFails
  BY <1>22, IdleAborts DEF InitFails, MayInit, Delta!Next
<1>23. CASE SolverFails
  BY <1>23, IdleAborts DEF SolverFails, Abort, Delta!Next
<1>24. CASE SyncFails
  BY <1>24, IdleAborts DEF SyncFails, Abort, Delta!Next
<1>25. CASE FastFails
  <2>1. /\ UNCHANGED ping /\ errors' = errors + 1
        /\ pc \notin {"logic", "crashed"} /\ pc' \notin {"logic", "crashed"}
    BY <1>25 DEF FastFails
  <2>2. CASE UNCHANGED logic
    BY <2>1, <2>2, IdleAborts DEF Delta!Next
  <2>3. ASSUME NEW e \in ftodo, DriveBy(e, {})
        PROVE  \E A, S \in SUBSET Elem : Delta!Abort(A, S)
    <3>1. PICK D \in SUBSET Outputs(e) : Drive(D, {})
      BY <2>3 DEF DriveBy
    <3>2. D \in SUBSET DNode
      BY <3>1, TopologyAssumption DEF Outputs, TypeOK
    <3>3. QED BY <2>1, <3>1, <3>2, DriveAborts
  <2>4. QED BY <1>25, <2>2, <2>3 DEF FastFails, Delta!Next
<1>26. CASE InitCircuit
  BY <1>26, Idle DEF InitCircuit, MayInit
<1>27. CASE Stop
  <2>1. Drive(DNode, {}) /\ /\ UNCHANGED <<ping, errors>>
        /\ pc \notin {"logic", "crashed"} /\ pc' \notin {"logic", "crashed"}
    BY <1>27 DEF Stop, flow, bounds
  <2>2. QED BY <2>1, DriveRaises DEF Delta!Next
<1>28. CASE RunStep
  BY <1>28, Idle DEF RunStep, bounds
<1>29. CASE UNCHANGED vars
  BY <1>29 DEF vars, flow, bounds, Delta!vars, Delivered, LeftOf, Failures
<1>30. QED
  BY <1>1, <1>2, <1>3, <1>4, <1>5, <1>6, <1>7, <1>8, <1>9, <1>10, <1>11, <1>12,
     <1>13, <1>14, <1>15, <1>16, <1>17, <1>18, <1>19, <1>20, <1>21, <1>22, <1>23,
     <1>24, <1>25, <1>26, <1>27, <1>28, <1>29
  DEF Next, Step, FastUpdate, Failure, Control

\* Where no port pin has readers, the scheduler implements the delta cycles of
\* EventDelta: without an error, an event is delivered once and in the step after the
\* one that raised it; an error loses none.
THEOREM DeltaRefinement == NoPortReaders /\ Spec => Delta!SafeSpec
<1>1. Init => Delta!Init /\ NoFastEvent
  BY DEF Init, Delta!Init, Delivered, LeftOf, Failures, NoFastEvent
<1>2. NoPortReaders /\ NoFastEvent /\ [Next]_vars => NoFastEvent'
  BY NoFastEventStep
<1>3. NoPortReaders /\ NoFastEvent /\ IInv /\ [Next]_vars => [Delta!Next]_(Delta!vars)
  BY DeltaStep
<1>4. SUFFICES ASSUME NoPortReaders PROVE Spec => Delta!SafeSpec
  OBVIOUS
<1>5. QED BY <1>1, <1>2, <1>3, <1>4, Inductive, PTL DEF Spec, Delta!SafeSpec
=============================================================================
