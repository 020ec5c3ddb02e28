--------------------------- MODULE SessionProofs ---------------------------
(***************************************************************************)
(* Theorems about Session, for every set of documents and parts and every   *)
(* bound on timers.                                                         *)
(*                                                                         *)
(* None of the properties is inductive: that a worker steps a circuit which  *)
(* is ready depends on where the command of the GUI thread stands, on what a *)
(* timer may launch, and on what m_compiled is worth.  Inv collects this.    *)
(***************************************************************************)
EXTENDS Session, TLAPS

\* A command is about the active document, which is open, until it returns; one that
\* runs or steps was accepted in another mode than RUNNING.
GuiInv ==
  /\ GuiIdle => gui = Idle
  /\ ~GuiIdle => gui.doc \in Doc /\ gui.doc = active /\ gui.op # "none"
  /\ active \in Doc => Open(active)
  /\ gui.op \in {"step", "run", "restart"} => mode # "RUNNING"
  /\ gui.at = "stepping" => gui.op = "step"

\* What is compiled is ready; a document that is not open yet has nothing.
CircuitInv ==
  \A d \in Doc :
    /\ compiled[d] => circuit[d] = "ready"
    /\ life[d] # "open" => circuit[d] = "freed" /\ ~tracked[d] /\ live[d] = 0
    /\ life[d] = "unborn" => ~running[d]
    /\ Open(d) /\ running[d] => circuit[d] = "ready"
    /\ gui.doc = d /\ gui.at = "stepping" => circuit[d] = "ready"

\* Only a timer the sheet knows of launches a worker.
TimerInv ==
  \A d \in Doc :
    /\ tracked[d] => live[d] > 0
    /\ live[d] > 0 /\ ~canceled[d] => tracked[d]
    /\ tracked[d] /\ gui.doc # d => circuit[d] = "ready"
    /\ gui.doc = d /\ gui.at \in {"wait", "build"} => ~tracked[d]
    /\ gui.doc = d /\ gui.at = "build" => ~running[d]
    /\ Open(d) /\ running[d] => tracked[d] \/ (gui.doc = d /\ gui.at = "wait")

\* While the user stays with one document, only this one is simulated.
ModeInv ==
  ~switched =>
    /\ \A d \in Doc : live[d] = IF tracked[d] THEN 1 ELSE 0
    /\ \A d \in Doc : tracked[d] => d = active /\ mode = "RUNNING"
    /\ GuiIdle /\ mode = "RUNNING" => active \in Doc /\ tracked[active]

Inv == TypeOK /\ GuiInv /\ CircuitInv /\ TimerInv /\ ModeInv

-----------------------------------------------------------------------------
LEMMA InitInv == Init => Inv
  <1> SUFFICES ASSUME Init PROVE Inv
    OBVIOUS
  <1>1. TypeOK
    <2>1. part \in [Doc -> [Part -> {"new", "placed", "gone"}]]
      BY DEF Init
    <2>2. /\ tracked \in [Doc -> BOOLEAN] /\ live \in [Doc -> 0..MaxTimers]
          /\ canceled \in [Doc -> BOOLEAN] /\ running \in [Doc -> BOOLEAN]
          /\ circuit \in [Doc -> {"freed", "blank", "ready"}]
          /\ compiled \in [Doc -> BOOLEAN] /\ nodes \in [Doc -> SUBSET Part]
          /\ life \in [Doc -> {"unborn", "open", "closed"}]
      BY SessionAssumption DEF Init
    <2> QED
      BY <2>1, <2>2 DEF Init, TypeOK, Idle, Modes, Commands
  <1>2. GuiInv
    BY SessionAssumption DEF Init, GuiInv, GuiIdle, Idle
  <1>3. CircuitInv /\ TimerInv
    BY SessionAssumption DEF Init, CircuitInv, TimerInv, Idle, Open
  <1>4. ModeInv
    BY DEF Init, ModeInv
  <1> QED
    BY <1>1, <1>2, <1>3, <1>4 DEF Inv

LEMMA TypeStep == TypeOK /\ TimerInv /\ GuiInv /\ [Next]_vars => TypeOK'
  <1> SUFFICES ASSUME TypeOK, TimerInv, GuiInv, [Next]_vars PROVE TypeOK'
    OBVIOUS
  <1> USE SessionAssumption DEF TypeOK, Modes, Commands
  <1>1. ASSUME NEW d \in Doc, StopTimer(d)
        PROVE  /\ tracked' \in [Doc -> BOOLEAN] /\ live' \in [Doc -> 0..MaxTimers]
               /\ canceled' \in [Doc -> BOOLEAN]
    BY <1>1 DEF StopTimer, TimerInv
  <1>2. ASSUME NEW d \in Doc, StartTimer(d)
        PROVE  /\ tracked' \in [Doc -> BOOLEAN] /\ live' \in [Doc -> 0..MaxTimers]
               /\ canceled' \in [Doc -> BOOLEAN]
    BY <1>2 DEF StartTimer
  <1>3. ASSUME NEW d \in Doc, Netlist(d)
        PROVE  nodes' \in [Doc -> SUBSET Part] /\ compiled' \in [Doc -> BOOLEAN]
    BY <1>3 DEF Netlist, Placed
  <1>4. ASSUME NEW d \in Doc, NewDocument(d) PROVE TypeOK'
    BY <1>4 DEF NewDocument, SetActive, timer
  <1>5. ASSUME NEW x \in Doc \cup {NoDoc}, Activate(x) PROVE TypeOK'
    BY <1>5 DEF Activate, SetActive, timer, sheet
  <1>6. ASSUME NEW d \in Doc, Close(d) PROVE TypeOK'
    BY <1>6 DEF Close, SetActive
  <1>7. ASSUME NEW d \in Doc, NEW p \in Part, AddPart(d, p) \/ DeletePart(d, p) PROVE TypeOK'
    <2> DEFINE status == {"new", "placed", "gone"}
    <2>1. PICK s \in status : part' = [part EXCEPT ![d][p] = s]
      BY <1>7 DEF AddPart, DeletePart
    <2>2. part' = [part EXCEPT ![d] = [part[d] EXCEPT ![p] = s]]
      BY <2>1
    <2>3. [part[d] EXCEPT ![p] = s] \in [Part -> status]
      OBVIOUS
    <2>4. part' \in [Doc -> [Part -> status]]
      BY <2>2, <2>3
    <2> QED
      BY <1>7, <2>4 DEF AddPart, DeletePart, window, timer, sheet
  <1>8. CASE OnDebugStep
    BY <1>8, <1>1, <1>3 DEF OnDebugStep, CompileFirst, window, timer
  <1>9. CASE OnDebugRun
    BY <1>9, <1>1, <1>2, <1>3 DEF OnDebugRun, CompileFirst
  <1>10. CASE OnDebugRestart \/ OnDebugEnd
    BY <1>10, <1>1 DEF OnDebugRestart, OnDebugEnd, window, sheet
  <1>11. CASE OnDesignViewNetlist
    BY <1>11, <1>3 DEF OnDesignViewNetlist, window, timer
  <1>12. CASE Reinit
    BY <1>12 DEF Reinit, window, timer
  <1>13. CASE StepReturns \/ EndReturns \/ CompileFails
    BY <1>13 DEF StepReturns, EndReturns, CompileFails, Idle, timer, sheet
  <1>14. CASE RestartReturns
    BY <1>14, <1>1, <1>3 DEF RestartReturns, CompileFirst, RunAfterEnd, GuiInv, GuiIdle, window
  <1>15. CASE Compiled
    BY <1>15, <1>2 DEF Compiled, GuiInv, GuiIdle, Idle, timer
  <1>16. ASSUME NEW d \in Doc, Launch(d) \/ WorkerDone(d) PROVE TypeOK'
    BY <1>16 DEF Launch, WorkerDone, window, timer, sheet
  <1>17. CASE UNCHANGED vars
    BY <1>17 DEF vars, window, timer, sheet
  <1> QED
    BY <1>4, <1>5, <1>6, <1>7, <1>8, <1>9, <1>10, <1>11, <1>12, <1>13, <1>14, <1>15, <1>16,
       <1>17 DEF Next, User, Handler

LEMMA GuiStep == TypeOK /\ GuiInv /\ [Next]_vars => GuiInv'
  <1> SUFFICES ASSUME TypeOK, GuiInv, [Next]_vars PROVE GuiInv'
    OBVIOUS
  <1> USE SessionAssumption DEF TypeOK, GuiInv, GuiIdle, Idle, Open
  <1>1. ASSUME NEW d \in Doc, NewDocument(d) PROVE GuiInv'
    BY <1>1 DEF NewDocument, SetActive
  <1>2. ASSUME NEW x \in Doc \cup {NoDoc}, Activate(x) PROVE GuiInv'
    BY <1>2 DEF Activate, SetActive
  <1>3. ASSUME NEW d \in Doc, Close(d) PROVE GuiInv'
    BY <1>3 DEF Close, SetActive
  <1>4. ASSUME NEW d \in Doc, NEW p \in Part, AddPart(d, p) \/ DeletePart(d, p) PROVE GuiInv'
    BY <1>4 DEF AddPart, DeletePart, window
  <1>5. CASE OnDebugStep
    BY <1>5 DEF OnDebugStep, CompileFirst, window
  <1>6. CASE OnDebugRun
    BY <1>6 DEF OnDebugRun, CompileFirst
  <1>7. CASE OnDebugRestart \/ OnDebugEnd
    BY <1>7 DEF OnDebugRestart, OnDebugEnd, window
  <1>8. CASE OnDesignViewNetlist
    BY <1>8 DEF OnDesignViewNetlist, window
  <1>9. CASE Reinit
    BY <1>9 DEF Reinit, window
  <1>10. CASE StepReturns \/ EndReturns \/ CompileFails
    BY <1>10 DEF StepReturns, EndReturns, CompileFails
  <1>11. CASE RestartReturns
    BY <1>11 DEF RestartReturns, CompileFirst, RunAfterEnd, window
  <1>12. CASE Compiled
    BY <1>12 DEF Compiled
  <1>13. ASSUME NEW d \in Doc, Launch(d) \/ WorkerDone(d) PROVE GuiInv'
    BY <1>13 DEF Launch, WorkerDone, window
  <1>14. CASE UNCHANGED vars
    BY <1>14 DEF vars, window
  <1> QED
    BY <1>1, <1>2, <1>3, <1>4, <1>5, <1>6, <1>7, <1>8, <1>9, <1>10, <1>11, <1>12, <1>13, <1>14
    DEF Next, User, Handler

LEMMA CircuitStep ==
  TypeOK /\ GuiInv /\ CircuitInv /\ TimerInv /\ [Next]_vars => CircuitInv'
  <1> SUFFICES ASSUME TypeOK, GuiInv, CircuitInv, TimerInv, [Next]_vars PROVE CircuitInv'
    OBVIOUS
  <1> USE SessionAssumption DEF TypeOK, GuiInv, GuiIdle, Idle, Open, CircuitInv
  <1>1. ASSUME NEW d \in Doc, NewDocument(d) PROVE CircuitInv'
    BY <1>1 DEF NewDocument, timer
  <1>2. ASSUME NEW x \in Doc \cup {NoDoc}, Activate(x) PROVE CircuitInv'
    BY <1>2 DEF Activate, timer, sheet
  <1>3. ASSUME NEW d \in Doc, Close(d) PROVE CircuitInv'
    BY <1>3 DEF Close
  <1>4. ASSUME NEW d \in Doc, NEW p \in Part, AddPart(d, p) \/ DeletePart(d, p)
        PROVE CircuitInv'
    BY <1>4 DEF AddPart, DeletePart, timer, sheet
  <1>5. CASE OnDebugStep
    BY <1>5 DEF OnDebugStep, CompileFirst, Netlist, StopTimer, timer
  <1>6. CASE OnDebugRun
    BY <1>6 DEF OnDebugRun, CompileFirst, Netlist, StopTimer, StartTimer
  <1>7. CASE OnDebugRestart \/ OnDebugEnd
    BY <1>7 DEF OnDebugRestart, OnDebugEnd, StopTimer, sheet
  <1>8. CASE OnDesignViewNetlist
    BY <1>8 DEF OnDesignViewNetlist, Netlist, timer
  <1>9. CASE Reinit
    BY <1>9 DEF Reinit, Finished, timer
  <1>10. CASE StepReturns \/ EndReturns \/ CompileFails
    BY <1>10 DEF StepReturns, EndReturns, CompileFails, timer, sheet
  <1>11. CASE RestartReturns
    BY <1>11 DEF RestartReturns, CompileFirst, RunAfterEnd, Netlist, StopTimer
  <1>12. CASE Compiled
    BY <1>12 DEF Compiled, StartTimer, timer
  <1>13. ASSUME NEW d \in Doc, Launch(d) \/ WorkerDone(d) PROVE CircuitInv'
    <2>1. CASE Launch(d)
      <3>1. circuit[d] = "ready"
        BY <2>1 DEF Launch, TimerInv
      <3> QED
        BY <2>1, <3>1 DEF Launch, timer, sheet
    <2>2. CASE WorkerDone(d)
      BY <2>2 DEF WorkerDone, timer, sheet
    <2> QED
      BY <1>13, <2>1, <2>2
  <1>14. CASE UNCHANGED vars
    BY <1>14 DEF vars, timer, sheet
  <1> QED
    BY <1>1, <1>2, <1>3, <1>4, <1>5, <1>6, <1>7, <1>8, <1>9, <1>10, <1>11, <1>12, <1>13, <1>14
    DEF Next, User, Handler

LEMMA TimerStep ==
  TypeOK /\ GuiInv /\ CircuitInv /\ TimerInv /\ [Next]_vars => TimerInv'
  <1> SUFFICES ASSUME TypeOK, GuiInv, CircuitInv, TimerInv, [Next]_vars PROVE TimerInv'
    OBVIOUS
  <1> USE SessionAssumption DEF TypeOK, GuiInv, GuiIdle, Idle, Open, CircuitInv, TimerInv
  <1>1. ASSUME NEW d \in Doc, NewDocument(d) PROVE TimerInv'
    BY <1>1 DEF NewDocument, timer
  <1>2. ASSUME NEW x \in Doc \cup {NoDoc}, Activate(x) PROVE TimerInv'
    BY <1>2 DEF Activate, timer, sheet
  <1>3. ASSUME NEW d \in Doc, Close(d) PROVE TimerInv'
    BY <1>3 DEF Close
  <1>4. ASSUME NEW d \in Doc, NEW p \in Part, AddPart(d, p) \/ DeletePart(d, p) PROVE TimerInv'
    BY <1>4 DEF AddPart, DeletePart, timer, sheet
  <1>5. CASE OnDebugStep
    <2>1. CASE compiled[active]
      BY <1>5, <2>1 DEF OnDebugStep, timer
    <2>2. CASE ~compiled[active]
      BY <1>5, <2>2 DEF OnDebugStep, CompileFirst, StopTimer
    <2> QED
      BY <2>1, <2>2
  <1>6. CASE OnDebugRun
    <2>1. CASE compiled[active]
      BY <1>6, <2>1 DEF OnDebugRun, StartTimer
    <2>2. CASE ~compiled[active]
      BY <1>6, <2>2 DEF OnDebugRun, CompileFirst, StopTimer
    <2> QED
      BY <2>1, <2>2
  <1>7. CASE OnDebugRestart \/ OnDebugEnd
    BY <1>7 DEF OnDebugRestart, OnDebugEnd, StopTimer, sheet
  <1>8. CASE OnDesignViewNetlist
    BY <1>8 DEF OnDesignViewNetlist, Netlist, timer
  <1>9. CASE Reinit
    BY <1>9 DEF Reinit, Finished, timer
  <1>10. CASE StepReturns \/ EndReturns \/ CompileFails
    BY <1>10 DEF StepReturns, EndReturns, CompileFails, timer, sheet
  <1>11. CASE RestartReturns
    BY <1>11 DEF RestartReturns, CompileFirst, RunAfterEnd, Netlist, StopTimer
  <1>12. CASE Compiled
    BY <1>12 DEF Compiled, StartTimer, timer
  <1>13. ASSUME NEW d \in Doc, Launch(d) \/ WorkerDone(d) PROVE TimerInv'
    <2>1. CASE Launch(d)
      BY <2>1 DEF Launch, timer, sheet
    <2>2. CASE WorkerDone(d)
      BY <2>2 DEF WorkerDone, timer, sheet
    <2> QED
      BY <1>13, <2>1, <2>2
  <1>14. CASE UNCHANGED vars
    BY <1>14 DEF vars, timer, sheet
  <1> QED
    BY <1>1, <1>2, <1>3, <1>4, <1>5, <1>6, <1>7, <1>8, <1>9, <1>10, <1>11, <1>12, <1>13, <1>14
    DEF Next, User, Handler

LEMMA ModeStep == Inv /\ [Next]_vars => ModeInv'
  <1> SUFFICES ASSUME Inv, [Next]_vars PROVE ModeInv'
    OBVIOUS
  <1> USE SessionAssumption DEF Inv, TypeOK, GuiInv, GuiIdle, Idle, ModeInv, TimerInv
  <1>1. ASSUME NEW d \in Doc, NewDocument(d) PROVE ModeInv'
    BY <1>1 DEF NewDocument, SetActive, timer
  <1>2. ASSUME NEW x \in Doc \cup {NoDoc}, Activate(x) PROVE ModeInv'
    BY <1>2 DEF Activate, SetActive, timer
  <1>3. ASSUME NEW d \in Doc, Close(d) PROVE ModeInv'
    BY <1>3 DEF Close, SetActive
  <1>4. ASSUME NEW d \in Doc, NEW p \in Part, AddPart(d, p) \/ DeletePart(d, p) PROVE ModeInv'
    BY <1>4 DEF AddPart, DeletePart, timer, window
  <1>5. CASE OnDebugStep
    BY <1>5 DEF OnDebugStep, CompileFirst, StopTimer, timer, window
  <1>6. CASE OnDebugRun
    BY <1>6 DEF OnDebugRun, CompileFirst, StopTimer, StartTimer
  <1>7. CASE OnDebugRestart \/ OnDebugEnd
    <2>1. StopTimer(active) /\ ~GuiIdle' /\ UNCHANGED window
      BY <1>7 DEF OnDebugRestart, OnDebugEnd
    <2> QED
      BY <2>1 DEF StopTimer, window
  <1>8. CASE OnDesignViewNetlist
    BY <1>8 DEF OnDesignViewNetlist, timer, window
  <1>9. CASE Reinit
    BY <1>9 DEF Reinit, timer, window
  <1>10. CASE StepReturns \/ EndReturns \/ CompileFails
    BY <1>10 DEF StepReturns, EndReturns, CompileFails, timer
  <1>11. CASE RestartReturns
    BY <1>11 DEF RestartReturns, CompileFirst, StopTimer, window
  <1>12. CASE Compiled
    BY <1>12 DEF Compiled, StartTimer, timer
  <1>13. ASSUME NEW d \in Doc, Launch(d) \/ WorkerDone(d) PROVE ModeInv'
    BY <1>13 DEF Launch, WorkerDone, timer, window
  <1>14. CASE UNCHANGED vars
    BY <1>14 DEF vars, timer, window
  <1> QED
    BY <1>1, <1>2, <1>3, <1>4, <1>5, <1>6, <1>7, <1>8, <1>9, <1>10, <1>11, <1>12, <1>13, <1>14
    DEF Next, User, Handler

LEMMA Inductive == Inv /\ [Next]_vars => Inv'
  BY TypeStep, GuiStep, CircuitStep, TimerStep, ModeStep DEF Inv

LEMMA InvHolds == Spec => []Inv
  BY InitInv, Inductive, PTL DEF Spec

-----------------------------------------------------------------------------
\* The state of the session keeps its type: in particular a timer is killed only
\* if it exists.
THEOREM TypeCorrect == Spec => []TypeOK
  <1>1. Inv => TypeOK
    BY DEF Inv
  <1> QED
    BY InvHolds, <1>1, PTL

\* The documents, commands, closings and timers in any order: a worker steps a
\* compiled and initialised circuit, or its document has been closed.
THEOREM WorkersStepReadyCircuits == Spec => []WorkerOnReadyCircuit
  <1>1. Inv => WorkerOnReadyCircuit
    BY DEF Inv, CircuitInv, TimerInv, WorkerOnReadyCircuit, Open
  <1> QED
    BY InvHolds, <1>1, PTL

\* After end() no timer, forgotten or not, starts the simulation of a document.
THEOREM EndedStaysEnded == Spec => []EndIsFinal
  <1>1. Inv => EndIsFinal
    BY DEF Inv, TimerInv, EndIsFinal, Open
  <1> QED
    BY InvHolds, <1>1, PTL

\* While one document is used, what the main window says is what its timer does.
THEOREM ModeIsRight == Spec => []ModeTellsTimer
  <1>1. Inv => ModeTellsTimer
    BY DEF Inv, ModeInv, ModeTellsTimer
  <1> QED
    BY InvHolds, <1>1, PTL

\* While one document is used, its circuit is stepped by one thread at a time.
THEOREM OneThreadSteps == Spec => []OneStepper
  <1>1. Inv => OneStepper
    BY DEF Inv, TypeOK, GuiInv, GuiIdle, TimerInv, ModeInv, OneStepper, Open
  <1> QED
    BY InvHolds, <1>1, PTL
=============================================================================
