------------------------------ MODULE Session ------------------------------
(***************************************************************************)
(* Running a schema from the editor: MainWindow's debug commands, the       *)
(* SchemaSheet of every open document with its timer, and the thread that   *)
(* QtConcurrent gives to SchemaSheet::runLoop.                              *)
(*                                                                         *)
(* The GUI thread runs one handler at a time and stands, inside one, in     *)
(* waitForFinished ("wait"), in the rebuilding of the circuit ("build") or  *)
(* in circuit_run_step ("stepping"); the workers run beside it.             *)
(***************************************************************************)
EXTENDS Naturals, FiniteSets

CONSTANTS
  Doc,             \* schema documents, each opened and closed at most once
  NoDoc,           \* no schema editor is the active window
  Part,            \* wired components of a document, each placed at most once
  MaxTimers        \* bound: timers of a sheet that are alive at once

ASSUME SessionAssumption == NoDoc \notin Doc /\ MaxTimers \in Nat \ {0}

VARIABLES
  mode,            \* MainWindow::m_schemaEditState, one for all documents
  active,          \* activeSchemaEditor()
  life,            \* life of a document's SchemaSheet
  gui,             \* the debug command being handled, and where it stands
  tracked,         \* m_clkTimer # 0
  live,            \* timers of the sheet that are alive
  canceled,        \* m_canceled
  running,         \* m_stepFuture runs: a worker is in circuit_run_step
  circuit,         \* what m_circuit points to
  compiled,        \* m_compiled
  part,            \* the component's item in the schema view
  nodes,           \* components the ports in m_nodes belong to
  switched         \* history: the active window changed during a session

window == <<mode, active, switched>>
timer  == <<tracked, live, canceled>>
sheet  == <<circuit, compiled, nodes>>
vars   == <<window, life, gui, timer, running, sheet, part>>

Modes    == {"INPUT", "RUNNING", "FROZEN"}
Commands == {"none", "step", "run", "restart", "end"}
Idle     == [op |-> "none", at |-> "idle", doc |-> NoDoc]

TypeOK ==
  /\ mode \in Modes /\ active \in Doc \cup {NoDoc} /\ switched \in BOOLEAN
  /\ life \in [Doc -> {"unborn", "open", "closed"}]
  /\ gui \in [op : Commands, at : {"idle", "wait", "build", "stepping"},
              doc : Doc \cup {NoDoc}]
  /\ tracked \in [Doc -> BOOLEAN] /\ live \in [Doc -> 0..MaxTimers]
  /\ canceled \in [Doc -> BOOLEAN] /\ running \in [Doc -> BOOLEAN]
  /\ circuit \in [Doc -> {"freed", "blank", "ready"}]
  /\ compiled \in [Doc -> BOOLEAN]
  /\ part \in [Doc -> [Part -> {"new", "placed", "gone"}]]
  /\ nodes \in [Doc -> SUBSET Part]

\* m_canceled is not initialised by the constructor.
Init ==
  /\ mode = "INPUT" /\ active = NoDoc /\ switched = FALSE
  /\ life = [d \in Doc |-> "unborn"]
  /\ gui = Idle
  /\ tracked = [d \in Doc |-> FALSE] /\ live = [d \in Doc |-> 0]
  /\ canceled \in [Doc -> BOOLEAN] /\ running = [d \in Doc |-> FALSE]
  /\ circuit = [d \in Doc |-> "freed"]
  /\ compiled = [d \in Doc |-> FALSE]
  /\ part = [d \in Doc |-> [p \in Part |-> "new"]]
  /\ nodes = [d \in Doc |-> {}]

-----------------------------------------------------------------------------
(* Documents and windows.                                                  *)

GuiIdle == gui.at = "idle"
Placed(d) == {p \in Part : part[d][p] = "placed"}

\* The active window becomes x; a session is under way unless the mode is INPUT.
SetActive(x) ==
  /\ active' = x
  /\ switched' = (switched \/ (mode # "INPUT" /\ x # active))

\* newSchemaDocument; SchemaSheet::init creates an empty circuit.
NewDocument(d) ==
  /\ GuiIdle /\ life[d] = "unborn"
  /\ life' = [life EXCEPT ![d] = "open"]
  /\ circuit' = [circuit EXCEPT ![d] = "blank"]
  /\ SetActive(d)
  /\ UNCHANGED <<mode, gui, timer, running, compiled, part, nodes>>

Activate(x) ==
  /\ GuiIdle
  /\ x \in Doc => life[x] = "open"
  /\ SetActive(x)
  /\ UNCHANGED <<mode, life, gui, timer, running, sheet, part>>

\* The window is closed: ~SchemaEditorForm deletes the sheet, which frees the
\* circuit and, as a QObject, stops its timers; it does not wait for the worker.
Close(d) ==
  /\ GuiIdle /\ life[d] = "open"
  /\ life' = [life EXCEPT ![d] = "closed"]
  /\ circuit' = [circuit EXCEPT ![d] = "freed"]
  /\ compiled' = [compiled EXCEPT ![d] = FALSE]
  /\ tracked' = [tracked EXCEPT ![d] = FALSE]
  /\ live' = [live EXCEPT ![d] = 0]
  /\ \E x \in {NoDoc} \cup {y \in Doc \ {d} : life[y] = "open"} : SetActive(x)
  /\ UNCHANGED <<mode, gui, canceled, running, part, nodes>>

\* The schema can be edited in every mode; the netlist is not told.
AddPart(d, p) ==
  /\ GuiIdle /\ active = d /\ part[d][p] = "new"
  /\ part' = [part EXCEPT ![d][p] = "placed"]
  /\ UNCHANGED <<window, life, gui, timer, running, sheet>>

DeletePart(d, p) ==
  /\ GuiIdle /\ active = d /\ part[d][p] = "placed"
  /\ part' = [part EXCEPT ![d][p] = "gone"]
  /\ UNCHANGED <<window, life, gui, timer, running, sheet>>

-----------------------------------------------------------------------------
(* SchemaSheet.                                                            *)

\* generateNetlist: a schema without ports is left with the nodes it had.
Netlist(d) ==
  /\ nodes' = [nodes EXCEPT ![d] = IF Placed(d) = {} THEN @ ELSE Placed(d)]
  /\ compiled' = [compiled EXCEPT ![d] = FALSE]

\* The first half of end(): the timer it knows of is killed and the simulation
\* canceled; the mutated forms keep the timer, do not cancel, or do not ask
\* whether there is a timer.
KeepTimer(d) ==
  /\ canceled' = [canceled EXCEPT ![d] = TRUE]
  /\ UNCHANGED <<tracked, live>>
KillOnly(d) ==
  /\ tracked' = [tracked EXCEPT ![d] = FALSE]
  /\ live' = [live EXCEPT ![d] = IF tracked[d] THEN @ - 1 ELSE @]
  /\ UNCHANGED canceled
KillAlways(d) ==
  /\ tracked' = [tracked EXCEPT ![d] = FALSE]
  /\ live' = [live EXCEPT ![d] = @ - 1]
  /\ canceled' = [canceled EXCEPT ![d] = TRUE]
StopTimer(d) ==
  /\ tracked' = [tracked EXCEPT ![d] = FALSE]
  /\ live' = [live EXCEPT ![d] = IF tracked[d] THEN @ - 1 ELSE @]
  /\ canceled' = [canceled EXCEPT ![d] = TRUE]

\* run(): a timer it already has is forgotten, not killed; a mutated form
\* leaves the simulation canceled.
StartCanceled(d) ==
  /\ live[d] < MaxTimers
  /\ tracked' = [tracked EXCEPT ![d] = TRUE]
  /\ live' = [live EXCEPT ![d] = @ + 1]
  /\ UNCHANGED canceled
StartTimer(d) ==
  /\ live[d] < MaxTimers
  /\ tracked' = [tracked EXCEPT ![d] = TRUE]
  /\ live' = [live EXCEPT ![d] = @ + 1]
  /\ canceled' = [canceled EXCEPT ![d] = FALSE]

\* m_stepFuture.waitForFinished() may return; a mutated form does not wait.
NoWait(d) == d \in Doc
Finished(d) == ~running[d]

\* timerEvent of a sheet whose future has finished starts the next worker.
Launch(d) ==
  /\ GuiIdle /\ live[d] > 0 /\ ~canceled[d]
  /\ ~running[d]
  /\ running' = [running EXCEPT ![d] = TRUE]
  /\ UNCHANGED <<window, life, gui, timer, sheet, part>>

\* runLoop returns; nothing reads what it returned.
WorkerDone(d) ==
  /\ running[d]
  /\ running' = [running EXCEPT ![d] = FALSE]
  /\ UNCHANGED <<window, life, gui, timer, sheet, part>>

-----------------------------------------------------------------------------
(* MainWindow's commands on the active document.                           *)

\* compile() when m_compiled, or its way to the wait of end() inside it.
CompileFirst(d, op) ==
  /\ Netlist(d)
  /\ StopTimer(d)
  /\ gui' = [op |-> op, at |-> "wait", doc |-> d]

OnDebugStep ==
  /\ GuiIdle /\ active # NoDoc /\ mode \in {"INPUT", "FROZEN"}
  /\ IF compiled[active]
       THEN /\ gui' = [op |-> "step", at |-> "stepping", doc |-> active]
            /\ UNCHANGED <<timer, compiled, nodes>>
       ELSE CompileFirst(active, "step")
  /\ UNCHANGED <<window, life, running, circuit, part>>

\* circuit_run_step on the GUI thread returns.
StepReturns ==
  /\ gui.at = "stepping"
  /\ mode' \in {"FROZEN", "INPUT"}
  /\ gui' = Idle
  /\ UNCHANGED <<active, switched, life, timer, running, sheet, part>>

OnDebugRun ==
  /\ GuiIdle /\ active # NoDoc /\ mode = "INPUT"
  /\ IF compiled[active]
       THEN /\ StartTimer(active)
            /\ mode' = "RUNNING"
            /\ UNCHANGED <<gui, compiled, nodes>>
       ELSE /\ CompileFirst(active, "run")
            /\ UNCHANGED mode
  /\ UNCHANGED <<active, switched, life, running, circuit, part>>

\* In FROZEN the user is asked whether to restart, and says yes.
OnDebugRestart ==
  /\ GuiIdle /\ active # NoDoc /\ mode = "FROZEN"
  /\ StopTimer(active)
  /\ gui' = [op |-> "restart", at |-> "wait", doc |-> active]
  /\ UNCHANGED <<window, life, running, sheet, part>>

OnDebugEnd ==
  /\ GuiIdle /\ active # NoDoc /\ mode \in {"RUNNING", "FROZEN"}
  /\ StopTimer(active)
  /\ gui' = [op |-> "end", at |-> "wait", doc |-> active]
  /\ UNCHANGED <<window, life, running, sheet, part>>

\* "View netlist" compiles no circuit, but forgets that one is compiled.
OnDesignViewNetlist ==
  /\ GuiIdle /\ active # NoDoc
  /\ Netlist(active)
  /\ UNCHANGED <<window, life, gui, timer, running, circuit, part>>

\* The wait is over: reinit() frees the circuit and creates an empty one.
Reinit ==
  /\ gui.at = "wait" /\ Finished(gui.doc)
  /\ circuit' = [circuit EXCEPT ![gui.doc] = "blank"]
  /\ compiled' = [compiled EXCEPT ![gui.doc] = FALSE]
  /\ gui' = [gui EXCEPT !.at = "build"]
  /\ UNCHANGED <<window, life, timer, running, nodes, part>>

\* The second half of end() creates the devices of m_nodes again, or fails.
EndReturns ==
  /\ gui.at = "build" /\ gui.op = "end"
  /\ mode' \in {"INPUT", "FROZEN"}
  /\ gui' = Idle
  /\ UNCHANGED <<active, switched, life, timer, running, sheet, part>>

\* debugRun after debugEnd, whose result is not looked at; a mutated form
\* restarts again.
RestartAgain == "restart"
RunAfterEnd == "run"
RestartReturns ==
  /\ gui.at = "build" /\ gui.op = "restart"
  /\ CompileFirst(gui.doc, RunAfterEnd)
  /\ UNCHANGED <<window, life, running, circuit, part>>

CompileFails ==
  /\ gui.at = "build" /\ gui.op \in {"step", "run"}
  /\ mode' = "INPUT"
  /\ gui' = Idle
  /\ UNCHANGED <<active, switched, life, timer, running, sheet, part>>

\* circuit_init succeeds; the command goes on to step or to run.
Compiled ==
  /\ gui.at = "build" /\ gui.op \in {"step", "run"}
  /\ circuit' = [circuit EXCEPT ![gui.doc] = "ready"]
  /\ compiled' = [compiled EXCEPT ![gui.doc] = TRUE]
  /\ IF gui.op = "step"
       THEN /\ gui' = [gui EXCEPT !.at = "stepping"]
            /\ UNCHANGED <<mode, timer>>
       ELSE /\ gui' = Idle
            /\ StartTimer(gui.doc)
            /\ mode' = "RUNNING"
  /\ UNCHANGED <<active, switched, life, running, nodes, part>>

-----------------------------------------------------------------------------

User ==
  \/ \E d \in Doc : NewDocument(d)
  \/ \E x \in Doc \cup {NoDoc} : Activate(x)
  \/ \E d \in Doc : Close(d)
  \/ \E d \in Doc, p \in Part : AddPart(d, p)
  \/ \E d \in Doc, p \in Part : DeletePart(d, p)
  \/ OnDebugStep \/ OnDebugRun \/ OnDebugRestart \/ OnDebugEnd
  \/ OnDesignViewNetlist

Handler == Reinit \/ EndReturns \/ RestartReturns \/ CompileFails \/ Compiled

Next ==
  \/ User
  \/ Handler \/ StepReturns
  \/ \E d \in Doc : Launch(d)
  \/ \E d \in Doc : WorkerDone(d)

Spec == Init /\ [][Next]_vars

\* A handler that can go on does, and the event loop delivers timer events.
\* circuit_run_step need not return, neither in a worker nor on the GUI thread:
\* the clock of an AVR waits for a core that may have stopped.
FairSpec ==
  /\ Spec
  /\ WF_vars(Handler)
  /\ \A d \in Doc : WF_vars(Launch(d))

-----------------------------------------------------------------------------
Open(d) == life[d] = "open"

\* A worker steps, and a timer will launch one on, a circuit that was compiled
\* and initialised: neither end() nor a compilation pulls it from under them,
\* whichever documents the commands went to.
WorkerOnReadyCircuit ==
  \A d \in Doc :
    Open(d) /\ (running[d] \/ (tracked[d] /\ gui.doc # d)) => circuit[d] = "ready"

\* Once end() has returned a document is not simulated until it is run again, not
\* even by a timer the sheet has lost track of.
EndIsFinal ==
  \A d \in Doc : Open(d) /\ ~tracked[d] /\ gui.doc # d => ~running[d]

\* While the user stays with one document, the mode of the main window tells
\* whether the document is simulated, and it has no more than one timer.
ModeTellsTimer ==
  GuiIdle /\ ~switched =>
    /\ mode = "RUNNING" <=> \E d \in Doc : tracked[d]
    /\ mode = "RUNNING" => tracked[active]
    /\ \A d \in Doc : live[d] = IF tracked[d] THEN 1 ELSE 0

\* While the user stays with one document, the GUI thread never steps a circuit
\* that a worker steps.
OneStepper ==
  ~switched => (gui.at = "stepping" => ~running[gui.doc])

\* The GUI thread comes back to the event loop for ever, or a circuit_run_step
\* does not return: the one it is in itself, or that of the worker of the document
\* it waits for.  No timer, no other document's worker and no other command can
\* keep a command from returning.
WaitsOnlyForSteps ==
  \/ []<>GuiIdle
  \/ <>[](gui.at = "stepping" \/ (gui.at = "wait" /\ running[gui.doc]))

\* While the main window says RUNNING and the user stays with the document, its
\* simulation goes on.
RunningIsServed ==
  \A d \in Doc :
    [](mode = "RUNNING" /\ active = d /\ ~switched
        => <>(running[d] \/ mode # "RUNNING" \/ switched))

\* m_nodes is read, to create the devices again, only while the components it
\* names are in the schema.
NodesAreCurrent ==
  gui.at = "build" => nodes[gui.doc] \subseteq Placed(gui.doc)
=============================================================================
