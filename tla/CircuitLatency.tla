--------------------------- MODULE CircuitLatency ---------------------------
(***************************************************************************)
(* Circuit with a clock per element: the simulation steps an element has    *)
(* waited since an input of it changed.  The delay of the logic model (an   *)
(* event costs one step) and the periods of circuit_t (steps_react,         *)
(* steps_non_linear) are statements about these waits.                     *)
(***************************************************************************)
EXTENDS Circuit

VARIABLES
  waitL,           \* steps begun since the event of an element was raised
  waitV            \* steps begun since the voltage of an element changed

timedVars == <<vars, waitL, waitV>>

TimedInit == Init /\ waitL = [e \in Elem |-> 0] /\ waitV = [e \in Elem |-> 0]

\* Bound: a wait is counted up to one more than the longest that is allowed.
MaxWait == StepsReact + StepsNonLinear + 1

\* What an element waits after this step; BeginStep takes place at "pick".
Waited(wait, e) == IF pc = "pick" /\ wait[e] < MaxWait THEN wait[e] + 1 ELSE wait[e]

\* The event of e has just been delivered, though it may have been raised again.
Served(e) == pc = "logic" /\ e \in todo \ todo'

TimedNext ==
  /\ Next
  /\ waitL' = [e \in Elem |-> IF e \in staleL /\ e \in staleL' /\ ~Served(e)
                               THEN Waited(waitL, e) ELSE 0]
  /\ waitV' = [e \in Elem |-> IF e \in staleV /\ e \in staleV'
                               THEN Waited(waitV, e) ELSE 0]

TimedSpec == TimedInit /\ [][TimedNext]_timedVars

FairTimedSpec == TimedSpec /\ WF_vars(RunStep) /\ WF_vars(Step \/ FastUpdate)

-----------------------------------------------------------------------------
\* The longest wait the lists an element is registered in allow.
PeriodOf(e) ==
  CASE e \in Registered(FastList, ANode)  -> 1
    [] e \in Registered(ReactList, ANode) -> StepsReact
    [] OTHER                              -> StepsNonLinear

\* Without an error, an event is delivered in the step after the one that raised
\* it, and a changed voltage is seen by a fast element in the next step, by a
\* reactive or a non-linear one within its period: circuit.c:167-240.
LatencyBounds ==
  errors = 0 => \A e \in Elem : waitL[e] <= 1 /\ waitV[e] <= PeriodOf(e)
=============================================================================
