----------------------------- MODULE EventDelta -----------------------------
(***************************************************************************)
(* What the ping-pong logic lists of circuit_run_step promise: a simulation *)
(* step delivers the events of the step before it, each once, and an event  *)
(* raised while it does so belongs to the next step.  Only a step that      *)
(* fails may leave events undelivered, or deliver an event again.          *)
(***************************************************************************)
EXTENDS Naturals

CONSTANT Sink         \* the elements that receive events

VARIABLES
  due,                \* elements whose event this step delivers
  later,              \* elements whose event the next step delivers
  failures            \* steps that failed

vars == <<due, later, failures>>

TypeOK == due \subseteq Sink /\ later \subseteq Sink /\ failures \in Nat

Init == due = {} /\ later = {} /\ failures = 0

\* A digital node is set: its readers have an event in the next step.
Raise(S) == S # {} /\ later' = later \cup S /\ UNCHANGED <<due, failures>>

\* A new step: everything was delivered, or waits because a step failed.
Begin ==
  /\ due = {} \/ failures > 0
  /\ due' = later /\ later' = due
  /\ UNCHANGED failures

\* The event of e is delivered and raises those of S.
Deliver(e, S) ==
  /\ e \in due
  /\ due' = due \ {e} /\ later' = later \cup S
  /\ UNCHANGED failures

\* A step fails: events it had delivered are due again, and the callback that
\* failed may have raised S.
Abort(A, S) ==
  /\ due' = due \cup A /\ later' = later \cup S
  /\ failures' = failures + 1

Next ==
  \/ Begin
  \/ \E S \in SUBSET Sink : Raise(S) \/ \E e \in Sink : Deliver(e, S)
  \/ \E A, S \in SUBSET Sink : Abort(A, S)

SafeSpec == Init /\ [][Next]_vars

\* An event that is due step after step is delivered.
Spec ==
  /\ SafeSpec
  /\ WF_vars(Begin)
  /\ \A e \in Sink : SF_vars(\E S \in SUBSET Sink : Deliver(e, S))
=============================================================================
