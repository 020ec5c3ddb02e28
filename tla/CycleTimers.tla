---------------------------- MODULE CycleTimers ----------------------------
(***************************************************************************)
(* The cycle timers of the simulated AVR core, sim_cycle_timers.c.           *)
(*                                                                         *)
(* The active list is a sequence of records: what is called, and in how many *)
(* cycles.  Counting from the present cycle keeps the numbers small; an      *)
(* amount that is not positive is due.                                      *)
(***************************************************************************)
EXTENDS Integers, SequencesExt

CONSTANT MaxTimers     \* MAX_CYCLE_TIMERS: 64

ASSUME TimersAssumption == MaxTimers \in Nat \ {0}

Armed(q, t) == \E k \in DOMAIN q : q[k].what = t

\* avr_cycle_timer_status returns 1 + left, which is 0 for a timer that is one cycle
\* overdue as for one that is not there.
HasStatus(q, t) == \E k \in DOMAIN q : q[k].what = t /\ q[k].left # -1

\* DETACH in avr_cycle_timer_cancel: the first entry.
Cancel(q, t) ==
  IF ~Armed(q, t) THEN q
  ELSE RemoveAt(q, CHOOSE k \in DOMAIN q :
                     q[k].what = t /\ \A j \in 1..(k - 1) : q[j].what # t)

\* avr_cycle_timer_insert behind the entries that are not later, with `held` slots
\* of the pool in use beside the list.
Insert(q, held, t, n) ==
  IF Len(q) + held >= MaxTimers THEN q
  ELSE LET place == Cardinality({k \in DOMAIN q : \A j \in 1..k : q[j].left <= n})
       IN  InsertAt(q, place + 1, [what |-> t, left |-> n])

\* avr_cycle_timer_register.
Register(q, t, n) == Insert(Cancel(q, t), 0, t, n)

\* The cycle counter advances.
Advance(q, n) == [k \in DOMAIN q |-> [q[k] EXCEPT !.left = @ - n]]

\* avr_cycle_timer_process runs the callback of the head.  If it asks for another call
\* it gets one, unless it asks for a cycle that is not later; the slot of the head is
\* detached but not free before its timer has taken another.  In the code a callback
\* that asks for a cycle that has passed is called again at once, before other timers
\* that are due; no period here is that short.
Due(q) == q # <<>> /\ Head(q).left <= 0
Again(q, n) ==
  IF n <= Head(q).left THEN Tail(q) ELSE Insert(Tail(q), 1, Head(q).what, n)

\* The cycles until the next timer.
SleepCycles(q, default) == IF q = <<>> THEN default ELSE Head(q).left

-----------------------------------------------------------------------------
\* No timer hides behind a later one, and no callback is queued twice, which would
\* leave it running after it was cancelled.
ListInOrder(q) ==
  \A j, k \in DOMAIN q : j < k => q[j].left <= q[k].left /\ q[j].what # q[k].what
=============================================================================
