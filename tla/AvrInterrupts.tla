--------------------------- MODULE AvrInterrupts ---------------------------
(***************************************************************************)
(* The interrupt table of the simulated AVR core, sim_interrupts.c, with the *)
(* instructions of sim_core.c that meet it.                                 *)
(*                                                                         *)
(* The part of avr_t that takes part is a record:                           *)
(*   state      cpu_Running, cpu_Sleeping, cpu_Done or cpu_Crashed          *)
(*   I          the global interrupt flag of SREG                           *)
(*   wait       interrupt_state: negative while an enabled I is latent, 1   *)
(*              when there is an entry to look at                           *)
(*   fifo       the pending fifo, oldest first                              *)
(*   pending, enabled, raised   vectors with that bit set                   *)
(*   lost       history: vectors marked pending while the fifo was full     *)
(* The stack of running vectors only feeds trace signals and is left out.    *)
(***************************************************************************)
EXTENDS Integers, SequencesExt

CONSTANTS
  Vectors,     \* numbers of the registered vectors
  OneShot,     \* those whose service signal also clears their enable bit
  Sticky,      \* those whose flag only the firmware clears (raise_sticky)
  FifoSize     \* avr_int_pending_fifo_size: 64, one slot of which stays free

ASSUME InterruptAssumption ==
  /\ Vectors \subseteq Nat \ {0}
  /\ OneShot \subseteq Vectors /\ Sticky \subseteq Vectors /\ OneShot \cap Sticky = {}
  /\ FifoSize \in Nat \ {0, 1}

States == {"Running", "Sleeping", "Done", "Crashed"}

Cores ==
  [state : States, I : BOOLEAN, wait : -2..1,
   fifo : Seq(Vectors), pending : SUBSET Vectors, enabled : SUBSET Vectors,
   raised : SUBSET Vectors, lost : SUBSET Vectors]

\* What avr_reset makes of it: avr_interrupt_reset, and registers cleared but for the
\* flags that devices then raise.
ResetCore(flags) ==
  [state |-> "Running", I |-> FALSE, wait |-> 0, fifo |-> <<>>, pending |-> {},
   enabled |-> {}, raised |-> flags, lost |-> {}]

FifoFull(c) == Len(c.fifo) = FifoSize - 1
HasPending(c) == c.fifo # <<>>

-----------------------------------------------------------------------------
\* avr_raise_interrupt: nothing for a vector that is pending; a disabled one only
\* has its flag raised; an enabled one is queued and wakes the core.  A mutated
\* form does not wake it.
RaiseAsleep(c, v) ==
  IF v \in c.pending THEN c
  ELSE IF v \notin c.enabled THEN [c EXCEPT !.raised = @ \cup {v}]
  ELSE [c EXCEPT !.raised = @ \cup {v}, !.pending = @ \cup {v},
                 !.fifo = IF FifoFull(c) THEN @ ELSE Append(@, v),
                 !.lost = IF FifoFull(c) THEN @ \cup {v} ELSE @,
                 !.wait = IF c.I /\ @ = 0 THEN 1 ELSE @]
Raise(c, v) ==
  IF v \in c.pending THEN c
  ELSE IF v \notin c.enabled THEN [c EXCEPT !.raised = @ \cup {v}]
  ELSE [c EXCEPT !.raised = @ \cup {v}, !.pending = @ \cup {v},
                 !.fifo = IF FifoFull(c) THEN @ ELSE Append(@, v),
                 !.lost = IF FifoFull(c) THEN @ \cup {v} ELSE @,
                 !.wait = IF c.I /\ @ = 0 THEN 1 ELSE @,
                 !.state = IF @ = "Sleeping" THEN "Running" ELSE @]

\* avr_clear_interrupt, with what avr_watchdog_irq_notify adds.  The fifo keeps its
\* entry, and takes a second one if the vector is raised again.
ClearInterrupt(c, v) ==
  [c EXCEPT !.pending = @ \ {v}, !.lost = @ \ {v},
            !.raised = IF v \in Sticky THEN @ ELSE @ \ {v},
            !.enabled = IF v \in OneShot \cap c.raised THEN @ \ {v} ELSE @]

\* avr_sreg_set of the flag I; a mutated form counts from where it is.
SetCounted(c, on) == [c EXCEPT !.I = on, !.wait = IF on THEN @ - 2 ELSE 0]
SetI(c, on) ==
  [c EXCEPT !.I = on, !.wait = IF ~on THEN 0 ELSE IF c.I THEN @ ELSE -2]

\* The sleep instruction.
Sleep(c) == IF HasPending(c) /\ c.I THEN c ELSE [c EXCEPT !.state = "Sleeping"]

-----------------------------------------------------------------------------
\* The slot of the entry that is taken: the first one with the lowest vector.
Lowest(fifo) ==
  CHOOSE k \in DOMAIN fifo : \A j \in DOMAIN fifo :
    fifo[k] <= fifo[j] /\ (fifo[k] = fifo[j] => k <= j)

\* The fifo without slot k: the front moves there.  C leaves open whether the index
\* of the slot is computed before the front is read; gcc computes it before, and
\* the mutated form after.
TakenLate(fifo, k) ==
  Tail(IF k = Len(fifo) THEN fifo ELSE [fifo EXCEPT ![k + 1] = fifo[1]])
Taken(fifo, k) == Tail([fifo EXCEPT ![k] = fifo[1]])

\* avr_service_interrupts: count the latency, or take the entry of the lowest
\* vector: drop it when it is masked or was cleared, else call it.
Service(c) ==
  IF ~c.I \/ c.wait = 0 THEN c
  ELSE IF c.wait < 0
    THEN [c EXCEPT !.wait = IF @ + 1 = 0 /\ HasPending(c) THEN 1 ELSE @ + 1]
  ELSE
    LET k == Lowest(c.fifo)
        v == c.fifo[k]
        taken == [c EXCEPT !.fifo = Taken(@, k)]
    IN  IF v \notin c.enabled \cap c.pending
          THEN [taken EXCEPT !.pending = @ \ {v}, !.lost = @ \ {v},
                             !.wait = IF HasPending(taken) THEN 1 ELSE 0]
          ELSE ClearInterrupt(SetI(taken, FALSE), v)

-----------------------------------------------------------------------------
\* The core never stops looking while there is something to look at: an entry
\* in the fifo is met by interrupt_state as soon as I is set, interrupt_state
\* never asks for an entry that is not there, and the core does not sleep on one.
TableAwake(c) ==
  /\ c.wait # 0 => c.I
  /\ c.wait = 1 => HasPending(c)
  /\ c.I /\ HasPending(c) => c.wait # 0 /\ c.state # "Sleeping"

\* A pending vector is in the fifo, but for those the full fifo turned away.
TableQueued(c) == c.pending \subseteq ToSet(c.fifo) \cup c.lost

\* The fifo keeps one slot free.
TableFits(c) == Len(c.fifo) < FifoSize
=============================================================================
