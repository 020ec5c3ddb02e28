----------------------------- MODULE AvrProofs -----------------------------
(***************************************************************************)
(* Proofs about Avr: whatever the firmware, the devices and the circuit do,  *)
(* no interrupt gets stuck in the table, for every set of vectors, every     *)
(* size of the fifo and every timing.                                       *)
(*                                                                         *)
(* That invariant is about the record `core` alone.  Every operation of the  *)
(* table keeps it (the lemmas), and every action makes the next core out of  *)
(* those operations and of writes to the enable bits and flags.  The second  *)
(* part is about the devices and the timers they wait for.                  *)
(***************************************************************************)
EXTENDS Avr, FiniteSetTheorems, SequenceTheorems, WellFoundedInduction, TLAPS

Good(c) == c \in Cores /\ TableFits(c) /\ TableAwake(c) /\ TableQueued(c)

-----------------------------------------------------------------------------
(* The operations of the table.                                             *)

LEMMA GoodReset == Good(AfterReset)
  <1>1. UDRE \in Vectors
    BY AvrAssumption
  <1>2. <<>> \in Seq(Vectors) /\ Len(<<>>) = 0
    OBVIOUS
  <1> QED
    BY <1>1, <1>2, InterruptAssumption
       DEF AfterReset, ResetCore, Good, Cores, States, TableFits, TableAwake, TableQueued, HasPending

\* An enabled vector is queued unless the fifo is full, and wakes the core.
LEMMA GoodRaise ==
  ASSUME NEW c, Good(c), NEW v \in Vectors
  PROVE  Good(Raise(c, v))
  <1>1. CASE v \in c.pending
    BY <1>1 DEF Raise
  <1>2. CASE v \notin c.pending /\ v \notin c.enabled
    BY <1>2 DEF Raise, Good, Cores, TableFits, TableAwake, TableQueued, HasPending
  <1>3. CASE v \notin c.pending /\ v \in c.enabled
    <2>1. CASE FifoFull(c)
      <3> DEFINE d == [c EXCEPT !.raised = @ \cup {v}, !.pending = @ \cup {v},
                                !.lost = @ \cup {v},
                                !.wait = IF c.I /\ @ = 0 THEN 1 ELSE @,
                                !.state = IF @ = "Sleeping" THEN "Running" ELSE @]
      <3>1. Raise(c, v) = d
        BY <1>3, <2>1 DEF Raise, Good, Cores
      <3>2. c.fifo # <<>>
        BY <2>1, InterruptAssumption DEF FifoFull
      <3>3. d \in Cores /\ TableFits(d)
        <4>1. /\ c.raised \cup {v} \in SUBSET Vectors /\ c.pending \cup {v} \in SUBSET Vectors
              /\ c.lost \cup {v} \in SUBSET Vectors
              /\ (IF c.I /\ c.wait = 0 THEN 1 ELSE c.wait) \in -2..1
              /\ (IF c.state = "Sleeping" THEN "Running" ELSE c.state) \in States
          BY DEF Good, Cores, States
        <4>2. d \in Cores
          BY <4>1 DEF Good, Cores
        <4>3. d.fifo = c.fifo
          BY DEF Good, Cores
        <4> QED BY <4>2, <4>3 DEF Good, TableFits
      <3>4. d.I = c.I /\ d.fifo = c.fifo /\ d.wait = (IF c.I /\ c.wait = 0 THEN 1 ELSE c.wait)
            /\ d.state # "Sleeping"
        BY DEF Good, Cores
      <3>5. TableAwake(d)
        BY <3>2, <3>4 DEF Good, TableAwake, HasPending
      <3>6. TableQueued(d)
        BY DEF Good, Cores, TableQueued
      <3> QED BY <3>1, <3>3, <3>5, <3>6 DEF Good
    <2>2. CASE ~FifoFull(c)
      <3> DEFINE f == Append(c.fifo, v)
                 d == [c EXCEPT !.raised = @ \cup {v}, !.pending = @ \cup {v}, !.fifo = f,
                                !.wait = IF c.I /\ @ = 0 THEN 1 ELSE @,
                                !.state = IF @ = "Sleeping" THEN "Running" ELSE @]
      <3>1. Raise(c, v) = d
        BY <1>3, <2>2 DEF Raise, Good, Cores
      <3>2. f \in Seq(Vectors) /\ f # <<>> /\ Len(f) < FifoSize
        BY <2>2, InterruptAssumption DEF Good, Cores, TableFits, FifoFull
      <3>3. ToSet(f) = ToSet(c.fifo) \cup {v}
        <4>1. Len(f) = Len(c.fifo) + 1 /\ f[Len(f)] = v
              /\ \A k \in 1..Len(c.fifo) : f[k] = c.fifo[k]
          BY DEF Good, Cores
        <4>2. DOMAIN f = 1..(Len(c.fifo) + 1) /\ DOMAIN c.fifo = 1..Len(c.fifo)
              /\ Len(c.fifo) \in Nat
          BY <3>2, <4>1 DEF Good, Cores
        <4> QED BY <4>1, <4>2 DEF ToSet
      <3>4. d \in Cores /\ TableFits(d)
        <4>1. /\ c.raised \cup {v} \in SUBSET Vectors /\ c.pending \cup {v} \in SUBSET Vectors
              /\ (IF c.I /\ c.wait = 0 THEN 1 ELSE c.wait) \in -2..1
              /\ (IF c.state = "Sleeping" THEN "Running" ELSE c.state) \in States
          BY DEF Good, Cores, States
        <4>2. d \in Cores
          BY <3>2, <4>1 DEF Good, Cores
        <4>3. d.fifo = f
          BY DEF Good, Cores
        <4> QED BY <3>2, <4>2, <4>3 DEF TableFits
      <3>5. TableAwake(d)
        <4>1. d.I = c.I /\ d.fifo = f /\ d.wait = (IF c.I /\ c.wait = 0 THEN 1 ELSE c.wait)
              /\ d.state # "Sleeping"
          BY DEF Good, Cores
        <4> QED BY <3>2, <4>1 DEF Good, TableAwake, HasPending
      <3>6. TableQueued(d)
        BY <3>3 DEF Good, Cores, TableQueued
      <3> QED BY <3>1, <3>4, <3>5, <3>6 DEF Good
    <2> QED BY <2>1, <2>2
  <1> QED BY <1>1, <1>2, <1>3

LEMMA GoodClear ==
  ASSUME NEW c, Good(c), NEW v \in Vectors
  PROVE  Good(ClearInterrupt(c, v))
  BY DEF ClearInterrupt, Good, Cores, TableFits, TableAwake, TableQueued, HasPending

LEMMA GoodSetI ==
  ASSUME NEW c, Good(c), NEW on \in BOOLEAN, on => c.state # "Sleeping"
  PROVE  Good(SetI(c, on))
  <1> DEFINE w == IF ~on THEN 0 ELSE IF c.I THEN c.wait ELSE -2
             d == [c EXCEPT !.I = on, !.wait = w]
  <1>1. SetI(c, on) = d
    BY DEF SetI, Good, Cores
  <1>2. w \in -2..1
    BY DEF Good, Cores
  <1>3. d \in Cores /\ d.fifo = c.fifo /\ d.I = on /\ d.wait = w /\ d.state = c.state
        /\ d.pending = c.pending /\ d.lost = c.lost
    BY <1>2 DEF Good, Cores
  <1> QED
    BY <1>1, <1>3 DEF Good, TableFits, TableAwake, TableQueued, HasPending

LEMMA GoodSleep ==
  ASSUME NEW c, Good(c)
  PROVE  Good(Sleep(c))
  BY DEF Sleep, Good, Cores, States, TableFits, TableAwake, TableQueued, HasPending

\* Writes to the enable bits and the flags.
LEMMA GoodBits ==
  ASSUME NEW c, Good(c), NEW e \in SUBSET Vectors, NEW r \in SUBSET Vectors
  PROVE  Good([c EXCEPT !.enabled = e]) /\ Good([c EXCEPT !.raised = r])
         /\ Good([c EXCEPT !.enabled = e, !.raised = r])
  BY DEF Good, Cores, TableFits, TableAwake, TableQueued, HasPending

\* The core stops.
LEMMA GoodStop ==
  ASSUME NEW c, Good(c), NEW s \in {"Done", "Crashed"}
  PROVE  Good([c EXCEPT !.state = s])
  BY DEF Good, Cores, States, TableFits, TableAwake, TableQueued, HasPending

-----------------------------------------------------------------------------
(* avr_service_interrupts.                                                  *)

LEMMA LeastNat ==
  ASSUME NEW T, T \subseteq Nat, T # {}
  PROVE  \E x \in T : \A y \in T : x <= y
  <1> DEFINE R == OpToRel(<, Nat)
  <1>1. IsWellFoundedOn(R, Nat)
    BY NatLessThanWellFounded
  <1> HIDE DEF R
  <1>2. PICK x \in T : \A y \in T : <<y, x>> \notin R
    BY <1>1, WFMin
  <1>3. \A y \in T : x <= y
    <2> SUFFICES ASSUME NEW y \in T, y < x PROVE FALSE
      OBVIOUS
    <2>1. <<y, x>> \in R
      BY DEF R, OpToRel
    <2> QED BY <1>2, <2>1
  <1> QED BY <1>3

\* There is a lowest vector in a fifo that is not empty.
LEMMA LowestInFifo ==
  ASSUME NEW f \in Seq(Vectors), f # <<>>
  PROVE  Lowest(f) \in DOMAIN f
  <1>1. DOMAIN f = 1..Len(f) /\ Len(f) \in Nat /\ DOMAIN f # {}
    OBVIOUS
  <1>2. \A k \in DOMAIN f : f[k] \in Nat
    <2>1. \A k \in DOMAIN f : f[k] \in Vectors
      OBVIOUS
    <2> QED BY <2>1, InterruptAssumption
  <1> DEFINE values == {f[k] : k \in DOMAIN f}
  <1>3. PICK m \in values : \A y \in values : m <= y
    <2>1. values \subseteq Nat /\ values # {}
      BY <1>1, <1>2
    <2> HIDE DEF values
    <2> QED BY <2>1, LeastNat
  <1> DEFINE places == {k \in DOMAIN f : f[k] = m}
  <1>4. PICK k \in places : \A j \in places : k <= j
    <2>1. places \subseteq Nat /\ places # {}
      BY <1>1
    <2> HIDE DEF places
    <2> QED BY <2>1, LeastNat
  <1>5. \A j \in DOMAIN f : f[k] <= f[j] /\ (f[k] = f[j] => k <= j)
    BY <1>3, <1>4
  <1> QED BY <1>4, <1>5 DEF Lowest

\* Moving the front into the slot of the entry that is taken loses no other entry.
LEMMA TakenKeeps ==
  ASSUME NEW f \in Seq(Vectors), NEW k \in DOMAIN f
  PROVE  /\ Taken(f, k) \in Seq(Vectors)
         /\ Len(Taken(f, k)) = Len(f) - 1
         /\ ToSet(f) \subseteq ToSet(Taken(f, k)) \cup {f[k]}
  <1> DEFINE g == [f EXCEPT ![k] = f[1]]
             t == Tail(g)
  <1>1. DOMAIN f = 1..Len(f) /\ Len(f) \in Nat \ {0}
    OBVIOUS
  <1>2. g \in Seq(Vectors) /\ Len(g) = Len(f) /\ g # <<>>
        /\ \A j \in 1..Len(f) : g[j] = IF j = k THEN f[1] ELSE f[j]
    BY <1>1
  <1> HIDE DEF g
  <1>3. t \in Seq(Vectors) /\ Len(t) = Len(f) - 1
        /\ \A j \in 1..(Len(f) - 1) : t[j] = g[j + 1]
    BY <1>1, <1>2
  <1> HIDE DEF t
  <1>4. ASSUME NEW j \in DOMAIN f, f[j] # f[k]
        PROVE  f[j] \in ToSet(t)
    <2>1. DOMAIN t = 1..(Len(f) - 1)
      BY <1>1, <1>3
    <2>2. CASE j = 1
      <3>1. k - 1 \in DOMAIN t /\ t[k - 1] = f[1]
        BY <1>1, <1>2, <1>3, <1>4, <2>1, <2>2
      <3> QED BY <2>2, <3>1 DEF ToSet
    <2>3. CASE j # 1
      <3>1. j - 1 \in DOMAIN t /\ t[j - 1] = f[j]
        BY <1>1, <1>2, <1>3, <1>4, <2>1, <2>3
      <3> QED BY <3>1 DEF ToSet
    <2> QED BY <2>2, <2>3
  <1>5. Taken(f, k) = t
    BY DEF Taken, t, g
  <1> QED BY <1>3, <1>4, <1>5 DEF ToSet

LEMMA GoodService ==
  ASSUME NEW c, Good(c)
  PROVE  Good(Service(c))
  <1>1. CASE ~c.I \/ c.wait = 0
    BY <1>1 DEF Service
  <1>2. CASE c.I /\ c.wait < 0
    <2> DEFINE w == IF c.wait + 1 = 0 /\ HasPending(c) THEN 1 ELSE c.wait + 1
               d == [c EXCEPT !.wait = w]
    <2>1. c.wait \in -2..1 /\ Service(c) = d
      BY <1>2 DEF Service, Good, Cores
    <2>2. w \in -2..1
      BY <1>2, <2>1
    <2>3. d \in Cores /\ d.fifo = c.fifo /\ d.I = c.I /\ d.wait = w /\ d.state = c.state
          /\ d.pending = c.pending /\ d.lost = c.lost
      BY <2>2 DEF Good, Cores
    <2> QED
      BY <1>2, <2>1, <2>3 DEF Good, TableFits, TableAwake, TableQueued, HasPending
  <1>3. CASE c.I /\ c.wait > 0
    <2> DEFINE k == Lowest(c.fifo)
               v == c.fifo[k]
               f == Taken(c.fifo, k)
               taken == [c EXCEPT !.fifo = f]
               w == IF f # <<>> THEN 1 ELSE 0
               dropped == [taken EXCEPT !.pending = @ \ {v}, !.lost = @ \ {v}, !.wait = w]
               served == ClearInterrupt(SetI(taken, FALSE), v)
    <2>1. c.wait = 1 /\ c.fifo \in Seq(Vectors) /\ c.fifo # <<>> /\ c.state # "Sleeping"
      BY <1>3 DEF Good, Cores, TableAwake, HasPending
    <2>2. k \in DOMAIN c.fifo /\ v \in Vectors
      BY <2>1, LowestInFifo
    <2>3. f \in Seq(Vectors) /\ Len(f) < FifoSize /\ ToSet(c.fifo) \subseteq ToSet(f) \cup {v}
      BY <2>1, <2>2, TakenKeeps, InterruptAssumption DEF Good, TableFits
    <2>4. Service(c) = IF v \notin c.enabled \cap c.pending THEN dropped ELSE served
      BY <1>3, <2>1 DEF Service, HasPending, Good, Cores
    <2> HIDE DEF k, v, f, w
    <2>5. Good(dropped)
      <3>1. dropped \in Cores /\ dropped.fifo = f /\ dropped.I = c.I /\ dropped.wait = w
            /\ dropped.state = c.state /\ dropped.pending = c.pending \ {v}
            /\ dropped.lost = c.lost \ {v}
        <4>1. w \in -2..1 /\ c.pending \ {v} \in SUBSET Vectors /\ c.lost \ {v} \in SUBSET Vectors
          BY DEF Good, Cores, w
        <4>2. taken \in Cores /\ taken.pending = c.pending /\ taken.lost = c.lost
              /\ taken.fifo = f /\ taken.I = c.I /\ taken.state = c.state
          BY <2>3 DEF Good, Cores
        <4> HIDE DEF taken
        <4> QED BY <4>1, <4>2 DEF Cores
      <3> HIDE DEF dropped
      <3> QED
        BY <1>3, <2>1, <2>3, <3>1
           DEF Good, TableFits, TableAwake, TableQueued, HasPending, w
    <2>6. Good(served)
      <3>1. served = [taken EXCEPT !.I = FALSE, !.wait = 0, !.pending = @ \ {v},
                        !.lost = @ \ {v}, !.raised = IF v \in Sticky THEN @ ELSE @ \ {v},
                        !.enabled = IF v \in OneShot \cap c.raised THEN @ \ {v} ELSE @]
        BY <2>2, <2>3 DEF Good, Cores, ClearInterrupt, SetI
      <3>2. served \in Cores /\ served.fifo = f /\ served.I = FALSE /\ served.wait = 0
            /\ served.pending = c.pending \ {v} /\ served.lost = c.lost \ {v}
        <4> DEFINE raised == IF v \in Sticky THEN taken.raised ELSE taken.raised \ {v}
                   enabled == IF v \in OneShot \cap c.raised THEN taken.enabled \ {v}
                              ELSE taken.enabled
        <4>1. taken \in Cores /\ taken.pending = c.pending /\ taken.lost = c.lost
              /\ taken.fifo = f
          BY <2>3 DEF Good, Cores
        <4>2. served = [taken EXCEPT !.I = FALSE, !.wait = 0, !.pending = @ \ {v},
                          !.lost = @ \ {v}, !.raised = raised, !.enabled = enabled]
          BY <3>1
        <4> HIDE DEF taken, served
        <4>3. raised \in SUBSET Vectors /\ enabled \in SUBSET Vectors
              /\ taken.pending \ {v} \in SUBSET Vectors /\ taken.lost \ {v} \in SUBSET Vectors
              /\ 0 \in -2..1
          BY <4>1 DEF Cores
        <4> HIDE DEF raised, enabled
        <4> QED BY <4>1, <4>2, <4>3 DEF Cores
      <3> HIDE DEF served
      <3> QED
        BY <2>3, <3>2 DEF Good, TableFits, TableAwake, TableQueued, HasPending
    <2> QED BY <2>4, <2>5, <2>6
  <1> QED BY <1>1, <1>2, <1>3 DEF Good, Cores

-----------------------------------------------------------------------------
(* The devices.                                                             *)

LEMMA VectorsOfDevices ==
  /\ INT0 \in Vectors /\ WDT \in Vectors /\ UDRE \in Vectors /\ ADC \in Vectors
  /\ \A on : \A S \in SUBSET Vectors, v \in Vectors : Set(S, v, on) \in SUBSET Vectors
  BY AvrAssumption DEF Set

LEMMA BitsOfCore ==
  ASSUME NEW c, Good(c)
  PROVE  c.enabled \in SUBSET Vectors /\ c.raised \in SUBSET Vectors
  BY DEF Good, Cores

LEMMA GoodRaiseIfNew ==
  ASSUME NEW c, Good(c)
  PROVE  Good(RaiseIfNew(c))
  BY GoodRaise, VectorsOfDevices DEF RaiseIfNew

LEMMA GoodFire ==
  ASSUME NEW c, NEW e, NEW n, Good(c), FireAndStartPoll(c, e, n)
  PROVE  Good(core')
  BY GoodRaiseIfNew DEF FireAndStartPoll

LEMMA GoodPinChange ==
  ASSUME Good(core), NEW level, NEW n, PinChange(level, n)
  PROVE  Good(core')
  BY GoodFire, GoodRaise, VectorsOfDevices DEF PinChange

LEMMA GoodExt ==
  ASSUME Good(core), NEW n, ExtInstruction(n)
  PROVE  Good(core')
  <1>1. ASSUME NEW on, WriteMask(on, n) PROVE Good(core')
    <2> DEFINE c == [core EXCEPT !.enabled = Set(@, INT0, on)]
    <2>1. Good(c)
      BY BitsOfCore, GoodBits, VectorsOfDevices
    <2> QED BY <1>1, <2>1, GoodFire DEF WriteMask
  <1>2. ASSUME NEW mode, WriteMode(mode, n) PROVE Good(core')
    BY <1>2, GoodFire DEF WriteMode
  <1>3. ASSUME WriteFlag(n) PROVE Good(core')
    <2>1. core.raised \ {INT0} \in SUBSET Vectors
      BY BitsOfCore
    <2> QED BY <1>3, <2>1, BitsOfCore, GoodBits DEF WriteFlag
  <1> QED BY <1>1, <1>2, <1>3, GoodPinChange DEF ExtInstruction

LEMMA GoodWatchdog ==
  ASSUME Good(core), NEW n, WatchdogInstruction(n)
  PROVE  Good(core')
  <1>1. ASSUME NEW v, WriteWatchdog(v, n) PROVE Good(core')
    <2> DEFINE c == [core EXCEPT !.enabled = Set(@, WDT, v.wdie)]
               r == Set(c.raised, WDT, v.flag)
    <2>1. Good(c)
      BY BitsOfCore, GoodBits, VectorsOfDevices
    <2>2. core' = [c EXCEPT !.raised = r] \/ core' = core \/ core' = c
      BY <1>1 DEF WriteWatchdog
    <2> HIDE DEF c
    <2>3. r \in SUBSET Vectors
      BY <2>1, BitsOfCore, VectorsOfDevices
    <2> HIDE DEF r
    <2>4. Good([c EXCEPT !.raised = r])
      BY <2>1, <2>3, BitsOfCore, GoodBits
    <2> QED BY <2>1, <2>2, <2>4
  <1> QED BY <1>1 DEF WatchdogInstruction, ClearResetFlag, Wdr

LEMMA GoodAdc ==
  ASSUME Good(core), NEW n, AdcInstruction(n)
  PROVE  Good(core')
  <1>1. PICK v : WriteAdc(v, n)
    BY DEF AdcInstruction
  <1>2. Set(core.enabled, ADC, v.adie) \in SUBSET Vectors
        /\ Set(core.raised, ADC, v.flag) \in SUBSET Vectors
    BY BitsOfCore, VectorsOfDevices
  <1> QED BY <1>1, <1>2, GoodBits DEF WriteAdc

LEMMA GoodUartClear ==
  ASSUME NEW c, Good(c)
  PROVE  Good(UartClear(c))
  <1>1. Good(ClearInterrupt(c, UDRE))
    BY GoodClear, VectorsOfDevices
  <1>2. ClearInterrupt(c, UDRE).raised \ {UDRE} \in SUBSET Vectors
    BY <1>1, BitsOfCore
  <1>3. Good([ClearInterrupt(c, UDRE) EXCEPT !.raised = @ \ {UDRE}])
    BY <1>1, <1>2, BitsOfCore, GoodBits
  <1> QED BY <1>3 DEF UartClear

LEMMA GoodUart ==
  ASSUME Good(core), NEW n, UartInstruction(n)
  PROVE  Good(core')
  <1>1. ASSUME NEW on, WriteUartMask(on, n) PROVE Good(core')
    <2> DEFINE c == [core EXCEPT !.enabled = Set(@, UDRE, on)]
    <2>1. Good(c)
      BY BitsOfCore, GoodBits, VectorsOfDevices
    <2> QED BY <1>1, <2>1, GoodRaise, VectorsOfDevices DEF WriteUartMask
  <1> QED BY <1>1, GoodUartClear DEF UartInstruction, WriteByte

-----------------------------------------------------------------------------
(* The steps.                                                               *)

LEMMA GoodInstruction ==
  ASSUME Good(core), core.state = "Running", NEW n, Instruction(n)
  PROVE  Good(core')
  <1>1. CASE Nop(n)
    BY <1>1 DEF Nop
  <1>2. CASE CoreInstruction(n)
    BY <1>2, GoodSetI, GoodSleep, GoodStop DEF CoreInstruction
  <1> QED
    BY <1>1, <1>2, GoodExt, GoodWatchdog, GoodAdc, GoodUart DEF Instruction

LEMMA GoodTimer ==
  ASSUME Good(core), TimerExpires
  PROVE  Good(core')
  <1>1. CASE PollExpires
    BY <1>1, GoodRaiseIfNew DEF PollExpires
  <1>2. CASE WatchdogExpires
    BY <1>2, GoodRaise, VectorsOfDevices DEF WatchdogExpires
  <1>3. CASE ChangeExpires
    BY <1>3 DEF ChangeExpires
  <1>4. CASE ConversionEnds
    BY <1>4, GoodRaise, VectorsOfDevices DEF ConversionEnds
  <1>5. CASE ByteSent
    BY <1>5, GoodRaise, GoodUartClear, VectorsOfDevices DEF ByteSent
  <1> QED
    BY <1>1, <1>2, <1>3, <1>4, <1>5 DEF TimerExpires

LEMMA GoodInit == Init => Good(core)
  BY GoodReset DEF Init

LEMMA GoodNext == Good(core) /\ [Next]_vars => Good(core')
  <1> SUFFICES ASSUME Good(core), [Next]_vars PROVE Good(core')
    OBVIOUS
  <1>1. CASE RunOne
    BY <1>1, GoodInstruction DEF RunOne
  <1>2. CASE RunNone
    BY <1>2 DEF RunNone
  <1>3. CASE TimerExpires
    BY <1>3, GoodTimer
  <1>4. CASE EndOfRun
    BY <1>4, GoodStop, GoodService DEF EndOfRun
  <1>5. CASE WatchdogReset \/ McuReset
    BY <1>5, GoodReset DEF WatchdogReset, McuReset, Reset
  <1>6. CASE Clock
    BY <1>6 DEF Clock
  <1>7. CASE Event
    BY <1>7, GoodPinChange DEF Event
  <1>8. CASE UNCHANGED vars
    BY <1>8 DEF vars
  <1> QED
    BY <1>1, <1>2, <1>3, <1>4, <1>5, <1>6, <1>7, <1>8 DEF Next, Run

THEOREM GoodCore == Spec => []Good(core)
  <1>1. Init => Good(core)
    BY GoodInit
  <1>2. Good(core) /\ [Next]_vars => Good(core)'
    BY GoodNext
  <1> QED BY <1>1, <1>2, PTL DEF Spec

\* An interrupt is never stuck (sim_interrupts.c): while interrupts are on and the
\* fifo is not empty, interrupt_state makes the next run look at it, and the core is
\* not asleep; and interrupt_state never makes it take an entry from an empty fifo.
THEOREM InterruptsNeverStick == Spec => []NeverStuck
  <1>1. Good(core) => NeverStuck
    BY DEF Good, NeverStuck
  <1> QED BY <1>1, GoodCore, PTL

\* A vector marked pending can be found in the fifo, unless it came when the fifo
\* was full: clearing and raising it again, moving the front of the fifo into the
\* slot that is taken, and dropping masked entries never lose one.
THEOREM PendingVectorsAreQueued == Spec => []PendingIsQueued
  <1>1. Good(core) => PendingIsQueued
    BY DEF Good, PendingIsQueued
  <1> QED BY <1>1, GoodCore, PTL

\* The fifo keeps the slot free by which a full one is told from an empty one.
THEOREM FifoFits == Spec => [](core \in Cores /\ TableFits(core))
  <1>1. Good(core) => core \in Cores /\ TableFits(core)
    BY DEF Good
  <1> QED BY <1>1, GoodCore, PTL

-----------------------------------------------------------------------------
(* The cycle timers: the list stays in order whatever callbacks register and *)
(* cancel, and no device waits for a timer that is not there.                *)

Entry == [what : Timers, left : Int]
ListOK(q) == q \in Seq(Entry) /\ ListInOrder(q)

-----------------------------------------------------------------------------
(* The operations of the list.                                              *)

LEMMA ListParts ==
  ASSUME NEW q, ListOK(q)
  PROVE  /\ Len(q) \in Nat /\ DOMAIN q = 1..Len(q)
         /\ \A k \in 1..Len(q) : q[k] \in Entry /\ q[k].what \in Timers /\ q[k].left \in Int
<1>1. q \in Seq(Entry)
  BY DEF ListOK
<1>2. Len(q) \in Nat /\ DOMAIN q = 1..Len(q) /\ \A k \in 1..Len(q) : q[k] \in Entry
  BY <1>1, LenProperties, ElementOfSeq
<1>3. \A e \in Entry : e.what \in Timers /\ e.left \in Int
  BY DEF Entry
<1>4. QED BY <1>2, <1>3

LEMMA Joined ==
  ASSUME NEW S, NEW s \in Seq(S), NEW u \in Seq(S), NEW a, NEW b, Len(s) = a, Len(u) = b
  PROVE  /\ s \o u \in Seq(S) /\ Len(s \o u) = a + b
         /\ \A k \in 1..(a + b) : (s \o u)[k] = IF k <= a THEN s[k] ELSE u[k - a]
  BY ConcatProperties

\* A list that lacks a timer is shorter than the number of timers.
LEMMA RoomForOne ==
  ASSUME NEW q, ListOK(q), NEW t \in Timers, ~Armed(q, t)
  PROVE  Len(q) < 5
<1>1. SUFFICES ASSUME Len(q) >= 5 PROVE FALSE
  BY ListParts
<1>2. \A k \in {1, 2, 3, 4, 5} : k \in DOMAIN q /\ q[k].what \in Timers \ {t}
  BY <1>1, ListParts DEF Armed
<1>3. \A j, k \in {1, 2, 3, 4, 5} : j < k => q[j].what # q[k].what
  BY <1>2 DEF ListOK, ListInOrder
<1>4. /\ q[1].what # q[2].what /\ q[1].what # q[3].what /\ q[1].what # q[4].what
      /\ q[1].what # q[5].what /\ q[2].what # q[3].what /\ q[2].what # q[4].what
      /\ q[2].what # q[5].what /\ q[3].what # q[4].what /\ q[3].what # q[5].what
      /\ q[4].what # q[5].what
  BY <1>3
<1>5. QED BY <1>2, <1>4 DEF Timers

\* The entries that are not later than n are the first ones.
LEMMA PlaceOf ==
  ASSUME NEW q, ListOK(q), NEW n \in Int
  PROVE  LET p == Cardinality({k \in DOMAIN q : \A j \in 1..k : q[j].left <= n})
         IN  /\ p \in 0..Len(q)
             /\ \A k \in 1..p : q[k].left <= n
             /\ \A k \in (p + 1)..Len(q) : q[k].left > n
<1> DEFINE S == {k \in DOMAIN q : \A j \in 1..k : q[j].left <= n}
           T == {k \in 1..(Len(q) + 1) : k <= Len(q) => q[k].left > n}
<1>1. Len(q) \in Nat /\ DOMAIN q = 1..Len(q) /\ \A k \in 1..Len(q) : q[k].left \in Int
  BY ListParts
<1>2. T \subseteq Nat /\ Len(q) + 1 \in T
  BY <1>1
<1>3. PICK m \in T : \A k \in T : m <= k
  BY <1>2, LeastNat
<1>4. S = 1..(m - 1)
  <2>1. ASSUME NEW k \in 1..(m - 1) PROVE k \in S
    <3>1. \A j \in 1..k : j \in 1..(Len(q) + 1) /\ j \notin T
      BY <1>1, <1>3, <2>1
    <3>2. QED BY <1>1, <1>3, <2>1, <3>1
  <2>2. ASSUME NEW k \in S PROVE k \in 1..(m - 1)
    <3>1. k \in 1..Len(q) /\ \A j \in 1..k : q[j].left <= n
      BY <1>1
    <3>2. \A j \in 1..k : j # m
      BY <1>1, <1>3, <3>1
    <3>3. QED BY <1>1, <1>3, <3>1, <3>2
  <2>3. QED BY <2>1, <2>2
<1>5. Cardinality(S) = m - 1
  <2>1. 1 \in Int /\ m - 1 \in Int /\ m >= 1
    BY <1>1, <1>3
  <2>2. \A l \in Int : Cardinality(1..l) = IF 1 > l THEN 0 ELSE l - 1 + 1
    BY FS_Interval
  <2>3. Cardinality(1..(m - 1)) = m - 1
    BY <2>1, <2>2
  <2> HIDE DEF S
  <2>4. QED BY <1>4, <2>3
<1>6. \A k \in m..Len(q) : q[k].left > n
  <2>1. SUFFICES ASSUME NEW k \in m..Len(q) PROVE q[k].left > n
    OBVIOUS
  <2>2. m \in 1..Len(q) /\ q[m].left > n
    BY <1>1, <1>3, <2>1
  <2>3. m # k => q[m].left <= q[k].left
    BY <1>1, <1>3, <2>1, <2>2 DEF ListOK, ListInOrder
  <2>4. QED BY <1>1, <1>3, <2>1, <2>2, <2>3
<1>7. m - 1 \in 0..Len(q) /\ (m - 1) + 1 = m
  BY <1>1, <1>3
<1>8. \A k \in 1..(m - 1) : q[k].left <= n
  <2>1. SUFFICES ASSUME NEW k \in 1..(m - 1) PROVE q[k].left <= n
    OBVIOUS
  <2>2. k \in S /\ k \in 1..k
    BY <1>4, <2>1
  <2>3. QED BY <2>2
<1> HIDE DEF S, T
<1>9. /\ Cardinality(S) \in 0..Len(q)
      /\ \A k \in 1..Cardinality(S) : q[k].left <= n
      /\ \A k \in (Cardinality(S) + 1)..Len(q) : q[k].left > n
  BY <1>5, <1>6, <1>7, <1>8
<1>10. QED BY <1>9 DEF S

\* Inserting a timer that is not in the list.
LEMMA InsertKeeps ==
  ASSUME NEW q, ListOK(q), NEW t \in Timers, ~Armed(q, t), NEW n \in Int,
         NEW held \in {0, 1}
  PROVE  LET r == Insert(q, held, t, n)
         IN  ListOK(r) /\ \A s : Armed(r, s) <=> s = t \/ Armed(q, s)
<1> DEFINE p == Cardinality({k \in DOMAIN q : \A j \in 1..k : q[j].left <= n})
           e == [what |-> t, left |-> n]
           before == SubSeq(q, 1, p)
           after == SubSeq(q, p + 1, Len(q))
           r == before \o <<e>> \o after
<1>1. /\ Len(q) \in Nat /\ DOMAIN q = 1..Len(q) /\ q \in Seq(Entry)
      /\ \A k \in 1..Len(q) : q[k] \in Entry /\ q[k].what \in Timers /\ q[k].left \in Int
  BY ListParts DEF ListOK
<1>2. p \in 0..Len(q) /\ (\A k \in 1..p : q[k].left <= n)
      /\ \A k \in (p + 1)..Len(q) : q[k].left > n
  BY PlaceOf
<1>3. Insert(q, held, t, n) = r
  <2>1. ~(Len(q) + held >= MaxTimers)
    BY <1>1, RoomForOne, AvrAssumption, TimersAssumption
  <2>2. Insert(q, held, t, n) = InsertAt(q, p + 1, e)
    BY <2>1 DEF Insert
  <2>3. (p + 1) - 1 = p
    BY <1>2
  <2>4. QED BY <2>2, <2>3 DEF InsertAt
<1> HIDE DEF p
<1>4. e \in Entry
  BY DEF Entry
<1>5. before \in Seq(Entry) /\ Len(before) = p /\ \A k \in 1..p : before[k] = q[k]
  BY <1>1, <1>2, SubSeqProperties
<1>6. after \in Seq(Entry) /\ Len(after) = Len(q) - p
      /\ \A k \in 1..(Len(q) - p) : after[k] = q[p + k]
  <2>1. p + 1 \in Int /\ Len(q) \in Int /\ \A k \in (p + 1)..Len(q) : q[k] \in Entry
    BY <1>1, <1>2
  <2>2. /\ after \in Seq(Entry)
        /\ Len(after) = IF p + 1 <= Len(q) THEN Len(q) - (p + 1) + 1 ELSE 0
        /\ \A k \in 1..(Len(q) - (p + 1) + 1) : after[k] = q[(p + 1) + k - 1]
    BY <2>1, SubSeqProperties
  <2>3. \A k \in 1..(Len(q) - p) : k \in 1..(Len(q) - (p + 1) + 1) /\ (p + 1) + k - 1 = p + k
    BY <1>1, <1>2
  <2>4. p \in Int /\ Len(q) \in Int /\ p <= Len(q)
    BY <1>1, <1>2
  <2>5. Len(after) = Len(q) - p
    <3>1. CASE p = Len(q)
      BY <2>2, <2>4, <3>1
    <3>2. CASE p < Len(q)
      BY <2>2, <2>4, <3>2
    <3>3. QED BY <2>4, <3>1, <3>2
  <2>6. ASSUME NEW k \in 1..(Len(q) - p) PROVE after[k] = q[p + k]
    BY <2>2, <2>3
  <2>7. QED BY <2>2, <2>5, <2>6
<1> HIDE DEF before, after, e
<1>7. /\ r \in Seq(Entry) /\ Len(r) = Len(q) + 1
      /\ \A k \in 1..(Len(q) + 1) :
           r[k] = IF k <= p THEN q[k] ELSE IF k = p + 1 THEN e ELSE q[k - 1]
  <2>1. before \o <<e>> \in Seq(Entry) /\ Len(before \o <<e>>) = p + 1
        /\ \A k \in 1..(p + 1) : (before \o <<e>>)[k] = IF k <= p THEN q[k] ELSE e
    BY <1>2, <1>4, <1>5
  <2> DEFINE l == Len(q)
             sum == (p + 1) + (l - p)
  <2>2. /\ r \in Seq(Entry) /\ Len(r) = sum
        /\ \A k \in 1..sum :
             r[k] = IF k <= p + 1 THEN (before \o <<e>>)[k] ELSE after[k - (p + 1)]
    <3> DEFINE front == before \o <<e>>
    <3> HIDE DEF front
    <3>1. front \in Seq(Entry) /\ Len(front) = p + 1
      BY <2>1 DEF front
    <3>2. after \in Seq(Entry) /\ Len(after) = l - p
      BY <1>6
    <3>3. /\ front \o after \in Seq(Entry) /\ Len(front \o after) = (p + 1) + (l - p)
          /\ \A k \in 1..((p + 1) + (l - p)) :
               (front \o after)[k] = IF k <= p + 1 THEN front[k] ELSE after[k - (p + 1)]
      BY <3>1, <3>2, Joined
    <3>4. QED BY <3>3 DEF front
  <2>3. sum = l + 1 /\ l \in Nat
    BY <1>1, <1>2
  <2> HIDE DEF r, sum
  <2>4. ASSUME NEW k \in 1..(l + 1)
        PROVE r[k] = IF k <= p THEN q[k] ELSE IF k = p + 1 THEN e ELSE q[k - 1]
    <3>1. CASE k <= p + 1
      <4>1. k \in 1..(p + 1) /\ p \in Int
        BY <1>2, <2>3, <3>1
      <4>2. r[k] = (before \o <<e>>)[k]
        BY <2>2, <2>3, <3>1
      <4>3. (before \o <<e>>)[k] = IF k <= p THEN q[k] ELSE e
        BY <2>1, <4>1
      <4>4. CASE k <= p
        BY <4>1, <4>2, <4>3, <4>4
      <4>5. CASE k = p + 1
        BY <4>1, <4>2, <4>3, <4>5
      <4>6. QED BY <4>1, <4>4, <4>5
    <3>2. CASE k > p + 1
      <4>1. k - (p + 1) \in 1..(l - p) /\ p + (k - (p + 1)) = k - 1
        BY <1>2, <2>3, <3>2
      <4>2. r[k] = after[k - (p + 1)]
        BY <1>2, <2>2, <2>3, <3>2
      <4>3. after[k - (p + 1)] = q[k - 1]
        BY <1>6, <4>1
      <4>4. QED BY <1>2, <2>3, <3>2, <4>2, <4>3
    <3>3. QED BY <1>2, <2>3, <3>1, <3>2
  <2>5. QED BY <2>2, <2>3, <2>4
<1> HIDE DEF r
<1>8. DOMAIN r = 1..(Len(q) + 1)
  BY <1>7
<1>9. e.what = t /\ e.left = n
  BY DEF e
<1>10. ListInOrder(r)
  <2>1. SUFFICES ASSUME NEW j \in DOMAIN r, NEW k \in DOMAIN r, j < k
                 PROVE  r[j].left <= r[k].left /\ r[j].what # r[k].what
    BY DEF ListInOrder
  <2>2. \A i \in 1..Len(q) : q[i].what # t
    BY <1>1 DEF Armed
  <2>3. \A i, l \in 1..Len(q) : i < l => q[i].left <= q[l].left /\ q[i].what # q[l].what
    BY <1>1 DEF ListOK, ListInOrder
  <2>4. CASE k <= p
    BY <1>1, <1>2, <1>7, <1>8, <2>1, <2>3, <2>4
  <2>5. CASE k = p + 1
    BY <1>1, <1>2, <1>7, <1>8, <1>9, <2>1, <2>2, <2>5
  <2>6. CASE k > p + 1 /\ j <= p
    BY <1>1, <1>2, <1>7, <1>8, <2>1, <2>3, <2>6
  <2>7. CASE k > p + 1 /\ j = p + 1
    BY <1>1, <1>2, <1>7, <1>8, <1>9, <2>1, <2>2, <2>7
  <2>8. CASE k > p + 1 /\ j > p + 1
    <3>1. j - 1 \in 1..Len(q) /\ k - 1 \in 1..Len(q) /\ j - 1 < k - 1
      BY <1>1, <1>2, <1>8, <2>1, <2>8
    <3>2. r[j] = q[j - 1] /\ r[k] = q[k - 1]
      BY <1>1, <1>2, <1>7, <1>8, <2>1, <2>8
    <3>3. QED BY <2>3, <3>1, <3>2
  <2>9. QED BY <1>2, <1>8, <2>1, <2>4, <2>5, <2>6, <2>7, <2>8
<1>11. ASSUME NEW s PROVE Armed(r, s) <=> s = t \/ Armed(q, s)
  <2>1. ASSUME NEW k \in DOMAIN r, r[k].what = s PROVE s = t \/ Armed(q, s)
    <3>1. k \in 1..(Len(q) + 1) /\ p \in Int
      BY <1>2, <1>8
    <3>2. CASE k <= p
      <4>1. k \in DOMAIN q /\ r[k] = q[k]
        BY <1>1, <1>2, <1>7, <3>1, <3>2
      <4>2. QED BY <2>1, <4>1 DEF Armed
    <3>3. CASE k = p + 1
      BY <1>7, <1>9, <2>1, <3>1, <3>3
    <3>4. CASE k > p + 1
      <4>1. k - 1 \in DOMAIN q /\ r[k] = q[k - 1]
        BY <1>1, <1>2, <1>7, <3>1, <3>4
      <4>2. QED BY <2>1, <4>1 DEF Armed
    <3>5. QED BY <3>1, <3>2, <3>3, <3>4
  <2>2. ASSUME s = t PROVE Armed(r, s)
    <3>1. p + 1 \in 1..(Len(q) + 1) /\ r[p + 1] = e
      BY <1>1, <1>2, <1>7
    <3>2. QED BY <1>8, <1>9, <2>2, <3>1 DEF Armed
  <2>3. ASSUME NEW k \in DOMAIN q, q[k].what = s PROVE Armed(r, s)
    <3>1. CASE k <= p
      BY <1>1, <1>2, <1>7, <1>8, <2>3, <3>1 DEF Armed
    <3>2. CASE k > p
      <4>1. k + 1 \in DOMAIN r /\ r[k + 1] = q[k]
        BY <1>1, <1>2, <1>7, <1>8, <3>2
      <4>2. QED BY <2>3, <4>1 DEF Armed
    <3>3. QED BY <1>1, <1>2, <3>1, <3>2
  <2>4. QED BY <2>1, <2>2, <2>3 DEF Armed
<1>12. QED BY <1>3, <1>7, <1>10, <1>11 DEF ListOK

\* A list without one of its entries.
LEMMA WithoutEntry ==
  ASSUME NEW q, ListOK(q), NEW i \in DOMAIN q
  PROVE  LET r == RemoveAt(q, i)
         IN  ListOK(r) /\ \A s : Armed(r, s) <=> s # q[i].what /\ Armed(q, s)
<1> DEFINE before == SubSeq(q, 1, i - 1)
           after == SubSeq(q, i + 1, Len(q))
           r == before \o after
<1>1. /\ Len(q) \in Nat /\ DOMAIN q = 1..Len(q) /\ q \in Seq(Entry) /\ i \in 1..Len(q)
      /\ \A k \in 1..Len(q) : q[k] \in Entry
  BY ListParts DEF ListOK
<1>2. before \in Seq(Entry) /\ Len(before) = i - 1 /\ \A k \in 1..(i - 1) : before[k] = q[k]
  BY <1>1, SubSeqProperties
<1>3. after \in Seq(Entry) /\ Len(after) = Len(q) - i
      /\ \A k \in 1..(Len(q) - i) : after[k] = q[i + k]
  BY <1>1, SubSeqProperties
<1> HIDE DEF before, after
<1>4. /\ r \in Seq(Entry) /\ Len(r) = Len(q) - 1
      /\ \A k \in 1..(Len(q) - 1) : r[k] = IF k < i THEN q[k] ELSE q[k + 1]
  <2>1. /\ r \in Seq(Entry) /\ Len(r) = (i - 1) + (Len(q) - i)
        /\ \A k \in 1..((i - 1) + (Len(q) - i)) :
             r[k] = IF k <= i - 1 THEN before[k] ELSE after[k - (i - 1)]
    BY <1>2, <1>3, Joined
  <2> HIDE DEF r
  <2>2. ASSUME NEW k \in 1..(Len(q) - 1) PROVE r[k] = IF k < i THEN q[k] ELSE q[k + 1]
    <3>1. CASE k < i
      BY <1>1, <1>2, <2>1, <3>1
    <3>2. CASE k >= i
      <4>1. k - (i - 1) \in 1..(Len(q) - i) /\ i + (k - (i - 1)) = k + 1
        BY <1>1, <3>2
      <4>2. r[k] = after[k - (i - 1)]
        BY <1>1, <2>1, <3>2
      <4>3. after[k - (i - 1)] = q[k + 1]
        BY <1>3, <4>1
      <4>4. QED BY <1>1, <3>2, <4>2, <4>3
    <3>3. QED BY <1>1, <3>1, <3>2
  <2>3. QED BY <1>1, <2>1, <2>2
<1>5. RemoveAt(q, i) = r
  BY DEF RemoveAt, before, after
<1> HIDE DEF r
<1>6. DOMAIN r = 1..(Len(q) - 1)
  BY <1>1, <1>4
<1>7. \A j, k \in 1..Len(q) : j < k => q[j].left <= q[k].left /\ q[j].what # q[k].what
  BY <1>1 DEF ListOK, ListInOrder
<1>8. ListInOrder(r)
  BY <1>1, <1>4, <1>6, <1>7 DEF ListInOrder
<1>9. ASSUME NEW s PROVE Armed(r, s) <=> s # q[i].what /\ Armed(q, s)
  <2>1. ASSUME NEW k \in DOMAIN r, r[k].what = s PROVE s # q[i].what /\ Armed(q, s)
    <3>1. CASE k < i
      BY <1>1, <1>4, <1>6, <1>7, <2>1, <3>1 DEF Armed
    <3>2. CASE k >= i
      <4>1. r[k] = q[k + 1] /\ k + 1 \in 1..Len(q) /\ i < k + 1
        BY <1>1, <1>4, <1>6, <2>1, <3>2
      <4>2. QED BY <1>1, <1>7, <2>1, <4>1 DEF Armed
    <3>3. QED BY <1>1, <1>6, <3>1, <3>2
  <2>2. ASSUME NEW k \in DOMAIN q, q[k].what = s, s # q[i].what PROVE Armed(r, s)
    <3>1. CASE k < i
      BY <1>1, <1>4, <1>6, <2>2, <3>1 DEF Armed
    <3>2. CASE k > i
      <4>1. k - 1 \in DOMAIN r /\ r[k - 1] = q[k]
        BY <1>1, <1>4, <1>6, <3>2
      <4>2. QED BY <2>2, <4>1 DEF Armed
    <3>3. QED BY <1>1, <2>2, <3>1, <3>2
  <2>3. QED BY <2>1, <2>2 DEF Armed
<1>10. QED BY <1>4, <1>5, <1>8, <1>9 DEF ListOK

LEMMA CancelKeeps ==
  ASSUME NEW q, ListOK(q), NEW t
  PROVE  ListOK(Cancel(q, t)) /\ \A s : Armed(Cancel(q, t), s) <=> s # t /\ Armed(q, s)
<1>1. CASE ~Armed(q, t)
  BY <1>1 DEF Cancel
<1>2. CASE Armed(q, t)
  <2> DEFINE First(k) == q[k].what = t /\ \A j \in 1..(k - 1) : q[j].what # t
             i == CHOOSE k \in DOMAIN q : First(k)
  <2>1. PICK k \in DOMAIN q : q[k].what = t
    BY <1>2 DEF Armed
  <2>2. First(k)
    BY <2>1, ListParts DEF ListOK, ListInOrder
  <2>3. i \in DOMAIN q /\ First(i)
    BY <2>1, <2>2
  <2>4. Cancel(q, t) = RemoveAt(q, i)
    BY <1>2 DEF Cancel
  <2> HIDE DEF i
  <2>5. QED BY <2>3, <2>4, WithoutEntry
<1>3. QED BY <1>1, <1>2

\* avr_cycle_timer_register: the timer is in the list, whatever was there.
LEMMA RegisterKeeps ==
  ASSUME NEW q, ListOK(q), NEW t \in Timers, NEW n \in Int
  PROVE  /\ ListOK(Register(q, t, n))
         /\ \A s : Armed(Register(q, t, n), s) <=> s = t \/ Armed(q, s)
<1>1. ListOK(Cancel(q, t)) /\ ~Armed(Cancel(q, t), t)
  BY CancelKeeps
<1>2. Register(q, t, n) = Insert(Cancel(q, t), 0, t, n)
  BY DEF Register
<1>3. QED BY <1>1, <1>2, CancelKeeps, InsertKeeps

LEMMA AdvanceKeeps ==
  ASSUME NEW q, ListOK(q), NEW n \in Int
  PROVE  ListOK(Advance(q, n)) /\ \A s : Armed(Advance(q, n), s) <=> Armed(q, s)
<1> DEFINE r == Advance(q, n)
<1>1. /\ Len(q) \in Nat /\ DOMAIN q = 1..Len(q)
      /\ \A k \in 1..Len(q) : q[k] \in Entry /\ q[k].what \in Timers /\ q[k].left \in Int
  BY ListParts
<1>2. r = [k \in 1..Len(q) |-> [q[k] EXCEPT !.left = @ - n]]
  BY <1>1 DEF Advance
<1>3. \A k \in 1..Len(q) :
        r[k] \in Entry /\ r[k].what = q[k].what /\ r[k].left = q[k].left - n
  BY <1>1, <1>2 DEF Entry
<1>4. r \in Seq(Entry) /\ DOMAIN r = 1..Len(q)
  <2>1. r \in [1..Len(q) -> Entry]
    BY <1>2, <1>3
  <2> HIDE DEF r
  <2>2. r \in Seq(Entry)
    BY <1>1, <2>1, SeqDef
  <2>3. QED BY <2>1, <2>2
<1> HIDE DEF r
<1>5. ListInOrder(r)
  BY <1>1, <1>3, <1>4 DEF ListOK, ListInOrder
<1>6. \A s : Armed(r, s) <=> Armed(q, s)
  BY <1>1, <1>3, <1>4 DEF Armed
<1>7. QED BY <1>4, <1>5, <1>6 DEF ListOK, r

\* The head of the list is taken from it.
LEMMA TailKeeps ==
  ASSUME NEW q, ListOK(q), q # <<>>
  PROVE  /\ ListOK(Tail(q)) /\ Head(q).what \in Timers /\ Head(q).left \in Int
         /\ \A s : Armed(Tail(q), s) <=> s # Head(q).what /\ Armed(q, s)
<1>1. q \in Seq(Entry) /\ Len(q) \in Nat \ {0} /\ DOMAIN q = 1..Len(q)
  BY DEF ListOK
<1>2. /\ Tail(q) \in Seq(Entry) /\ Len(Tail(q)) = Len(q) - 1 /\ Head(q) = q[1]
      /\ \A k \in 1..(Len(q) - 1) : Tail(q)[k] = q[k + 1]
  BY <1>1
<1> DEFINE r == Tail(q)
<1>3. DOMAIN r = 1..(Len(q) - 1)
  BY <1>1, <1>2
<1>4. \A j, k \in 1..Len(q) : j < k => q[j].left <= q[k].left /\ q[j].what # q[k].what
  BY <1>1 DEF ListOK, ListInOrder
<1> HIDE DEF r
<1>5. ListInOrder(r)
  BY <1>1, <1>2, <1>3, <1>4 DEF ListInOrder, r
<1>6. ASSUME NEW s PROVE Armed(r, s) <=> s # q[1].what /\ Armed(q, s)
  <2>1. ASSUME NEW k \in DOMAIN r, r[k].what = s PROVE s # q[1].what /\ Armed(q, s)
    <3>1. r[k] = q[k + 1] /\ k + 1 \in 1..Len(q) /\ 1 < k + 1 /\ 1 \in 1..Len(q)
      BY <1>1, <1>2, <1>3 DEF r
    <3>2. QED BY <1>1, <1>4, <2>1, <3>1 DEF Armed
  <2>2. ASSUME NEW k \in DOMAIN q, q[k].what = s, s # q[1].what PROVE Armed(r, s)
    <3>1. k - 1 \in DOMAIN r /\ r[k - 1] = q[k]
      BY <1>1, <1>2, <1>3, <2>2 DEF r
    <3>2. QED BY <2>2, <3>1 DEF Armed
  <2>3. QED BY <2>1, <2>2 DEF Armed
<1>7. QED BY <1>1, <1>2, <1>5, <1>6, ListParts DEF ListOK, r

\* A callback that asks for a later cycle is in the list again.
LEMMA AgainKeeps ==
  ASSUME NEW q, ListOK(q), q # <<>>, NEW n \in Int, n > Head(q).left
  PROVE  ListOK(Again(q, n)) /\ \A s : Armed(Again(q, n), s) <=> Armed(q, s)
<1>1. ListOK(Tail(q)) /\ ~Armed(Tail(q), Head(q).what) /\ Head(q).what \in Timers
  BY TailKeeps
<1>2. Again(q, n) = Insert(Tail(q), 1, Head(q).what, n)
  BY TailKeeps DEF Again
<1>3. Armed(q, Head(q).what)
  BY DEF Armed, ListOK
<1>4. QED BY <1>1, <1>2, <1>3, TailKeeps, InsertKeeps

-----------------------------------------------------------------------------
(* The invariant, about whatever core, devices and list it is said of.       *)

Devices(e, w, a, t) ==
  /\ e \in [mode : Modes, pin : BOOLEAN, polling : BOOLEAN]
  /\ w \in [wde : BOOLEAN, wdce : BOOLEAN, wdrf : BOOLEAN, period : Periods, reset : BOOLEAN]
  /\ a \in [aden : BOOLEAN, adsc : BOOLEAN, adate : BOOLEAN, first : BOOLEAN]
  /\ t \in Nat

Kept(c, e, w, a, t, q) ==
  /\ ListOK(q)
  /\ Watching(c, w) => Armed(q, "watchdog") \/ w.reset
  /\ a.adsc => a.aden /\ Armed(q, "adc")
  /\ w.wdce => Armed(q, "wdce")
  /\ t > 0 => Armed(q, "txc")
  /\ Armed(q, "poll") => e.polling

Inv == Good(core) /\ Devices(ext, wdt, adc, tx) /\ Kept(core, ext, wdt, adc, tx, queue)

LEMMA Parameters ==
  /\ INT0 # WDT /\ ADC # WDT /\ UDRE # WDT /\ OneShot = {WDT}
  /\ Costs \subseteq Int /\ Periods \subseteq Int /\ Fastest \in Periods
  /\ \A p \in Periods : p > 0
  /\ NextCycles \in Nat \ {0} /\ ByteCycles \in Nat \ {0}
  /\ FirstCycles \in Int /\ ChangeCycles \in Int /\ Steps \in Int /\ SleepDefault \in Int
<1>1. ASSUME NEW a, NEW b, NEW c PROVE Cardinality({a, b, c}) # 4
  <2>1. Cardinality({a}) = 1 /\ IsFiniteSet({a})
    BY FS_Singleton
  <2>2. Cardinality({a} \cup {b}) \in 1..2 /\ IsFiniteSet({a} \cup {b})
    BY <2>1, FS_AddElement
  <2>3. Cardinality(({a} \cup {b}) \cup {c}) \in 1..3
    BY <2>2, FS_AddElement
  <2>4. ({a} \cup {b}) \cup {c} = {a, b, c}
    OBVIOUS
  <2>5. Cardinality({a, b, c}) \in 1..3
    BY <2>3, <2>4
  <2>6. QED BY <2>5
<1>2. Cardinality({INT0, WDT, UDRE, ADC}) = 4
  BY AvrAssumption
<1>3. INT0 # WDT
  <2>1. INT0 = WDT => {INT0, WDT, UDRE, ADC} = {WDT, UDRE, ADC}
    OBVIOUS
  <2>2. QED BY <1>1, <1>2, <2>1, Zenon
<1>4. ADC # WDT
  <2>1. ADC = WDT => {INT0, WDT, UDRE, ADC} = {INT0, WDT, UDRE}
    OBVIOUS
  <2>2. QED BY <1>1, <1>2, <2>1, Zenon
<1>5. UDRE # WDT
  <2>1. UDRE = WDT => {INT0, WDT, UDRE, ADC} = {INT0, WDT, ADC}
    OBVIOUS
  <2>2. QED BY <1>1, <1>2, <2>1, Zenon
<1>6. Fastest \in Periods
  <2>1. Periods \subseteq Nat /\ Periods # {}
    BY AvrAssumption
  <2>2. PICK p \in Periods : \A o \in Periods : p <= o
    BY <2>1, LeastNat
  <2>3. QED BY <2>2 DEF Fastest
<1>7. QED BY <1>3, <1>4, <1>5, <1>6, AvrAssumption

\* What the operations of the table do to the enable bits.
LEMMA EnabledAfter ==
  ASSUME NEW c, Good(c), NEW v
  PROVE  /\ Raise(c, v).enabled = c.enabled /\ RaiseIfNew(c).enabled = c.enabled
         /\ SetI(c, v).enabled = c.enabled /\ Sleep(c).enabled = c.enabled
         /\ Service(c).enabled \subseteq c.enabled
         /\ UartClear(c).enabled \subseteq c.enabled
<1>1. \A u : Raise(c, u).enabled = c.enabled
  BY DEF Good, Cores, Raise
<1>2. \A u : SetI(c, u).enabled = c.enabled
  BY DEF Good, Cores, SetI
<1>3. Sleep(c).enabled = c.enabled
  BY DEF Good, Cores, Sleep
<1>4. \A d \in Cores : \A u : ClearInterrupt(d, u).enabled \subseteq d.enabled
  BY DEF Cores, ClearInterrupt
<1>5. Service(c).enabled \subseteq c.enabled
  <2> DEFINE k == Lowest(c.fifo)
             x == c.fifo[k]
             f == Taken(c.fifo, k)
             taken == [c EXCEPT !.fifo = f]
             w == IF HasPending(taken) THEN 1 ELSE 0
             dropped == [taken EXCEPT !.pending = @ \ {x}, !.lost = @ \ {x}, !.wait = w]
             served == ClearInterrupt(SetI(taken, FALSE), x)
  <2>1. CASE ~c.I \/ c.wait = 0
    BY <2>1 DEF Service
  <2>2. CASE c.I /\ c.wait # 0 /\ c.wait < 0
    BY <2>2 DEF Service, Good, Cores
  <2>3. CASE c.I /\ c.wait # 0 /\ ~(c.wait < 0)
    <3>1. Service(c) = dropped \/ Service(c) = served
      BY <2>3 DEF Service
    <3>2. DOMAIN taken = DOMAIN c /\ "enabled" \in DOMAIN c /\ taken.enabled = c.enabled
      BY DEF Good, Cores
    <3> HIDE DEF taken, k, x, f, w
    <3>3. dropped.enabled = taken.enabled
      BY <3>2
    <3>4. SetI(taken, FALSE).enabled = taken.enabled
          /\ DOMAIN SetI(taken, FALSE) = DOMAIN taken
      BY <3>2 DEF SetI
    <3>5. served.enabled \subseteq SetI(taken, FALSE).enabled
      BY <3>2, <3>4 DEF ClearInterrupt
    <3>6. QED BY <3>1, <3>2, <3>3, <3>4, <3>5
  <2>4. QED BY <2>1, <2>2, <2>3
<1>6. UartClear(c).enabled \subseteq c.enabled
  <2> DEFINE d == ClearInterrupt(c, UDRE)
  <2>1. d \in Cores /\ d.enabled \subseteq c.enabled
    BY <1>4, GoodClear, VectorsOfDevices DEF Good
  <2> HIDE DEF d
  <2>2. [d EXCEPT !.raised = @ \ {UDRE}].enabled = d.enabled
    BY <2>1 DEF Cores
  <2>3. QED BY <2>1, <2>2 DEF UartClear, d
<1>7. QED BY <1>1, <1>2, <1>3, <1>5, <1>6 DEF RaiseIfNew

\* Time passes on a list that is kept.
LEMMA KeptLater ==
  ASSUME NEW c, NEW e, NEW w, NEW a, NEW t, NEW q, Kept(c, e, w, a, t, q), NEW n \in Int
  PROVE  Kept(c, e, w, a, t, Advance(q, n))
  BY AdvanceKeeps DEF Kept

-----------------------------------------------------------------------------
(* The devices: what each instruction and each timer leaves behind.          *)

LEMMA FireStep ==
  ASSUME NEW c, Good(c), NEW e, Devices(e, wdt, adc, tx), Kept(c, e, wdt, adc, tx, queue),
         NEW n \in Int, FireAndStartPoll(c, e, n), UNCHANGED <<wdt, adc, tx>>
  PROVE  Devices(ext', wdt', adc', tx') /\ Kept(core', ext', wdt', adc', tx', queue')
<1>1. CASE INT0 \in c.enabled
  <2> DEFINE q == IF e.polling THEN queue ELSE Register(queue, "poll", 1)
  <2>1. /\ core' = RaiseIfNew(c) /\ core'.enabled = c.enabled
        /\ ext' = [e EXCEPT !.polling = TRUE] /\ queue' = Advance(q, n)
    BY <1>1, EnabledAfter DEF FireAndStartPoll
  <2>2. ListOK(q) /\ \A s : s # "poll" => (Armed(q, s) <=> Armed(queue, s))
    <3>1. ListOK(queue) /\ "poll" \in Timers /\ 1 \in Int
      BY DEF Kept, Timers
    <3>2. CASE e.polling
      BY <3>1, <3>2
    <3>3. CASE ~e.polling
      BY <3>1, <3>3, RegisterKeeps
    <3>4. QED BY <3>2, <3>3
  <2> HIDE DEF q
  <2>3. Devices(ext', wdt', adc', tx') /\ ext'.polling
    BY <2>1 DEF Devices
  <2>4. Kept(core', ext', wdt', adc', tx', q)
    BY <2>1, <2>2, <2>3 DEF Kept, Watching
  <2>5. QED BY <2>1, <2>3, <2>4, KeptLater
<1>2. CASE INT0 \notin c.enabled
  BY <1>2, KeptLater DEF FireAndStartPoll
<1>3. QED BY <1>1, <1>2

LEMMA PinStep ==
  ASSUME Inv, NEW level \in BOOLEAN, NEW n \in Int, PinChange(level, n), UNCHANGED <<wdt, adc, tx>>
  PROVE  Devices(ext', wdt', adc', tx') /\ Kept(core', ext', wdt', adc', tx', queue')
<1> DEFINE e == [ext EXCEPT !.pin = level]
<1>1. Devices(e, wdt, adc, tx) /\ e.polling = ext.polling
  BY DEF Inv, Devices
<1>2. Kept(core, e, wdt, adc, tx, queue)
  BY <1>1 DEF Inv, Kept
<1> HIDE DEF e
<1>3. CASE FireAndStartPoll(core, e, n)
  BY <1>1, <1>2, <1>3, FireStep DEF Inv
<1>4. ASSUME core' = Raise(core, INT0) \/ core' = core, ext' = e, queue' = Advance(queue, n)
      PROVE  Devices(ext', wdt', adc', tx') /\ Kept(core', ext', wdt', adc', tx', queue')
  <2>1. core'.enabled = core.enabled
    BY <1>4, EnabledAfter DEF Inv
  <2>2. Kept(core', ext', wdt', adc', tx', queue)
    BY <1>2, <1>4, <2>1 DEF Kept, Watching
  <2>3. QED BY <1>1, <1>4, <2>2, KeptLater
<1>5. QED BY <1>3, <1>4 DEF PinChange, e

LEMMA ExtStep ==
  ASSUME Inv, NEW n \in Int, ExtInstruction(n)
  PROVE  Devices(ext', wdt', adc', tx') /\ Kept(core', ext', wdt', adc', tx', queue')
<1> USE DEF ExtInstruction
<1>1. ASSUME NEW on \in BOOLEAN, WriteMask(on, n)
      PROVE  Devices(ext', wdt', adc', tx') /\ Kept(core', ext', wdt', adc', tx', queue')
  <2> DEFINE c == [core EXCEPT !.enabled = Set(@, INT0, on)]
  <2>1. Good(c)
    BY BitsOfCore, GoodBits, VectorsOfDevices DEF Inv
  <2>2. WDT \in c.enabled => WDT \in core.enabled
    BY Parameters DEF Inv, Good, Cores, Set
  <2> HIDE DEF c
  <2>3. Kept(c, ext, wdt, adc, tx, queue)
    BY <2>2 DEF Inv, Kept, Watching
  <2>4. CASE FireAndStartPoll(c, ext, n)
    BY <2>1, <2>3, <2>4, FireStep DEF Inv
  <2>5. CASE core' = c /\ ext' = ext /\ queue' = Advance(queue, n)
    BY <2>3, <2>5, KeptLater DEF Inv
  <2>6. QED BY <1>1, <2>4, <2>5 DEF WriteMask, c
<1>2. ASSUME NEW mode \in Modes, WriteMode(mode, n)
      PROVE  Devices(ext', wdt', adc', tx') /\ Kept(core', ext', wdt', adc', tx', queue')
  <2> DEFINE e == [ext EXCEPT !.mode = mode]
  <2>1. Devices(e, wdt, adc, tx) /\ e.polling = ext.polling
    BY DEF Inv, Devices
  <2>2. Kept(core, e, wdt, adc, tx, queue)
    BY <2>1 DEF Inv, Kept
  <2> HIDE DEF e
  <2>3. CASE FireAndStartPoll(core, e, n)
    BY <2>1, <2>2, <2>3, FireStep DEF Inv
  <2>4. CASE core' = core /\ ext' = e /\ queue' = Advance(queue, n)
    BY <2>1, <2>2, <2>4, KeptLater
  <2>5. QED BY <1>2, <2>3, <2>4 DEF WriteMode, e
<1>3. ASSUME WriteFlag(n)
      PROVE  Devices(ext', wdt', adc', tx') /\ Kept(core', ext', wdt', adc', tx', queue')
  <2>1. core'.enabled = core.enabled
    BY <1>3 DEF Inv, Good, Cores, WriteFlag
  <2>2. Kept(core', ext, wdt, adc, tx, queue)
    BY <2>1 DEF Inv, Kept, Watching
  <2>3. QED BY <1>3, <2>2, KeptLater DEF Inv, WriteFlag
<1>4. QED BY <1>1, <1>2, <1>3, PinStep

\* The watchdog has its timer exactly when it is on, unless it has fired.
LEMMA SetTimerKeeps ==
  ASSUME NEW c, NEW w, ListOK(queue), w.period \in Int,
         Watching(core, wdt) => Armed(queue, "watchdog") \/ wdt.reset
  PROVE  LET q == SetTimer(c, w, Watching(core, wdt))
         IN  /\ ListOK(q) /\ (Watching(c, w) => Armed(q, "watchdog") \/ wdt.reset)
             /\ \A s : s # "watchdog" => (Armed(q, s) <=> Armed(queue, s))
<1>1. "watchdog" \in Timers
  BY DEF Timers
<1>2. CASE Watching(core, wdt) = Watching(c, w)
  BY <1>2 DEF SetTimer
<1>3. CASE Watching(core, wdt) # Watching(c, w) /\ Watching(c, w)
  BY <1>1, <1>3, RegisterKeeps DEF SetTimer
<1>4. CASE Watching(core, wdt) # Watching(c, w) /\ ~Watching(c, w)
  BY <1>4, CancelKeeps DEF SetTimer
<1>5. QED BY <1>2, <1>3, <1>4

LEMMA WatchdogStep ==
  ASSUME Inv, NEW n \in Int, WatchdogInstruction(n)
  PROVE  Devices(ext', wdt', adc', tx') /\ Kept(core', ext', wdt', adc', tx', queue')
<1>1. UNCHANGED <<ext, adc, tx>> /\ wdt.period \in Int /\ wdt.period \in Periods /\ ListOK(queue)
      /\ (Watching(core, wdt) => Armed(queue, "watchdog") \/ wdt.reset)
  BY Parameters DEF WatchdogInstruction, Inv, Devices, Kept
<1>2. "watchdog" \in Timers /\ "wdce" \in Timers
  BY DEF Timers
<1>3. ASSUME NEW v \in [wdce : BOOLEAN, wde : BOOLEAN, wdie : BOOLEAN, flag : BOOLEAN,
                        period : Periods], WriteWatchdog(v, n)
      PROVE  Devices(ext', wdt', adc', tx') /\ Kept(core', ext', wdt', adc', tx', queue')
  <2> DEFINE c == [core EXCEPT !.enabled = Set(@, WDT, v.wdie)]
             open == [wdt EXCEPT !.wdce = v.wdce, !.wde = v.wde \/ wdt.wdrf, !.period = v.period]
             shut == [wdt EXCEPT !.wde = @ \/ v.wde]
             was == Watching(core, wdt)
  <2>1. Devices(ext, open, adc, tx) /\ open.reset = wdt.reset /\ open.period \in Periods
    BY DEF Inv, Devices
  <2>2. Devices(ext, shut, adc, tx) /\ shut.reset = wdt.reset /\ shut.period \in Periods
        /\ shut.wdce = wdt.wdce
    BY DEF Inv, Devices
  <2>3. CASE /\ wdt.wdce /\ core' = [c EXCEPT !.raised = Set(@, WDT, v.flag)] /\ wdt' = open
             /\ queue' = Advance(SetTimer(c, open, was), n)
    <3>1. core'.enabled = c.enabled
      BY <2>3 DEF Inv, Good, Cores
    <3> HIDE DEF c, open
    <3> DEFINE q == SetTimer(c, open, was)
    <3>2. /\ ListOK(q) /\ (Watching(c, open) => Armed(q, "watchdog") \/ wdt.reset)
          /\ \A s : s # "watchdog" => (Armed(q, s) <=> Armed(queue, s))
      BY <1>1, <2>1, Parameters, SetTimerKeeps
    <3> HIDE DEF q
    <3>3. Kept(core', ext, open, adc, tx, q)
      BY <2>1, <2>3, <3>1, <3>2 DEF Inv, Kept, Watching
    <3>4. Kept(core', ext, open, adc, tx, Advance(q, n))
      BY <3>3, KeptLater
    <3>5. QED BY <1>1, <2>1, <2>3, <3>4 DEF q
  <2>4. CASE /\ core' = core /\ wdt' = [wdt EXCEPT !.wdce = TRUE]
             /\ queue' = Advance(Register(queue, "wdce", ChangeCycles), n)
    <3> DEFINE q == Register(queue, "wdce", ChangeCycles)
    <3>1. ListOK(q) /\ \A s : Armed(q, s) <=> s = "wdce" \/ Armed(queue, s)
      BY <1>1, <1>2, Parameters, RegisterKeeps
    <3> HIDE DEF q
    <3>2. /\ Devices(ext, wdt', adc, tx) /\ wdt'.reset = wdt.reset /\ wdt'.wde = wdt.wde
      BY <2>4 DEF Inv, Devices
    <3>3. Kept(core', ext, wdt', adc, tx, q)
      BY <2>4, <3>1, <3>2 DEF Inv, Kept, Watching
    <3>4. Kept(core', ext, wdt', adc, tx, Advance(q, n))
      BY <3>3, KeptLater
    <3>5. QED BY <1>1, <2>4, <3>2, <3>4 DEF q
  <2>5. CASE /\ core' = c /\ wdt' = shut
             /\ queue' = Advance(SetTimer(c, shut, was), n)
    <3> HIDE DEF c, shut
    <3> DEFINE q == SetTimer(c, shut, was)
    <3>1. /\ ListOK(q) /\ (Watching(c, shut) => Armed(q, "watchdog") \/ wdt.reset)
          /\ \A s : s # "watchdog" => (Armed(q, s) <=> Armed(queue, s))
      BY <1>1, <2>2, Parameters, SetTimerKeeps
    <3> HIDE DEF q
    <3>2. Kept(core', ext, shut, adc, tx, q)
      BY <2>2, <2>5, <3>1 DEF Inv, Kept
    <3>3. Kept(core', ext, shut, adc, tx, Advance(q, n))
      BY <3>2, KeptLater
    <3>4. QED BY <1>1, <2>2, <2>5, <3>3 DEF q
  <2>6. QED BY <1>3, <2>3, <2>4, <2>5 DEF WriteWatchdog
<1>4. ASSUME ClearResetFlag(n)
      PROVE  Devices(ext', wdt', adc', tx') /\ Kept(core', ext', wdt', adc', tx', queue')
  <2>1. /\ core' = core /\ queue' = Advance(queue, n) /\ Devices(ext, wdt', adc, tx)
        /\ wdt'.reset = wdt.reset /\ wdt'.wde = wdt.wde /\ wdt'.wdce = wdt.wdce
    BY <1>4 DEF ClearResetFlag, Inv, Devices
  <2>2. Kept(core, ext, wdt', adc, tx, queue)
    BY <2>1 DEF Inv, Kept, Watching
  <2>3. QED BY <1>1, <2>1, <2>2, KeptLater
<1>5. ASSUME Wdr(n)
      PROVE  Devices(ext', wdt', adc', tx') /\ Kept(core', ext', wdt', adc', tx', queue')
  <2> DEFINE q == IF Watching(core, wdt) THEN Register(queue, "watchdog", wdt.period) ELSE queue
  <2>1. core' = core /\ wdt' = wdt /\ queue' = Advance(q, n)
    BY <1>5 DEF Wdr
  <2>2. /\ ListOK(q) /\ (Armed(queue, "watchdog") => Armed(q, "watchdog"))
        /\ \A s : s # "watchdog" => (Armed(q, s) <=> Armed(queue, s))
    BY <1>1, <1>2, RegisterKeeps
  <2> HIDE DEF q
  <2>3. Kept(core, ext, wdt, adc, tx, q)
    BY <2>2 DEF Inv, Kept
  <2>4. QED BY <1>1, <2>1, <2>3, KeptLater DEF Inv
<1>6. QED BY <1>3, <1>4, <1>5 DEF WatchdogInstruction

LEMMA AdcStep ==
  ASSUME Inv, NEW n \in Int, AdcInstruction(n)
  PROVE  Devices(ext', wdt', adc', tx') /\ Kept(core', ext', wdt', adc', tx', queue')
<1>1. PICK v \in [aden : BOOLEAN, adsc : BOOLEAN, adate : BOOLEAN, adie : BOOLEAN,
                  flag : BOOLEAN] : (v.adsc => v.aden) /\ WriteAdc(v, n)
  BY DEF AdcInstruction
<1> DEFINE stop == adc.aden /\ ~v.aden
           adsc == ~stop /\ (adc.adsc \/ v.adsc)
           first == adc.first \/ (~adc.aden /\ v.aden)
           cycles == IF first THEN FirstCycles ELSE NextCycles
           off == IF stop THEN Cancel(queue, "adc") ELSE queue
           q == IF adsc /\ ~adc.adsc THEN Register(off, "adc", cycles) ELSE off
<1>2. /\ core' = [core EXCEPT !.enabled = Set(@, ADC, v.adie), !.raised = Set(@, ADC, v.flag)]
      /\ adc' = [aden |-> v.aden, adsc |-> adsc, adate |-> v.adate, first |-> first]
      /\ queue' = Advance(q, n) /\ UNCHANGED <<ext, wdt, tx>>
  BY <1>1 DEF WriteAdc, AdcInstruction
<1>3. WDT \in core'.enabled => WDT \in core.enabled
  BY <1>2, Parameters DEF Inv, Good, Cores, Set
<1>4. /\ ListOK(off) /\ \A s : s # "adc" => (Armed(off, s) <=> Armed(queue, s))
      /\ ~stop => (Armed(off, "adc") <=> Armed(queue, "adc"))
  BY CancelKeeps DEF Inv, Kept
<1>5. cycles \in Int
  BY Parameters
<1>6. adc.adsc => adc.aden /\ Armed(queue, "adc")
  BY DEF Inv, Kept
<1>7. adsc => v.aden
  BY <1>1, <1>6
<1>8. Devices(ext', wdt', adc', tx') /\ adc'.adsc = adsc /\ adc'.aden = v.aden
  BY <1>2 DEF Inv, Devices
<1> HIDE DEF off, cycles, first
<1>9. ListOK(q) /\ (\A s : s # "adc" => (Armed(q, s) <=> Armed(queue, s))) /\ (adsc => Armed(q, "adc"))
  <2>1. "adc" \in Timers
    BY DEF Timers
  <2>2. CASE adsc /\ ~adc.adsc
    <3>1. q = Register(off, "adc", cycles)
      BY <2>2
    <3>2. QED BY <1>4, <1>5, <2>1, <3>1, RegisterKeeps
  <2>3. CASE ~(adsc /\ ~adc.adsc)
    BY <1>4, <1>6, <2>3
  <2>4. QED BY <2>2, <2>3
<1> HIDE DEF q, adsc
<1>10. Kept(core', ext', wdt', adc', tx', q)
  BY <1>2, <1>3, <1>7, <1>8, <1>9 DEF Inv, Kept, Watching
<1>11. QED BY <1>2, <1>8, <1>10, KeptLater

LEMMA UartStep ==
  ASSUME Inv, NEW n \in Int, UartInstruction(n)
  PROVE  Devices(ext', wdt', adc', tx') /\ Kept(core', ext', wdt', adc', tx', queue')
<1>1. UNCHANGED <<ext, wdt, adc>>
  BY DEF UartInstruction
<1>2. ASSUME NEW on, WriteUartMask(on, n)
      PROVE  Devices(ext', wdt', adc', tx') /\ Kept(core', ext', wdt', adc', tx', queue')
  <2> DEFINE c == [core EXCEPT !.enabled = Set(@, UDRE, on)]
  <2>1. Good(c)
    BY BitsOfCore, GoodBits, VectorsOfDevices DEF Inv
  <2>2. WDT \in c.enabled => WDT \in core.enabled
    BY Parameters DEF Inv, Good, Cores, Set
  <2> HIDE DEF c
  <2>3. /\ core' = Raise(c, UDRE) \/ core' = c
        /\ queue' = Advance(queue, n) /\ tx' = tx
    BY <1>2 DEF WriteUartMask, c
  <2>4. core'.enabled = c.enabled
    BY <2>1, <2>3, EnabledAfter
  <2>5. Kept(core', ext, wdt, adc, tx, queue)
    BY <2>2, <2>4 DEF Inv, Kept, Watching
  <2>6. QED BY <1>1, <2>3, <2>5, KeptLater DEF Inv
<1>3. ASSUME WriteByte(n)
      PROVE  Devices(ext', wdt', adc', tx') /\ Kept(core', ext', wdt', adc', tx', queue')
  <2> DEFINE q == IF HasStatus(queue, "txc") THEN queue
                  ELSE Register(queue, "txc", ByteCycles)
  <2>1. core' = UartClear(core) /\ tx' = tx + 1 /\ queue' = Advance(q, n)
    BY <1>3 DEF WriteByte
  <2>2. core'.enabled \subseteq core.enabled
    BY <2>1, EnabledAfter DEF Inv
  <2>3. /\ ListOK(q) /\ Armed(q, "txc")
        /\ \A s : s # "txc" => (Armed(q, s) <=> Armed(queue, s))
    <3>1. ListOK(queue) /\ "txc" \in Timers /\ ByteCycles \in Int
      BY Parameters DEF Inv, Kept, Timers
    <3>2. CASE HasStatus(queue, "txc")
      BY <3>1, <3>2 DEF HasStatus, Armed
    <3>3. CASE ~HasStatus(queue, "txc")
      BY <3>1, <3>3, RegisterKeeps
    <3>4. QED BY <3>2, <3>3
  <2> HIDE DEF q
  <2>4. Devices(ext', wdt', adc', tx')
    BY <1>1, <2>1 DEF Inv, Devices
  <2>5. Kept(core', ext, wdt, adc, tx', q)
    BY <2>2, <2>3 DEF Inv, Kept, Watching
  <2>6. QED BY <1>1, <2>1, <2>4, <2>5, KeptLater
<1>4. QED BY <1>2, <1>3 DEF UartInstruction

LEMMA InstructionStep ==
  ASSUME Inv, NEW n \in Costs, Instruction(n)
  PROVE  Devices(ext', wdt', adc', tx') /\ Kept(core', ext', wdt', adc', tx', queue')
<1>1. n \in Int
  BY Parameters
<1>2. CASE Nop(n)
  BY <1>1, <1>2, KeptLater DEF Nop, Inv
<1>3. CASE CoreInstruction(n)
  <2>1. core'.enabled = core.enabled
    <3>1. CASE core' = [core EXCEPT !.state = "Crashed"]
      BY <3>1 DEF Inv, Good, Cores
    <3>2. /\ SetI(core, TRUE).enabled = core.enabled /\ SetI(core, FALSE).enabled = core.enabled
          /\ Sleep(core).enabled = core.enabled
      BY EnabledAfter DEF Inv
    <3>3. QED BY <1>3, <3>1, <3>2 DEF CoreInstruction
  <2>2. queue' = Advance(queue, n) /\ UNCHANGED <<ext, wdt, adc, tx>>
    BY <1>3 DEF CoreInstruction
  <2>3. Kept(core', ext, wdt, adc, tx, queue)
    BY <2>1 DEF Inv, Kept, Watching
  <2>4. QED BY <1>1, <2>2, <2>3, KeptLater DEF Inv
<1>4. QED BY <1>1, <1>2, <1>3, ExtStep, WatchdogStep, AdcStep, UartStep DEF Instruction

\* A timer that expires is the head, whose callback may ask to be called again.
LEMMA TimerStep ==
  ASSUME Inv, TimerExpires
  PROVE  Devices(ext', wdt', adc', tx') /\ Kept(core', ext', wdt', adc', tx', queue')
<1> DEFINE what == Head(queue).what
           left == Head(queue).left
<1>1. /\ ListOK(queue) /\ queue # <<>> /\ left <= 0
      /\ ListOK(Tail(queue)) /\ what \in Timers /\ left \in Int
      /\ \A s : Armed(Tail(queue), s) <=> s # what /\ Armed(queue, s)
  <2>1. ListOK(queue) /\ queue # <<>> /\ left <= 0
    BY DEF TimerExpires, Due, Inv, Kept
  <2>2. QED BY <2>1, TailKeeps
<1>2. \A n \in Int : n > left =>
        ListOK(Again(queue, n)) /\ \A s : Armed(Again(queue, n), s) <=> Armed(queue, s)
  BY <1>1, AgainKeeps
<1> HIDE DEF what, left
<1>3. CASE what = "poll" /\ PollExpires
  <2>1. core'.enabled = core.enabled /\ UNCHANGED <<wdt, adc, tx>>
    BY <1>3, EnabledAfter DEF PollExpires, Inv
  <2>2. CASE ext' = ext /\ queue' = Again(queue, 1)
    <3>1. 1 \in Int /\ 1 > left
      BY <1>1
    <3>2. ListOK(queue') /\ \A s : Armed(queue', s) <=> Armed(queue, s)
      BY <1>2, <2>2, <3>1
    <3>3. QED BY <2>1, <2>2, <3>2 DEF Inv, Kept, Watching
  <2>3. CASE ext' = [ext EXCEPT !.polling = FALSE] /\ queue' = Tail(queue)
    <3>1. Devices(ext', wdt', adc', tx')
      BY <2>1, <2>3 DEF Inv, Devices
    <3>2. QED BY <1>1, <1>3, <2>1, <2>3, <3>1 DEF Inv, Kept, Watching
  <2>4. QED BY <1>3, <2>2, <2>3 DEF PollExpires
<1>4. CASE what = "watchdog" /\ WatchdogExpires
  <2>1. core'.enabled = core.enabled /\ UNCHANGED <<ext, adc, tx>>
    BY <1>4, EnabledAfter DEF WatchdogExpires, Inv
  <2>2. CASE WDT \in core.enabled
    <3>1. wdt' = wdt /\ queue' = Again(queue, left + wdt.period)
      BY <1>4, <2>2 DEF WatchdogExpires, left
    <3>2. left + wdt.period \in Int /\ left + wdt.period > left
      <4>1. wdt.period \in Periods
        BY DEF Inv, Devices
      <4>2. wdt.period \in Int /\ wdt.period > 0
        BY <4>1, Parameters
      <4>3. QED BY <1>1, <4>2
    <3>3. ListOK(queue') /\ \A s : Armed(queue', s) <=> Armed(queue, s)
      BY <1>2, <3>1, <3>2
    <3>4. QED BY <2>1, <3>1, <3>3 DEF Inv, Kept, Watching
  <2>3. CASE WDT \notin core.enabled
    <3>1. wdt' = [wdt EXCEPT !.reset = @ \/ wdt.wde] /\ queue' = Tail(queue)
      BY <1>4, <2>3 DEF WatchdogExpires
    <3>2. /\ Devices(ext', wdt', adc', tx') /\ wdt'.wde = wdt.wde /\ wdt'.wdce = wdt.wdce
          /\ (wdt.wde => wdt'.reset)
      BY <2>1, <3>1 DEF Inv, Devices
    <3>3. QED BY <1>1, <1>4, <2>1, <2>3, <3>1, <3>2 DEF Inv, Kept, Watching
  <2>4. QED BY <2>2, <2>3
<1>5. CASE what = "wdce" /\ ChangeExpires
  <2>1. /\ queue' = Tail(queue) /\ UNCHANGED <<core, ext, adc, tx>>
        /\ Devices(ext', wdt', adc', tx') /\ wdt'.wde = wdt.wde /\ wdt'.wdce = FALSE
        /\ wdt'.reset = wdt.reset
    BY <1>5 DEF ChangeExpires, Inv, Devices
  <2>2. QED BY <1>1, <1>5, <2>1 DEF Inv, Kept, Watching
<1>6. CASE what = "adc" /\ ConversionEnds
  <2>1. core'.enabled = core.enabled /\ UNCHANGED <<ext, wdt, tx>>
    BY <1>6, EnabledAfter DEF ConversionEnds, Inv
  <2>2. CASE adc.aden
    <3>1. /\ adc' = [adc EXCEPT !.adsc = adc.adate, !.first = FALSE]
          /\ queue' = IF adc.adate THEN Again(queue, NextCycles) ELSE Tail(queue)
      BY <1>6, <2>2 DEF ConversionEnds
    <3>2. Devices(ext', wdt', adc', tx') /\ adc'.adsc = adc.adate /\ adc'.aden
      BY <2>1, <2>2, <3>1 DEF Inv, Devices
    <3>3. CASE adc.adate
      <4>1. NextCycles \in Int /\ NextCycles > left
        BY <1>1, Parameters
      <4>2. ListOK(queue') /\ \A s : Armed(queue', s) <=> Armed(queue, s)
        BY <1>2, <3>1, <3>3, <4>1
      <4>3. Armed(queue, "adc")
        <5>1. Armed(queue, what)
          <6>1. 1 \in DOMAIN queue /\ Head(queue) = queue[1]
            BY <1>1 DEF ListOK
          <6>2. QED BY <6>1 DEF Armed, what
        <5>2. QED BY <1>6, <5>1
      <4>4. QED BY <2>1, <3>2, <4>2, <4>3 DEF Inv, Kept, Watching
    <3>4. CASE ~adc.adate
      BY <1>1, <1>6, <2>1, <3>1, <3>2, <3>4 DEF Inv, Kept, Watching
    <3>5. QED BY <3>3, <3>4
  <2>3. CASE ~adc.aden
    <3>1. core' = core /\ adc' = adc /\ queue' = Tail(queue)
      BY <1>6, <2>3 DEF ConversionEnds
    <3>2. QED BY <1>1, <1>6, <2>1, <2>3, <3>1 DEF Inv, Kept, Watching
  <2>4. QED BY <2>2, <2>3
<1>7. CASE what = "txc" /\ ByteSent
  <2> DEFINE rest == IF tx = 0 THEN 0 ELSE tx - 1
  <2>1. /\ core'.enabled \subseteq core.enabled /\ UNCHANGED <<ext, wdt, adc>> /\ tx' = rest
        /\ queue' = IF rest > 0 \/ UDRE \in core.enabled THEN Again(queue, left + ByteCycles)
                    ELSE Tail(queue)
    BY <1>7, EnabledAfter DEF ByteSent, Inv, left
  <2>2. rest \in Nat /\ (rest > 0 => tx > 0)
    BY DEF Inv, Devices
  <2>3. Devices(ext', wdt', adc', tx')
    BY <2>1, <2>2 DEF Inv, Devices
  <2> HIDE DEF rest
  <2>4. CASE rest > 0 \/ UDRE \in core.enabled
    <3>1. left + ByteCycles \in Int /\ left + ByteCycles > left
      BY <1>1, Parameters
    <3>2. ListOK(queue') /\ \A s : Armed(queue', s) <=> Armed(queue, s)
      BY <1>2, <2>1, <2>4, <3>1
    <3>3. QED BY <2>1, <2>2, <2>3, <3>2 DEF Inv, Kept, Watching
  <2>5. CASE ~(rest > 0 \/ UDRE \in core.enabled)
    BY <1>1, <1>7, <2>1, <2>3, <2>5 DEF Inv, Kept, Watching
  <2>6. QED BY <2>4, <2>5
<1>8. QED BY <1>3, <1>4, <1>5, <1>6, <1>7 DEF TimerExpires, what

-----------------------------------------------------------------------------
(* The steps.                                                               *)

LEMMA ListEmpty == ListOK(<<>>) /\ \A s : ~Armed(<<>>, s)
  BY DEF ListOK, ListInOrder, Armed

LEMMA InvInit == Init => Inv
<1> SUFFICES ASSUME Init PROVE Inv
  OBVIOUS
<1>1. core.enabled = {}
  BY DEF Init, AfterReset, ResetCore
<1>2. Devices(ext, wdt, adc, tx)
  BY Parameters DEF Init, Devices, Modes
<1>3. QED BY <1>1, <1>2, GoodInit, ListEmpty DEF Init, Inv, Kept, Watching

LEMMA ResetStep ==
  ASSUME Inv, Reset
  PROVE  Devices(ext', wdt', adc', tx') /\ Kept(core', ext', wdt', adc', tx', queue')
<1>1. core'.enabled = {}
  BY DEF Reset, AfterReset, ResetCore
<1>2. /\ Devices(ext', wdt', adc', tx') /\ ext'.polling = ext.polling
      /\ wdt'.wde = wdt.reset /\ wdt'.wdce = FALSE /\ adc'.adsc = FALSE /\ tx' = 0
  BY Parameters DEF Reset, Inv, Devices, Modes
<1>3. queue' = IF wdt.reset THEN Register(<<>>, "watchdog", Fastest) ELSE <<>>
  BY DEF Reset
<1>4. CASE wdt.reset
  <2>1. "watchdog" \in Timers /\ Fastest \in Int
    BY Parameters DEF Timers
  <2>2. ListOK(queue') /\ \A s : Armed(queue', s) <=> s = "watchdog"
    BY <1>3, <1>4, <2>1, ListEmpty, RegisterKeeps
  <2>3. QED BY <1>1, <1>2, <2>2 DEF Kept
<1>5. CASE ~wdt.reset
  BY <1>1, <1>2, <1>3, <1>5, ListEmpty DEF Kept, Watching
<1>6. QED BY <1>4, <1>5

LEMMA InvNext == Inv /\ [Next]_vars => Inv'
<1> SUFFICES ASSUME Inv, [Next]_vars PROVE Inv'
  OBVIOUS
<1>1. Good(core')
  BY GoodNext DEF Inv
<1>2. Devices(ext', wdt', adc', tx') /\ Kept(core', ext', wdt', adc', tx', queue')
  <2>1. CASE RunOne
    BY <2>1, InstructionStep DEF RunOne
  <2>2. CASE RunNone
    BY <2>2 DEF RunNone, Inv
  <2>3. CASE TimerExpires
    BY <2>3, TimerStep
  <2>4. CASE EndOfRun
    <3>1. UNCHANGED <<ext, wdt, adc, tx>>
      BY <2>4 DEF EndOfRun
    <3>2. core'.enabled \subseteq core.enabled
      <4>1. [core EXCEPT !.state = "Done"].enabled = core.enabled
        BY DEF Inv, Good, Cores
      <4>2. QED BY <2>4, <4>1, EnabledAfter DEF EndOfRun, Inv
    <3>3. Kept(core', ext, wdt, adc, tx, queue)
      BY <3>2 DEF Inv, Kept, Watching
    <3>4. \/ queue' = queue
          \/ \E n \in {0, 1 + SleepCycles(queue, SleepDefault)} : queue' = Advance(queue, n)
      BY <2>4 DEF EndOfRun
    <3>5. SleepCycles(queue, SleepDefault) \in Int
      BY Parameters, TailKeeps DEF SleepCycles, Inv, Kept
    <3>6. QED BY <3>1, <3>3, <3>4, <3>5, KeptLater DEF Inv
  <2>5. CASE WatchdogReset \/ McuReset
    BY <2>5, ResetStep DEF WatchdogReset, McuReset
  <2>6. CASE Clock
    BY <2>6 DEF Clock, Inv
  <2>7. CASE Event
    BY <2>7, PinStep DEF Event
  <2>8. CASE UNCHANGED vars
    BY <2>8 DEF vars, Inv
  <2>9. QED BY <2>1, <2>2, <2>3, <2>4, <2>5, <2>6, <2>7, <2>8 DEF Next, Run
<1>3. QED BY <1>1, <1>2 DEF Inv

\* The rest of the type invariant.
Clocked == phase \in {"idle", "run", "timers"} /\ ahead \in Int /\ writes \in 0..MaxWrites

LEMMA ClockedNext == Inv /\ Clocked /\ [Next]_vars => Clocked'
<1> SUFFICES ASSUME Inv, Clocked, [Next]_vars PROVE Clocked'
  OBVIOUS
<1> USE DEF Clocked
<1>1. ASSUME NEW n \in Int, Loop(n)
      PROVE  phase' \in {"idle", "run", "timers"} /\ ahead' \in Int
  BY <1>1, Parameters DEF Loop
<1>2. CASE RunOne
  <2>1. PICK n \in Costs : Instruction(n) /\ ahead' = ahead - n /\ phase' = "timers"
    BY <1>2 DEF RunOne
  <2>2. n \in Int
    BY Parameters
  <2>3. writes' = writes \/ (writes < MaxWrites /\ writes' = writes + 1)
    BY <2>1 DEF Instruction, Nop
  <2>4. MaxWrites \in Nat
    BY AvrAssumption
  <2>5. QED BY <2>1, <2>2, <2>3, <2>4
<1>3. CASE RunNone \/ TimerExpires
  BY <1>3 DEF RunNone, TimerExpires
<1>4. CASE EndOfRun
  <2>1. SleepCycles(queue, SleepDefault) \in Int
    BY Parameters, TailKeeps DEF SleepCycles, Inv, Kept
  <2>2. writes' = writes /\ \E n \in {0, 1 + SleepCycles(queue, SleepDefault)} : Loop(n)
    BY <1>4 DEF EndOfRun
  <2>3. QED BY <1>1, <2>1, <2>2
<1>5. CASE WatchdogReset \/ McuReset
  BY <1>5, AvrAssumption DEF WatchdogReset, McuReset, Reset
<1>6. CASE Clock
  BY <1>1, <1>6 DEF Clock
<1>7. CASE Event \/ UNCHANGED vars
  BY <1>7 DEF Event, vars
<1>8. QED BY <1>2, <1>3, <1>4, <1>5, <1>6, <1>7 DEF Next, Run

THEOREM InvAlways == Spec => [](Inv /\ Clocked)
<1>1. Init => Inv /\ Clocked
  <2>1. Init => Clocked
    BY AvrAssumption DEF Init, Clocked
  <2>2. QED BY <2>1, InvInit
<1>2. Inv /\ Clocked /\ [Next]_vars => (Inv /\ Clocked)'
  BY InvNext, ClockedNext
<1>3. QED BY <1>1, <1>2, PTL DEF Spec

\* The core, its list of cycle timers and the registers of the four devices keep
\* their types: no callback leaves the list malformed.
THEOREM TypeCorrect == Spec => []TypeOK
<1>1. Inv /\ Clocked => TypeOK
  BY DEF Inv, Clocked, TypeOK, Good, Devices, Kept, ListOK, Entry
<1>2. QED BY <1>1, InvAlways, PTL

\* sim_cycle_timers.c and its users: whatever instructions, callbacks that ask to be
\* called again and resets come in whatever order, the list stays in order with no
\* callback twice, and no device waits for a timer that is not in it: a watchdog that
\* is on, a conversion, the window to change the watchdog, bytes to send.
THEOREM TimersAreKept == Spec => []TimersKept
<1>1. Inv => TimersKept
  BY DEF Inv, Kept, ListOK, TimersKept
<1>2. QED BY <1>1, InvAlways, PTL
=============================================================================
