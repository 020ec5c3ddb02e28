-------------------------------- MODULE Avr --------------------------------
(***************************************************************************)
(* The AVR microcontroller of a circuit: mcu_avr_clock, mcu_avr_event and    *)
(* mcu_avr_reset with the loop of sim_avr.c, and four of its devices: the    *)
(* external interrupt 0, the watchdog, the analog converter and the sending *)
(* half of the serial port.                                                 *)
(*                                                                         *)
(* The firmware is any program: an instruction that changes what is modelled *)
(* may come at any time, and Nop stands for all the others.  Times are       *)
(* counted from the present cycle.  MaxTimers is far above the number of     *)
(* timers of these devices, as 64 is above those of all devices.             *)
(***************************************************************************)
EXTENDS AvrInterrupts, CycleTimers

CONSTANTS
  INT0, WDT, UDRE, ADC,   \* vectors of the four devices
  Costs,             \* cycles an instruction may take
  Steps,             \* steps_pclk, cycles of one clock of the circuit
  SleepDefault,      \* DEFAULT_SLEEP_CYCLES: 1000
  Periods,           \* cycle counts of the watchdog, for each of its prescalers
  ChangeCycles,      \* cycles the watchdog can be changed: 4
  FirstCycles, NextCycles,   \* cycles of the first conversion and of the others
  ByteCycles,        \* cycles_per_byte of the serial port
  MaxWrites          \* bound: instructions other than Nop since the last reset

ASSUME AvrAssumption ==
  /\ {INT0, WDT, UDRE, ADC} \subseteq Vectors /\ Cardinality({INT0, WDT, UDRE, ADC}) = 4
  /\ OneShot = {WDT} /\ Sticky = {UDRE}
  /\ Costs \subseteq Nat \ {0}
  /\ {Steps, SleepDefault, ChangeCycles, FirstCycles, NextCycles, ByteCycles}
       \subseteq Nat \ {0}
  /\ Periods \subseteq Nat \ {0} /\ Periods # {}
  /\ \A cost \in Costs : \A cycles \in Periods \cup {NextCycles, ByteCycles} : cost <= cycles
  /\ MaxWrites \in Nat
  /\ MaxTimers > 5                     \* one for each of Timers, and the one detached

VARIABLES
  core,      \* interrupt table and core state
  queue,     \* cycle timers
  ext,       \* external interrupt: sense mode, pin, is_polling
  wdt,       \* watchdog: wde, wdce, wdrf, cycle_count, and whether run is the reset
  adc,       \* converter: aden, adsc, adate, first
  tx,        \* tx_cnt: bytes the serial port has still to send
  phase,     \* "idle", or inside mcu_avr_clock: "run" or "timers"
  ahead,     \* next_cycle less cycle
  writes     \* instructions other than Nop since the last reset

vars == <<core, queue, ext, wdt, adc, tx, phase, ahead, writes>>

Modes == {"level", "toggle", "falling", "rising"}
Timers == {"poll", "watchdog", "wdce", "adc", "txc"}
Fastest == CHOOSE p \in Periods : \A o \in Periods : p <= o

\* After avr_reset the serial port is ready for a byte (avr_uart_reset).
AfterReset == ResetCore({UDRE})

Stopped == core.state \in {"Done", "Crashed"}

Init ==
  /\ core = AfterReset
  /\ queue = <<>>
  /\ ext = [mode |-> "level", pin |-> FALSE, polling |-> FALSE]
  /\ wdt = [wde |-> FALSE, wdce |-> FALSE, wdrf |-> FALSE, period |-> Fastest, reset |-> FALSE]
  /\ adc = [aden |-> FALSE, adsc |-> FALSE, adate |-> FALSE, first |-> FALSE]
  /\ tx = 0
  /\ phase = "idle"
  /\ ahead = Steps
  /\ writes = 0

Set(S, x, on) == IF on THEN S \cup {x} ELSE S \ {x}

-----------------------------------------------------------------------------
(* External interrupt (avr_extint.c).  strict_lvl_trig is on after a reset.  *)

\* avr_extint_fire_and_start_poll on core c and device e, then n cycles pass.
RaiseIfNew(c) ==
  IF c.I /\ INT0 \notin c.raised \cup c.pending THEN Raise(c, INT0) ELSE c

FireAndStartPoll(c, e, n) ==
  IF INT0 \in c.enabled
    THEN /\ core' = RaiseIfNew(c)
         /\ ext' = [e EXCEPT !.polling = TRUE]
         /\ queue' = Advance(IF e.polling THEN queue ELSE Register(queue, "poll", 1), n)
    ELSE core' = c /\ ext' = e /\ queue' = Advance(queue, n)

\* A level on the pin reaches avr_extint_irq_notify if it is a new one.
PinChange(level, n) ==
  LET e == [ext EXCEPT !.pin = level]
      edge == \/ ext.mode = "toggle"
              \/ ext.mode = "falling" /\ ~level
              \/ ext.mode = "rising" /\ level
  IN  /\ level # ext.pin
      /\ IF ext.mode = "level" /\ ~level THEN FireAndStartPoll(core, e, n)
         ELSE /\ core' = IF edge THEN Raise(core, INT0) ELSE core
              /\ ext' = e /\ queue' = Advance(queue, n)

\* avr_extint_mask_write: a new value of the enable bit.
WriteMask(on, n) ==
  LET c == [core EXCEPT !.enabled = Set(@, INT0, on)]
  IN  /\ c # core
      /\ IF ext.mode = "level" /\ ~ext.pin THEN FireAndStartPoll(c, ext, n)
         ELSE core' = c /\ ext' = ext /\ queue' = Advance(queue, n)

\* avr_extint_isc_write: a new sense mode.
WriteMode(mode, n) ==
  LET e == [ext EXCEPT !.mode = mode]
  IN  /\ e # ext
      /\ IF mode = "level" /\ ~ext.pin THEN FireAndStartPoll(core, e, n)
         ELSE core' = core /\ ext' = e /\ queue' = Advance(queue, n)

\* avr_extint_flags_write of a one: the flag is taken back, the pending interrupt
\* is not.
WriteFlag(n) ==
  /\ core' = [core EXCEPT !.raised = @ \ {INT0}]
  /\ ext' = ext /\ queue' = Advance(queue, n)

\* avr_extint_poll_level_trig; called again and again up to the present cycle.
PollExpires ==
  /\ IF ext.mode = "level" /\ INT0 \in core.enabled /\ ~ext.pin
       THEN core' = RaiseIfNew(core) /\ ext' = ext /\ queue' = Again(queue, 1)
       ELSE core' = core /\ ext' = [ext EXCEPT !.polling = FALSE] /\ queue' = Tail(queue)
  /\ UNCHANGED <<wdt, adc, tx>>

-----------------------------------------------------------------------------
(* Watchdog (avr_watchdog.c).  The enable bit of its vector is wdie.         *)

Watching(c, w) == w.wde \/ WDT \in c.enabled

\* avr_watchdog_set_cycle_count_and_timer: the timer when the watchdog is switched
\* on or off.  A new prescaler alone leaves it, as old_wdp is read after the write.
SetTimer(c, w, was) ==
  IF was = Watching(c, w) THEN queue
  ELSE IF Watching(c, w) THEN Register(queue, "watchdog", w.period)
  ELSE Cancel(queue, "watchdog")

\* avr_watchdog_write of value v.  Without wdce only wdce itself, or wdie and a
\* set wde, are taken; wde cannot be cleared while wdrf is set.
WriteWatchdog(v, n) ==
  LET c == [core EXCEPT !.enabled = Set(@, WDT, v.wdie)]
      open == [wdt EXCEPT !.wdce = v.wdce, !.wde = v.wde \/ wdt.wdrf, !.period = v.period]
      shut == [wdt EXCEPT !.wde = @ \/ v.wde]
      was == Watching(core, wdt)
  IN  \/ /\ wdt.wdce
         /\ core' = [c EXCEPT !.raised = Set(@, WDT, v.flag)]
         /\ wdt' = open
         /\ queue' = Advance(SetTimer(c, open, was), n)
      \/ /\ ~wdt.wdce /\ v.wdce /\ v.wde
         /\ core' = core
         /\ wdt' = [wdt EXCEPT !.wdce = TRUE]
         /\ queue' = Advance(Register(queue, "wdce", ChangeCycles), n)
      \/ /\ ~wdt.wdce /\ ~(v.wdce /\ v.wde)
         /\ core' = c
         /\ wdt' = shut
         /\ queue' = Advance(SetTimer(c, shut, was), n)

\* A write to MCUSR clears wdrf.
ClearResetFlag(n) ==
  /\ wdt.wdrf
  /\ wdt' = [wdt EXCEPT !.wdrf = FALSE]
  /\ core' = core /\ queue' = Advance(queue, n)

\* The wdr instruction, avr_watchdog_ioctl.
Wdr(n) ==
  /\ queue' = Advance(IF Watching(core, wdt) THEN Register(queue, "watchdog", wdt.period)
                      ELSE queue, n)
  /\ core' = core /\ wdt' = wdt

\* avr_watchdog_timer: interrupt and go on, or have the next run reset.  A mutated
\* form does not ask to be called again.
WatchdogOnce ==
  /\ IF WDT \in core.enabled THEN core' = Raise(core, WDT) /\ wdt' = wdt
     ELSE core' = core /\ wdt' = [wdt EXCEPT !.reset = @ \/ wdt.wde]
  /\ queue' = Tail(queue)
  /\ UNCHANGED <<ext, adc, tx>>
WatchdogExpires ==
  /\ IF WDT \in core.enabled
       THEN /\ core' = Raise(core, WDT) /\ wdt' = wdt
            /\ queue' = Again(queue, Head(queue).left + wdt.period)
       ELSE /\ core' = core /\ wdt' = [wdt EXCEPT !.reset = @ \/ wdt.wde]
            /\ queue' = Tail(queue)
  /\ UNCHANGED <<ext, adc, tx>>

\* avr_wdce_clear.
ChangeExpires ==
  /\ wdt' = [wdt EXCEPT !.wdce = FALSE]
  /\ queue' = Tail(queue)
  /\ UNCHANGED <<core, ext, adc, tx>>

-----------------------------------------------------------------------------
(* Converter (avr_adc.c).                                                   *)

\* avr_adc_write_adcsra of value v: adsc cannot be cleared but with aden.
WriteAdc(v, n) ==
  LET stop  == adc.aden /\ ~v.aden
      adsc  == ~stop /\ (adc.adsc \/ v.adsc)
      first == adc.first \/ (~adc.aden /\ v.aden)
      cycles == IF first THEN FirstCycles ELSE NextCycles
      off   == IF stop THEN Cancel(queue, "adc") ELSE queue
  IN  /\ core' = [core EXCEPT !.enabled = Set(@, ADC, v.adie), !.raised = Set(@, ADC, v.flag)]
      /\ adc' = [aden |-> v.aden, adsc |-> adsc, adate |-> v.adate, first |-> first]
      /\ queue' = Advance(IF adsc /\ ~adc.adsc THEN Register(off, "adc", cycles) ELSE off, n)

\* avr_adc_int_raise; free running, it triggers the next conversion itself.
ConversionEnds ==
  /\ IF adc.aden
       THEN /\ core' = Raise(core, ADC)
            /\ adc' = [adc EXCEPT !.adsc = adc.adate, !.first = FALSE]
            /\ queue' = IF adc.adate THEN Again(queue, NextCycles) ELSE Tail(queue)
       ELSE core' = core /\ adc' = adc /\ queue' = Tail(queue)
  /\ UNCHANGED <<ext, wdt, tx>>

-----------------------------------------------------------------------------
(* Serial port (avr_uart.c).  The transmitter stays on, as after a reset, and  *)
(* its other interrupt, of a byte that has gone, stays disabled.              *)

\* avr_uart_write of the enable bit of UDRE: an empty buffer is told at once.
WriteUartMask(on, n) ==
  LET c == [core EXCEPT !.enabled = Set(@, UDRE, on)]
  IN  /\ c # core
      /\ core' = IF on /\ ~HasStatus(queue, "txc") THEN Raise(c, UDRE) ELSE c
      /\ queue' = Advance(queue, n)
      /\ tx' = tx

\* avr_uart_clear_interrupt: the flag goes although it is sticky.
UartClear(c) ==
  IF UDRE \in c.raised THEN [ClearInterrupt(c, UDRE) EXCEPT !.raised = @ \ {UDRE}] ELSE c

\* avr_uart_udr_write.
WriteByte(n) ==
  /\ core' = UartClear(core)
  /\ tx' = tx + 1
  /\ queue' = Advance(IF HasStatus(queue, "txc") THEN queue
                      ELSE Register(queue, "txc", ByteCycles), n)

\* avr_uart_txc_raise: while UDRE is enabled, the empty buffer is told every time.
ByteSent ==
  LET left == IF tx = 0 THEN 0 ELSE tx - 1
  IN  /\ core' = IF left > 0 THEN UartClear(core) ELSE Raise(core, UDRE)
      /\ tx' = left
      /\ queue' = IF left > 0 \/ UDRE \in core.enabled
                     THEN Again(queue, Head(queue).left + ByteCycles)
                   ELSE Tail(queue)
  /\ UNCHANGED <<ext, wdt, adc>>

-----------------------------------------------------------------------------
(* avr_run_one: one instruction, which takes n cycles.                      *)

Nop(n) ==
  /\ queue' = Advance(queue, n)
  /\ UNCHANGED <<core, ext, wdt, adc, tx, writes>>

\* Instructions that only concern the core: sei or reti, cli, sleep, and one that
\* is not valid (avr_sadly_crashed).
CoreInstruction(n) ==
  /\ \/ core' = SetI(core, TRUE)
     \/ core' = SetI(core, FALSE)
     \/ core' = Sleep(core)
     \/ core' = [core EXCEPT !.state = "Crashed"]
  /\ queue' = Advance(queue, n)
  /\ UNCHANGED <<ext, wdt, adc, tx>>

\* A port that is an output drives the pin; digital devices may drive it back.
ExtInstruction(n) ==
  /\ \/ \E on \in BOOLEAN : WriteMask(on, n) \/ PinChange(on, n)
     \/ \E mode \in Modes : WriteMode(mode, n)
     \/ WriteFlag(n)
  /\ UNCHANGED <<wdt, adc, tx>>

WatchdogInstruction(n) ==
  /\ \/ \E v \in [wdce : BOOLEAN, wde : BOOLEAN, wdie : BOOLEAN, flag : BOOLEAN,
                  period : Periods] : WriteWatchdog(v, n)
     \/ ClearResetFlag(n)
     \/ Wdr(n)
  /\ UNCHANGED <<ext, adc, tx>>

\* The firmware starts no conversion while the converter is off.
AdcInstruction(n) ==
  /\ \E v \in [aden : BOOLEAN, adsc : BOOLEAN, adate : BOOLEAN, adie : BOOLEAN,
               flag : BOOLEAN] : (v.adsc => v.aden) /\ WriteAdc(v, n)
  /\ UNCHANGED <<ext, wdt, tx>>

UartInstruction(n) ==
  /\ (\E on \in BOOLEAN : WriteUartMask(on, n)) \/ WriteByte(n)
  /\ UNCHANGED <<ext, wdt, adc>>

Instruction(n) ==
  \/ Nop(n)
  \/ /\ writes < MaxWrites /\ writes' = writes + 1
     /\ \/ CoreInstruction(n) \/ ExtInstruction(n)
        \/ WatchdogInstruction(n) \/ AdcInstruction(n)
        \/ UartInstruction(n)

-----------------------------------------------------------------------------
(* avr_callback_run_raw, and the run that a watchdog has put in its place.   *)

\* A mutated form of an instruction does not count its cycles.
RunUncounted ==
  /\ phase = "run" /\ ~wdt.reset /\ core.state = "Running"
  /\ (\E n \in Costs : Instruction(n)) /\ ahead' = ahead
  /\ phase' = "timers"
RunOne ==
  /\ phase = "run" /\ ~wdt.reset /\ core.state = "Running"
  /\ \E n \in Costs : Instruction(n) /\ ahead' = ahead - n
  /\ phase' = "timers"

\* A core that sleeps or has stopped goes straight to its timers.
RunNone ==
  /\ phase = "run" /\ ~wdt.reset /\ core.state # "Running"
  /\ phase' = "timers"
  /\ UNCHANGED <<core, queue, ext, wdt, adc, tx, ahead, writes>>

TimerExpires ==
  /\ phase = "timers" /\ Due(queue)
  /\ LET what == Head(queue).what
     IN  \/ what = "poll" /\ PollExpires
         \/ what = "watchdog" /\ WatchdogExpires
         \/ what = "wdce" /\ ChangeExpires
         \/ what = "adc" /\ ConversionEnds
         \/ what = "txc" /\ ByteSent
  /\ UNCHANGED <<phase, ahead, writes>>

\* The loop of mcu_avr_clock, with n cycles passing before its test.
Loop(n) ==
  IF ahead > n THEN phase' = "run" /\ ahead' = ahead - n
  ELSE phase' = "idle" /\ ahead' = ahead - n + Steps

\* After the timers: asleep with interrupts off, the core is done; else it sleeps
\* to the next timer.  Interrupts are served in any case.
EndOfRun ==
  /\ phase = "timers" /\ ~Due(queue)
  /\ IF core.state = "Sleeping" /\ ~core.I
       THEN core' = [core EXCEPT !.state = "Done"] /\ queue' = queue /\ Loop(0)
       ELSE LET n == IF core.state = "Sleeping" THEN 1 + SleepCycles(queue, SleepDefault) ELSE 0
            IN  /\ core' = IF Stopped THEN core ELSE Service(core)
                /\ queue' = Advance(queue, n)
                /\ Loop(n)
  /\ UNCHANGED <<ext, wdt, adc, tx, writes>>

\* avr_reset: registers, interrupts and timers are cleared; a watchdog that has
\* fired is restarted at its fastest.  is_polling and first are no registers.
Reset ==
  LET w == [wde |-> wdt.reset, wdce |-> FALSE, wdrf |-> wdt.reset, period |-> Fastest,
            reset |-> FALSE]
  IN  /\ core' = AfterReset
      /\ queue' = IF wdt.reset THEN Register(<<>>, "watchdog", Fastest) ELSE <<>>
      /\ ext' = [ext EXCEPT !.mode = "level"]
      /\ wdt' = w
      /\ adc' = [aden |-> FALSE, adsc |-> FALSE, adate |-> FALSE, first |-> adc.first]
      /\ tx' = 0 /\ writes' = 0

\* avr_watchdog_run_callback_software_reset.
WatchdogReset ==
  /\ phase = "run" /\ wdt.reset
  /\ Reset
  /\ UNCHANGED <<phase, ahead>>

-----------------------------------------------------------------------------
(* What the circuit calls.                                                  *)

Clock ==
  /\ phase = "idle"
  /\ Loop(0)
  /\ UNCHANGED <<core, queue, ext, wdt, adc, tx, writes>>

\* mcu_avr_event.
Event ==
  /\ phase = "idle"
  /\ \E level \in BOOLEAN : PinChange(level, 0)
  /\ UNCHANGED <<wdt, adc, tx, phase, ahead, writes>>

\* mcu_avr_reset.
McuReset ==
  /\ phase = "idle"
  /\ Reset
  /\ UNCHANGED <<phase, ahead>>

Run == RunOne \/ RunNone \/ TimerExpires \/ EndOfRun \/ WatchdogReset

Next == Run \/ Clock \/ Event \/ McuReset

\* A call of mcu_avr_clock runs on until it returns.
Spec == Init /\ [][Next]_vars /\ WF_vars(Run)

-----------------------------------------------------------------------------
TypeOK ==
  /\ core \in Cores /\ TableFits(core)
  /\ queue \in Seq([what : Timers, left : Int])
  /\ ext \in [mode : Modes, pin : BOOLEAN, polling : BOOLEAN]
  /\ wdt \in [wde : BOOLEAN, wdce : BOOLEAN, wdrf : BOOLEAN, period : Periods, reset : BOOLEAN]
  /\ adc \in [aden : BOOLEAN, adsc : BOOLEAN, adate : BOOLEAN, first : BOOLEAN]
  /\ tx \in Nat /\ phase \in {"idle", "run", "timers"} /\ ahead \in Int /\ writes \in 0..MaxWrites

\* Whatever the firmware, the devices and the circuit do in whatever order, no
\* interrupt in the fifo gets stuck: an entry is looked for as soon as interrupts
\* are on, interrupt_state never asks for an entry that is not there, and the core
\* never sleeps on one that it would have to serve.  A vector that found the fifo
\* full has no entry, and is PendingIsQueued's exception.
NeverStuck == TableAwake(core)

\* An interrupt that is marked pending can be found in the fifo (the comment on
\* `pending` in sim_interrupts.h), unless the fifo was full when it came.
PendingIsQueued == TableQueued(core)

\* A device that waits for a timer has it in the list, in time: a watchdog that is
\* on, unless it has already fired; a conversion; the window to change the
\* watchdog; bytes to send.  The list is in order and holds no timer twice.
TimersKept ==
  /\ ListInOrder(queue)
  /\ Watching(core, wdt) => Armed(queue, "watchdog") \/ wdt.reset
  /\ adc.adsc => adc.aden /\ Armed(queue, "adc")
  /\ wdt.wdce => Armed(queue, "wdce")
  /\ tx > 0 => Armed(queue, "txc")
  /\ Armed(queue, "poll") => ext.polling

\* A call of mcu_avr_clock returns, as long as the firmware does not stop the core.
ClockReturns == phase # "idle" ~> phase = "idle" \/ Stopped

\* A core that is done (asleep with interrupts off: "avr software stopped
\* gracefully", sim_avr.h) leaves the call of mcu_avr_clock, so that the circuit can
\* go on without it.
QuitsGracefully == core.state = "Done" ~> phase = "idle"
=============================================================================
