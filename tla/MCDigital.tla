----------------------------- MODULE MCDigital -----------------------------
(***************************************************************************)
(* CircuitLatency on a board whose digital half no port pin enters: a       *)
(* driver source clocks d1, a gate reads d1 and its own output d2 (a ring    *)
(* that raises its own event), and a DAC bridge carries d2 onto the analog  *)
(* node a1 with a capacitor, a diode and a pin of an MCU that is both an    *)
(* ADC channel and a port.                                                 *)
(***************************************************************************)
EXTENDS CircuitLatency, TLC

CONSTANTS a1, d1, d2, cap, dio, mcu, src, gate, dac

MCElem == {cap, dio, mcu, src, gate, dac}

MCFastList   == a1 :> {mcu}
MCReactList  == a1 :> {cap}
MCNonLinList == a1 :> {dio}
MCLogicList  == (d1 :> {gate}) @@ (d2 :> {gate, dac})
MCStamps     == [e \in MCElem |-> IF e \in {cap, dio, dac} THEN {a1} ELSE {}]
MCDrives     == [e \in MCElem |-> CASE e = src -> {d1} [] e = gate -> {d2} [] OTHER -> {}]
MCPortPins   == [e \in MCElem |-> IF e = mcu THEN {a1} ELSE {}]
=============================================================================
