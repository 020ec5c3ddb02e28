----------------------------- MODULE MCCircuit -----------------------------
(***************************************************************************)
(* Circuit on a mixed board: an MCU pin (d1) feeds a buffer whose output   *)
(* (d2) feeds a DAC bridge onto the analog node a1, which carries a diode  *)
(* and an MCU analog pin; a capacitor joins a1 to a2.                      *)
(***************************************************************************)
EXTENDS Circuit, TLC

CONSTANTS a1, a2, d1, d2, cap, dio, mcu, buf, dac

MCANode == {a1, a2}
MCDNode == {d1, d2}
MCElem  == {cap, dio, mcu, buf, dac}

MCFastList   == (a1 :> {mcu}) @@ (a2 :> {})
MCReactList  == (a1 :> {cap}) @@ (a2 :> {cap})
MCNonLinList == (a1 :> {dio}) @@ (a2 :> {})
MCLogicList  == (d1 :> {mcu, buf}) @@ (d2 :> {dac})
MCStamps     == (cap :> {a1, a2}) @@ (dio :> {a1}) @@ (mcu :> {}) @@ (buf :> {})
                @@ (dac :> {a1})
MCDrives     == [e \in MCElem |-> CASE e = mcu -> {d1} [] e = buf -> {d2} [] OTHER -> {}]
MCPortPins   == [e \in MCElem |-> IF e = mcu THEN {d1, a1} ELSE {}]
=============================================================================
