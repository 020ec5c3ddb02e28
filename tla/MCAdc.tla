------------------------------- MODULE MCAdc -------------------------------
(***************************************************************************)
(* Circuit on the board of testcase/test-mdel-adc.c: an ADC bridge whose    *)
(* input a1 a voltage source moves, and whose output d1 is a digital node.  *)
(* adcinit.c:42,52 registers the bridge with both its nodes; adc.c:40 gives *)
(* it no pfn_event.                                                        *)
(***************************************************************************)
EXTENDS Circuit, TLC

CONSTANTS a1, d1, adc, volt

MCFastList   == a1 :> {adc}
MCEmptyList  == a1 :> {}
MCLogicList  == d1 :> {adc}
MCStamps     == (adc :> {}) @@ (volt :> {a1})
MCDrives     == (adc :> {d1}) @@ (volt :> {})
MCPortPins   == [e \in {adc, volt} |-> {}]
=============================================================================
