------------------------------ MODULE MCGates ------------------------------
(* A board for Gates: combined logic between two sources, a probe, and flip-flops *)
(* that are clocked by one of them.                                          *)
EXTENDS Gates, TLC

CONSTANTS a, c, gnd, na, y, o1, z, q, nq, jq, sa, sc,
          inv, mux, demux, xor, probe, div, jk

\* a -> NOT -> MUX (selected by c) -> DEMUX (selected by c); a divider by two
\* that a resets, a JK flip-flop that follows a, the XOR of both, and a probe on it.
BoardNode == {a, c, gnd, na, y, o1, z, q, nq, jq}
BoardGate == {inv, mux, demux, xor, probe, div, jk}
BoardKind == inv :> "or" @@ mux :> "mux" @@ demux :> "demux" @@ xor :> "xor"
             @@ probe :> "probe" @@ div :> "dff" @@ jk :> "jk"
BoardPin == sa :> <<a>> @@ sc :> <<c>> @@ inv :> <<a, a, na>>
            @@ mux :> <<a, na, c, gnd, y, NC>> @@ demux :> <<NC, o1, c, gnd, y>>
            @@ probe :> <<z>> @@ xor :> <<q, jq, z>>
            @@ div :> <<NC, a, c, nq, q, nq>> @@ jk :> <<NC, NC, c, a, na, jq, NC>>
=============================================================================
