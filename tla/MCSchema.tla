------------------------------ MODULE MCSchema ------------------------------
(***************************************************************************)
(* Netlist with components of two pins: two of them make two joints in a     *)
(* row, a wire between two joints and a wire from a component to itself.     *)
(***************************************************************************)
EXTENDS Netlist
=============================================================================
