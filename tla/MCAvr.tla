------------------------------- MODULE MCAvr -------------------------------
(***************************************************************************)
(* Avr with three vectors of the order they have in an ATmega, and times so  *)
(* short that every timer comes due in every phase of the others.           *)
(***************************************************************************)
EXTENDS Avr
=============================================================================
