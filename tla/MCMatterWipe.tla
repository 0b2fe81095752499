---------------------------- MODULE MCMatterWipe ----------------------------
(* MatterWipe for TLC: a fabric table with two fabrics; index 0 is the one   *)
(* no fabric has.                                                            *)
EXTENDS MatterWipe

TwoFabrics == 1..2
=============================================================================
