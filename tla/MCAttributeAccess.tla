-------------------------- MODULE MCAttributeAccess --------------------------
(* AttributeAccess for TLC, with the time scaled down: microseconds have 6   *)
(* bits, seconds 3.  The times are the ends of the two widths and both sides *)
(* of the two limits: 31 is the last time whose seconds fit, 51 the last one *)
(* that converts.                                                            *)
EXTENDS AttributeAccess

ScaledTimes == {0, 5, 31, 32, 51, 52, 63}
=============================================================================
