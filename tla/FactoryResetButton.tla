------------------------- MODULE FactoryResetButton -------------------------
(***************************************************************************)
(* What the function button promises, without queue, timers, LEDs or other *)
(* threads: a press starts a trigger phase, its end opens a window in      *)
(* which a release cancels, and only the end of that window requests the   *)
(* factory reset.  AppTask implements this specification.                  *)
(*                                                                         *)
(* Reopen is the one step a reader would not expect: FunctionEvent gives   *)
(* NoneSelected and SoftwareUpdate the same value and the reset request    *)
(* leaves mFunctionTimerActive set, so after the request the code is where *)
(* a press in its trigger phase is, and a Timer event still queued opens   *)
(* a window again.                                                         *)
(***************************************************************************)
VARIABLES phase, requested

Phases == {"idle", "trigger", "window", "done"}

Init == phase = "idle" /\ requested = FALSE

Press      == phase = "idle" /\ phase' = "trigger" /\ UNCHANGED requested
OpenWindow == phase = "trigger" /\ phase' = "window" /\ UNCHANGED requested
Request    == phase = "window" /\ phase' = "done" /\ requested' = TRUE
Reopen     == phase = "done" /\ phase' = "window" /\ UNCHANGED requested
Release    == phase # "idle" /\ phase' = "idle" /\ UNCHANGED requested

Next == Press \/ OpenWindow \/ Request \/ Reopen \/ Release

Spec == Init /\ [][Next]_<<phase, requested>>
=============================================================================
