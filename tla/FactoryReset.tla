---------------------------- MODULE FactoryReset ----------------------------
(***************************************************************************)
(* What a factory reset promises, without steps, failures or threads: the  *)
(* device is off (or booting), running, wiping, or stopped in its boot; it *)
(* is commissioned or not, and its commissioning window is open or not.    *)
(* MatterWipe, which has every step of the wipe, and Boot, which has the   *)
(* threads around it, both implement this specification.                   *)
(***************************************************************************)
VARIABLES phase, commissioned, window

vars == <<phase, commissioned, window>>

Phases == {"off", "running", "wiping", "stopped"}

Init == phase = "off" /\ commissioned \in BOOLEAN /\ window = FALSE

\* The event loop starts; without fabrics the window is opened, which may fail.
PowerUp ==
    /\ phase = "off" /\ phase' = "running"
    /\ window' \in {FALSE, ~commissioned}
    /\ UNCHANGED commissioned

\* The boot ends before its event loop, until the power goes.
BootFails ==
    /\ phase = "off" /\ phase' = "stopped"
    /\ UNCHANGED <<commissioned, window>>

Commission ==
    /\ phase = "running" /\ window
    /\ commissioned' = TRUE /\ window' = FALSE
    /\ UNCHANGED phase

\* The last fabric is removed: no window is opened.
Leave ==
    /\ phase = "running" /\ commissioned
    /\ commissioned' = FALSE
    /\ UNCHANGED <<phase, window>>

\* A window ends, or an administrator opens one.
ToggleWindow ==
    /\ phase = "running" /\ (commissioned \/ window)
    /\ window' = ~window
    /\ UNCHANGED <<phase, commissioned>>

Wipe ==
    /\ phase = "running" /\ phase' = "wiping"
    /\ window' = FALSE
    /\ commissioned' \in {commissioned, FALSE}

Forget ==
    /\ phase = "wiping" /\ commissioned
    /\ commissioned' = FALSE
    /\ UNCHANGED <<phase, window>>

Reset ==
    /\ phase = "wiping" /\ phase' = "off"
    /\ UNCHANGED <<commissioned, window>>

PowerLoss ==
    /\ phase # "off" /\ phase' = "off"
    /\ window' = FALSE
    /\ UNCHANGED commissioned

Next ==
    \/ PowerUp \/ BootFails \/ Commission \/ Leave \/ ToggleWindow
    \/ Wipe \/ Forget \/ Reset \/ PowerLoss

Spec == Init /\ [][Next]_vars

\* A wipe ends in a reset, and the device boots again.
FairSpec == Spec /\ WF_vars(Reset) /\ WF_vars(PowerUp \/ BootFails)
=============================================================================
