----------------------------- MODULE MCAppTask -----------------------------
(* AppTask for TLC: the LEDs of the boards, as main/include/AppConfig.h      *)
(* names them (SYSTEM_STATE_LED is DK_LED1, IDENTIFY_STATE_LED is DK_LED2).  *)
EXTENDS AppTask

\* nRF7002 DK: no LED is left for the factory-reset signal.
TwoLedBoard == {}

\* nRF52840 DK, nRF5340 DK: FACTORY_RESET_SIGNAL_LED, with its blink timer and its
\* events.  FACTORY_RESET_SIGNAL_LED1, which is given the same calls at the same
\* places, is left to the proofs, which hold for any set.
OneSignalLED == {"DK_LED3"}
=============================================================================
