------------------------------ MODULE AppTask ------------------------------
(***************************************************************************)
(* The application task (main/src/app/AppTask.cpp): the function button,   *)
(* the bounded message queue sAppEventQueue, the one-shot k_timer          *)
(* sFunctionTimer, the app thread that takes events and runs their         *)
(* handlers, and the LEDs whose blink timers share the queue.              *)
(*                                                                         *)
(* Actors: the button driver and the k_timers post from interrupt or       *)
(* system work-queue context; the app thread takes one event (k_msgq_get)  *)
(* and then runs its handler (DispatchEvent); the CHIP event loop runs     *)
(* ChipEventHandler and the Identify callbacks.  The state a handler of    *)
(* the app thread shares with the CHIP thread is the LEDs and the flags of *)
(* the connectivity.  The one handler of the app thread that reads the     *)
(* flags is two steps, with the CHIP thread, of the higher priority, free  *)
(* to run between its reading and its call.  A call is one step here;      *)
(* module LEDWidget splits the calls of the status LED, which both threads *)
(* make, into statements.                                                  *)
(*                                                                         *)
(* Time is abstract: a running timer may expire at any moment, and the app *)
(* thread may be kept from running for any while (it has a low priority).  *)
(***************************************************************************)
EXTENDS Naturals, Sequences

CONSTANTS
    kAppEventQueueSize,  \* capacity of sAppEventQueue (10 in the code)
    StatusLED,           \* SYSTEM_STATE_LED
    IdentifyLED,         \* IDENTIFY_STATE_LED
    FactoryResetLEDs,    \* the FACTORY_RESET_SIGNAL_LEDs; {} on a board with 2 LEDs
    MaxPresses           \* bound: how often the user presses the button

LEDs == {StatusLED, IdentifyLED} \union FactoryResetLEDs

ASSUME QueueAssumption == kAppEventQueueSize \in Nat \ {0}
ASSUME LedAssumption   == /\ StatusLED # IdentifyLED
                          /\ StatusLED \notin FactoryResetLEDs
                          /\ IdentifyLED \notin FactoryResetLEDs
ASSUME PressAssumption == MaxPresses \in Nat

\* enum class FunctionEvent: two enumerators have the value 0.
NoneSelected   == 0
SoftwareUpdate == 0
FactoryReset   == 1

\* What can be queued.  Every event is posted with its handler set, and every
\* button event is about FUNCTION_BUTTON.
NoEvent        == [type |-> "None"]
ButtonPushed   == [type |-> "Button", action |-> "Pushed"]
ButtonReleased == [type |-> "Button", action |-> "Released"]
TimerEvent     == [type |-> "Timer"]
UpdateLedState(led) == [type |-> "UpdateLedState", led |-> led]

Events == {ButtonPushed, ButtonReleased, TimerEvent} \union {UpdateLedState(led) : led \in LEDs}

\* What a widget shows: Set(false), Set(true), or Blink(on, off) by its periods.
Blinks  == {"50/950", "100/100", "500/500", "250/250"}
Widget  == [shows : {"off", "on"} \union Blinks, timer : BOOLEAN]

\* No call is to be made.
NoCall == [shows |-> "none", timer |-> FALSE]

VARIABLES
    sAppEventQueue,        \* the message queue
    event,                 \* the event the app thread has taken, or NoEvent
    statusCall,            \* what its UpdateStatusLED is about to show, or NoCall
    mFunction,             \* AppTask::mFunction
    mFunctionTimerActive,  \* AppTask::mFunctionTimerActive
    sFunctionTimer,        \* TRUE while the k_timer runs
    buttonDown,            \* the physical button
    presses,               \* how often it was pressed (bounded by MaxPresses)
    net,                   \* network: sIsNetworkProvisioned && sIsNetworkEnabled, which are read
                           \* together only; ble: sHaveBLEConnections
    leds,                  \* the widgets: pattern shown, blink timer running
    resetScheduled,        \* Server::ScheduleFactoryReset() has been called
    h                      \* history, read by properties only (see History)

fnVars  == <<mFunction, mFunctionTimerActive, sFunctionTimer>>
btnVars == <<buttonDown, presses>>
vars    == <<sAppEventQueue, event, statusCall, fnVars, btnVars, net, leds, resetScheduled, h>>

(***************************************************************************)
(* History variables.  No guard and no other variable depends on them.     *)
(***************************************************************************)
History ==
    [fresh       : BOOLEAN,       \* the last Timer event posted belongs to the latest arming
     heldExpiry  : BOOLEAN,       \* the button was down when the function timer last expired
     lostExpiry  : BOOLEAN,       \* ... and its latest release had met a full queue by then
     lostTimer   : BOOLEAN,       \* the event of the latest arming met a full queue
     lostRelease : BOOLEAN,       \* the latest release met a full queue
     lostUpdate  : SUBSET LEDs,   \* widgets whose latest timer event met a full queue
     fired       : BOOLEAN]       \* the reset was requested and no release handled since

(***************************************************************************)
(* PostEvent: k_msgq_put with K_NO_WAIT drops the event at a full queue.   *)
(***************************************************************************)
QueueFull == Len(sAppEventQueue) = kAppEventQueueSize

\* Mutated form: the put is not refused at a full queue.
PostEventUnbounded(e) == sAppEventQueue' = Append(sAppEventQueue, e)

PostEvent(e) ==
    sAppEventQueue' = IF QueueFull THEN sAppEventQueue ELSE Append(sAppEventQueue, e)

(***************************************************************************)
(* LEDWidget, at the grain of one call.                                    *)
(***************************************************************************)
Lit(state)  == [shows |-> IF state THEN "on" ELSE "off", timer |-> FALSE]
Blink(rate) == [shows |-> rate, timer |-> TRUE]

StatusPattern(n) ==
    IF n.network THEN Lit(TRUE)
    ELSE IF n.ble THEN Blink("100/100") ELSE Blink("50/950")

\* The widgets now, with those of ws showing p.
Showing(now, ws, p) == [led \in LEDs |-> IF led \in ws THEN p ELSE now[led]]

\* The reset signal, on the factory-reset LEDs where the board has them.
ResetSignal ==
    IF FactoryResetLEDs = {}
    THEN Showing(leds, {StatusLED}, Blink("500/500"))
    ELSE Showing(Showing(leds, {StatusLED}, Lit(FALSE)), FactoryResetLEDs, Blink("500/500"))

\* The LEDs that carry the signal.
Carriers == IF FactoryResetLEDs = {} THEN {StatusLED} ELSE FactoryResetLEDs

\* The signal taken back.
SignalOff == Showing(leds, Carriers, Lit(FALSE))

SignalLEDs == {StatusLED} \union FactoryResetLEDs

Init ==
    /\ sAppEventQueue = <<>>
    /\ event = NoEvent
    /\ statusCall = NoCall
    /\ mFunction = NoneSelected
    /\ mFunctionTimerActive = FALSE
    /\ sFunctionTimer = FALSE
    /\ buttonDown = FALSE
    /\ presses = 0
    /\ net = [network |-> FALSE, ble |-> FALSE]
    /\ leds = [led \in LEDs |-> IF led = StatusLED THEN StatusPattern(net) ELSE Lit(FALSE)]
    /\ resetScheduled = FALSE
    /\ h = [fresh |-> FALSE, heldExpiry |-> FALSE, lostExpiry |-> FALSE, lostTimer |-> FALSE,
            lostRelease |-> FALSE, lostUpdate |-> {}, fired |-> FALSE]

(***************************************************************************)
(* Interrupt side.                                                         *)
(***************************************************************************)
\* ButtonEventHandler, the button going down.
PushButton ==
    /\ ~buttonDown
    /\ presses < MaxPresses
    /\ buttonDown' = TRUE
    /\ presses' = presses + 1
    /\ PostEvent(ButtonPushed)
    /\ UNCHANGED <<event, statusCall, fnVars, net, leds, resetScheduled, h>>

\* ButtonEventHandler, the button going up.
ReleaseButton ==
    /\ buttonDown
    /\ buttonDown' = FALSE
    /\ PostEvent(ButtonReleased)
    /\ h' = [h EXCEPT !.lostRelease = QueueFull]
    /\ UNCHANGED <<event, statusCall, fnVars, presses, net, leds, resetScheduled>>

\* The k_timer expires: FunctionTimerTimeoutCallback posts a Timer event.
FunctionTimerTimeoutCallback ==
    /\ sFunctionTimer
    /\ sFunctionTimer' = FALSE
    /\ PostEvent(TimerEvent)
    /\ h' = [h EXCEPT !.fresh = ~QueueFull, !.lostTimer = QueueFull, !.heldExpiry = buttonDown,
                      !.lostExpiry = h.lostRelease]
    /\ UNCHANGED <<event, statusCall, mFunction, mFunctionTimerActive, btnVars, net, leds, resetScheduled>>

\* A blink timer expires: LedStateTimerHandler calls LEDStateUpdateHandler.
LEDStateUpdateHandler(led) ==
    /\ leds[led].timer
    /\ leds' = [leds EXCEPT ![led].timer = FALSE]
    /\ PostEvent(UpdateLedState(led))
    /\ h' = [h EXCEPT !.lostUpdate = IF QueueFull THEN @ \union {led} ELSE @ \ {led}]
    /\ UNCHANGED <<event, statusCall, fnVars, btnVars, net, resetScheduled>>

(***************************************************************************)
(* App thread: AppTaskMain takes an event, DispatchEvent runs its handler. *)
(***************************************************************************)
GetEvent ==
    /\ event = NoEvent
    /\ sAppEventQueue # <<>>
    /\ event' = Head(sAppEventQueue)
    /\ sAppEventQueue' = Tail(sAppEventQueue)
    /\ UNCHANGED <<statusCall, fnVars, btnVars, net, leds, resetScheduled, h>>

Handled == event' = NoEvent /\ statusCall' = NoCall /\ UNCHANGED <<sAppEventQueue, btnVars, net>>

\* Mutated form: the k_timer is not started.
StartTimerFlagOnly == mFunctionTimerActive' = TRUE /\ UNCHANGED sFunctionTimer

StartTimer ==
    /\ mFunctionTimerActive' = TRUE
    /\ sFunctionTimer' = TRUE

\* Mutated form: mFunctionTimerActive is not reset.
CancelTimerKeepsFlag == sFunctionTimer' = FALSE /\ UNCHANGED mFunctionTimerActive

CancelTimer ==
    /\ mFunctionTimerActive' = FALSE
    /\ sFunctionTimer' = FALSE

\* What StartTimer and CancelTimer do to the history: Timer events queued
\* before are stale from here on.
Rearmed == [h EXCEPT !.fresh = FALSE, !.lostTimer = FALSE]

\* FunctionTimerEventHandler with the trigger timer over: open the cancel
\* window and signal it.
OpenCancelWindow ==
    /\ event = TimerEvent
    /\ mFunctionTimerActive
    /\ mFunction = SoftwareUpdate
    /\ StartTimer
    /\ mFunction' = FactoryReset
    /\ leds' = ResetSignal
    /\ h' = [Rearmed EXCEPT !.lostUpdate = @ \ SignalLEDs]
    /\ UNCHANGED resetScheduled
    /\ Handled

\* Mutated form: the reset is requested without a cancel window.
ScheduleFactoryResetAtOnce ==
    /\ event = TimerEvent
    /\ mFunctionTimerActive
    /\ mFunction' = NoneSelected
    /\ resetScheduled' = TRUE
    /\ h' = [h EXCEPT !.fired = TRUE]
    /\ UNCHANGED <<mFunctionTimerActive, sFunctionTimer, leds>>
    /\ Handled

\* FunctionTimerEventHandler with the cancel window over: mFunctionTimerActive
\* and the LEDs stay as they are.
ScheduleFactoryReset ==
    /\ event = TimerEvent
    /\ mFunctionTimerActive
    /\ mFunction = FactoryReset
    /\ mFunction' = NoneSelected
    /\ resetScheduled' = TRUE
    /\ h' = [h EXCEPT !.fired = TRUE]
    /\ UNCHANGED <<mFunctionTimerActive, sFunctionTimer, leds>>
    /\ Handled

\* FunctionTimerEventHandler with no function in progress.
IgnoreTimer ==
    /\ event = TimerEvent
    /\ ~mFunctionTimerActive
    /\ UNCHANGED <<fnVars, leds, resetScheduled, h>>
    /\ Handled

\* FunctionHandler, ButtonPushed.
FunctionPushed ==
    /\ event = ButtonPushed
    /\ IF ~mFunctionTimerActive /\ mFunction = NoneSelected
       THEN StartTimer /\ mFunction' = SoftwareUpdate /\ h' = Rearmed
       ELSE UNCHANGED <<fnVars, h>>
    /\ UNCHANGED <<leds, resetScheduled>>
    /\ Handled

\* FunctionHandler, ButtonReleased: the two branches that only cancel, or none.
FunctionReleased ==
    /\ event = ButtonReleased
    /\ ~(mFunctionTimerActive /\ mFunction = FactoryReset)
    /\ IF mFunctionTimerActive
       THEN CancelTimer /\ mFunction' = NoneSelected /\ h' = [Rearmed EXCEPT !.fired = FALSE]
       ELSE UNCHANGED fnVars /\ h' = [h EXCEPT !.fired = FALSE]
    /\ UNCHANGED <<leds, resetScheduled>>
    /\ Handled

\* Mutated form: a release in the cancel window does nothing.
CancelInWindowIgnored ==
    /\ event = ButtonReleased /\ statusCall = NoCall
    /\ mFunctionTimerActive /\ mFunction = FactoryReset
    /\ UNCHANGED <<fnVars, leds, resetScheduled, h>>
    /\ Handled

\* The branch of the cancel window: the signal is taken back, and UpdateStatusLED
\* reads the flags.
CancelInWindow ==
    /\ event = ButtonReleased /\ statusCall = NoCall
    /\ mFunctionTimerActive /\ mFunction = FactoryReset
    /\ leds' = SignalOff
    /\ statusCall' = StatusPattern(net)
    /\ h' = [h EXCEPT !.lostUpdate = @ \ Carriers]
    /\ UNCHANGED <<sAppEventQueue, event, fnVars, btnVars, net, resetScheduled>>

\* ... and calls Set or Blink with what they were; then the timer is cancelled.
ShowStatus ==
    /\ event = ButtonReleased /\ statusCall # NoCall
    /\ leds' = Showing(leds, {StatusLED}, statusCall)
    /\ CancelTimer /\ mFunction' = NoneSelected
    /\ h' = [Rearmed EXCEPT !.lostUpdate = @ \ {StatusLED}, !.fired = FALSE]
    /\ UNCHANGED resetScheduled
    /\ Handled

\* Mutated form: a widget that does not blink any more is toggled and scheduled too.
UpdateStateUnchecked(led) ==
    /\ event = UpdateLedState(led)
    /\ leds' = [leds EXCEPT ![led].timer = TRUE]
    /\ UNCHANGED <<fnVars, resetScheduled, h>>
    /\ Handled

\* Mutated form: the next change is not scheduled.
UpdateStateToggleOnly(led) ==
    /\ event = UpdateLedState(led)
    /\ UNCHANGED <<fnVars, leds, resetScheduled, h>>
    /\ Handled

\* The handler of an UpdateLedState event: UpdateState re-arms a blinking widget.
UpdateState(led) ==
    /\ event = UpdateLedState(led)
    /\ leds' = IF leds[led].shows \in Blinks THEN [leds EXCEPT ![led].timer = TRUE] ELSE leds
    /\ h' = [h EXCEPT !.lostUpdate = IF leds[led].shows \in Blinks THEN @ \ {led} ELSE @]
    /\ UNCHANGED <<fnVars, resetScheduled>>
    /\ Handled

(***************************************************************************)
(* CHIP event loop.                                                        *)
(***************************************************************************)
\* ChipEventHandler: the flags are read from the stack, then UpdateStatusLED.
UpdateStatusLED(n) ==
    /\ net' = n
    /\ leds' = Showing(leds, {StatusLED}, StatusPattern(n))
    /\ h' = [h EXCEPT !.lostUpdate = @ \ {StatusLED}]
    /\ UNCHANGED <<sAppEventQueue, event, statusCall, fnVars, btnVars, resetScheduled>>

\* kCHIPoBLEConnectionEstablished, kCHIPoBLEConnectionClosed, kCHIPoBLEAdvertisingChange.
BleChange ==
    \E have \in BOOLEAN : UpdateStatusLED([net EXCEPT !.ble = have])

\* kWiFiConnectivityChange, kThreadStateChange.
NetworkChange ==
    \E network \in BOOLEAN : UpdateStatusLED([net EXCEPT !.network = network])

\* OnIdentifyStart and OnIdentifyStop.
Identify(pattern) ==
    /\ leds' = Showing(leds, {IdentifyLED}, pattern)
    /\ h' = [h EXCEPT !.lostUpdate = @ \ {IdentifyLED}]
    /\ UNCHANGED <<sAppEventQueue, event, statusCall, fnVars, btnVars, net, resetScheduled>>

OnIdentifyStart == Identify(Blink("250/250"))
OnIdentifyStop  == Identify(Lit(FALSE))

Dispatch ==
    \/ OpenCancelWindow \/ ScheduleFactoryReset \/ IgnoreTimer
    \/ FunctionPushed \/ FunctionReleased \/ CancelInWindow \/ ShowStatus
    \/ \E led \in LEDs : UpdateState(led)

Next ==
    \/ PushButton \/ ReleaseButton
    \/ FunctionTimerTimeoutCallback
    \/ \E led \in LEDs : LEDStateUpdateHandler(led)
    \/ GetEvent \/ Dispatch
    \/ BleChange \/ NetworkChange
    \/ OnIdentifyStart \/ OnIdentifyStop

Spec == Init /\ [][Next]_vars

(***************************************************************************)
(* Fairness: the app thread runs again after any delay, and a running      *)
(* k_timer expires unless it is stopped first.  Nothing is assumed of the  *)
(* user, of the connectivity or of the blink timers.                       *)
(***************************************************************************)
Fairness == WF_vars(GetEvent) /\ WF_vars(Dispatch) /\ WF_vars(FunctionTimerTimeoutCallback)

FairSpec == Spec /\ Fairness

(***************************************************************************)
(* Properties.                                                             *)
(***************************************************************************)
TypeOK ==
    /\ sAppEventQueue \in Seq(Events)
    /\ Len(sAppEventQueue) <= kAppEventQueueSize
    /\ event \in Events \union {NoEvent}
    /\ statusCall \in {Lit(TRUE), Blink("100/100"), Blink("50/950"), NoCall}
    /\ mFunction \in {NoneSelected, SoftwareUpdate, FactoryReset}
    /\ mFunctionTimerActive \in BOOLEAN
    /\ sFunctionTimer \in BOOLEAN
    /\ buttonDown \in BOOLEAN
    /\ presses \in 0..MaxPresses
    /\ net \in [network : BOOLEAN, ble : BOOLEAN]
    /\ leds \in [LEDs -> Widget]
    /\ resetScheduled \in BOOLEAN
    /\ h \in History

Queued(e)  == \E i \in 1..Len(sAppEventQueue) : sAppEventQueue[i] = e
Pending(e) == event = e \/ Queued(e)

\* A blinking widget never stops blinking by itself: its timer runs, or its
\* UpdateLedState event is on the way, or PostEvent has dropped that event.
\* (LEDWidget::Blink, ScheduleStateChange, UpdateState and LEDStateUpdateHandler.)
BlinkChain ==
    \A led \in LEDs :
        leds[led].shows \in Blinks /\ led \notin h.lostUpdate =>
            leds[led].timer \/ Pending(UpdateLedState(led))

\* Once the app thread has caught up with a release that was not dropped, no
\* press is in progress and no function timer runs, however presses, timer
\* events and a scheduled reset were interleaved before.  (FunctionHandler.)
IdleOnceReleased ==
    ~buttonDown /\ ~h.lostRelease /\ ~Pending(ButtonReleased) =>
        ~mFunctionTimerActive /\ ~sFunctionTimer /\ mFunction = NoneSelected

\* A press in progress cannot get stuck: until the reset is requested its timer
\* runs, or the event of this very arming is on the way or was dropped.
\* (StartTimer, CancelTimer, FunctionTimerTimeoutCallback.)
PressIsTimed ==
    mFunctionTimerActive /\ ~h.fired /\ ~h.lostTimer =>
        sFunctionTimer \/ (h.fresh /\ Pending(TimerEvent))

\* The Timer event in hand is the one of the latest arming of sFunctionTimer.
Genuine == event = TimerEvent /\ h.fresh /\ ~Queued(TimerEvent)

\* The Timer event in hand requests the factory reset.
AboutToReset == event = TimerEvent /\ mFunctionTimerActive /\ mFunction = FactoryReset

\* A reset requested by the timer of the cancel window itself means the user
\* still held the button when it expired (or PostEvent dropped the release): a
\* release queued before the expiry is handled before it and cancels.
\* (FunctionTimerEventHandler, FunctionHandler; README.md:160-162.)
GenuineResetMeansHeld ==
    AboutToReset /\ Genuine => h.heldExpiry \/ h.lostExpiry

\* The factory-reset LEDs blink during the whole cancel window, until a release
\* in it takes the signal back.  Once no window is open and no reset has been
\* requested they are off for good: no blink event of an earlier window, still
\* queued behind the release, starts their timer again.  Only the app thread
\* writes these LEDs, so the CHIP thread cannot disturb the signal on them.  (On
\* a board with two LEDs there are none: the status LED carries the signal, and
\* a connectivity event takes it away; what that LED shows is the subject of
\* module LEDWidget.  FunctionTimerEventHandler, FunctionHandler, UpdateState.)
WindowSignalled ==
    \A led \in FactoryResetLEDs :
        /\ mFunction = FactoryReset /\ statusCall = NoCall => leds[led].shows = "500/500"
        /\ leds[led] # Lit(FALSE) => mFunction = FactoryReset \/ resetScheduled

\* A press in progress ends: in a reset request, in a cancellation, or with the
\* function timer's event dropped at a full queue.
PressEnds ==
    mFunctionTimerActive /\ ~h.fired ~> h.fired \/ ~mFunctionTimerActive \/ h.lostTimer

\* A release that reached the queue ends the press, whatever is queued with it.
ReleaseEndsPress == Pending(ButtonReleased) ~> ~mFunctionTimerActive

\* The function button keeps the promise of FactoryResetButton: the reset is
\* requested only at the end of a cancel window, the window opens only at the end
\* of a trigger phase, and every release handled goes back to idle.
Phase ==
    IF ~mFunctionTimerActive THEN "idle"
    ELSE IF mFunction = FactoryReset THEN "window"
    ELSE IF h.fired THEN "done" ELSE "trigger"

Promise == INSTANCE FactoryResetButton WITH phase <- Phase, requested <- resetScheduled

KeepsPromise == Promise!Spec

(***************************************************************************)
(* Statements of the repository's documents the code does not keep.        *)
(***************************************************************************)
\* README.md:160: the reset procedure starts when the button was "Pressed for
\* more than 3 s": the Timer event that opens the window is the one of the
\* timer this press started.
WindowNeedsFullHold ==
    event = TimerEvent /\ mFunctionTimerActive /\ mFunction = SoftwareUpdate => Genuine

\* README.md:160-162: "Releasing the button within the 3-second window cancels
\* the factory reset procedure": a reset means the button was still down when
\* the timer expired.
ReleaseInWindowCancels == AboutToReset /\ Genuine => h.heldExpiry
=============================================================================
