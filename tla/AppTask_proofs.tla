--------------------------- MODULE AppTask_proofs ---------------------------
(***************************************************************************)
(* Proofs about AppTask, for every queue size, every set of factory-reset  *)
(* LEDs and any number of presses.                                         *)
(***************************************************************************)
EXTENDS AppTask, TLAPS

(***************************************************************************)
(* Events.                                                                 *)
(***************************************************************************)
\* Events of different kinds differ, and an UpdateLedState event names its LED
\* (struct AppEvent: the Type and the union member it selects).
LEMMA EventsDiffer ==
    /\ ButtonPushed # ButtonReleased /\ ButtonPushed # TimerEvent /\ ButtonReleased # TimerEvent
    /\ NoEvent \notin Events
    /\ \A led : /\ UpdateLedState(led) # ButtonPushed
                /\ UpdateLedState(led) # ButtonReleased
                /\ UpdateLedState(led) # TimerEvent
    /\ \A a, b : UpdateLedState(a) = UpdateLedState(b) => a = b
<1>1. /\ ButtonPushed.type = "Button" /\ ButtonPushed.action = "Pushed"
      /\ ButtonReleased.type = "Button" /\ ButtonReleased.action = "Released"
      /\ TimerEvent.type = "Timer" /\ NoEvent.type = "None"
      /\ \A led : UpdateLedState(led).type = "UpdateLedState" /\ UpdateLedState(led).led = led
  BY DEF ButtonPushed, ButtonReleased, TimerEvent, NoEvent, UpdateLedState
<1>2. \A e \in Events : e.type # "None"
  BY <1>1 DEF Events
<1>3. \A a, b : UpdateLedState(a) = UpdateLedState(b) => a = b
  BY <1>1
<1>4. QED
  BY <1>1, <1>2, <1>3

\* What can be posted is an event.
LEMMA EventsPosted ==
    /\ ButtonPushed \in Events /\ ButtonReleased \in Events /\ TimerEvent \in Events
    /\ \A led \in LEDs : UpdateLedState(led) \in Events
BY DEF Events

\* The part of the type invariant about the queue and the event in hand.
LEMMA QueueTypes ==
    ASSUME TypeOK
    PROVE  /\ sAppEventQueue \in Seq(Events)
           /\ Len(sAppEventQueue) \in Nat
           /\ Len(sAppEventQueue) <= kAppEventQueueSize
           /\ event \in Events \union {NoEvent}
BY DEF TypeOK

\* PostEvent keeps the queue within its capacity, keeps what is queued in its
\* place, and puts the event last unless the queue was full.
LEMMA PostEventFacts ==
    ASSUME NEW e \in Events, TypeOK, PostEvent(e)
    PROVE  /\ sAppEventQueue' \in Seq(Events)
           /\ Len(sAppEventQueue') <= kAppEventQueueSize
           /\ Len(sAppEventQueue) <= Len(sAppEventQueue')
           /\ \A i \in 1..Len(sAppEventQueue) : sAppEventQueue'[i] = sAppEventQueue[i]
           /\ QueueFull => sAppEventQueue' = sAppEventQueue
           /\ ~QueueFull => /\ Len(sAppEventQueue') = Len(sAppEventQueue) + 1
                            /\ sAppEventQueue'[Len(sAppEventQueue) + 1] = e
BY QueueAssumption, QueueTypes DEF PostEvent, QueueFull

\* GetEvent moves the first event of the queue to the app thread and the others
\* one place forward.
LEMMA GetEventFacts ==
    ASSUME TypeOK, GetEvent
    PROVE  /\ sAppEventQueue' \in Seq(Events)
           /\ sAppEventQueue \in Seq(Events)
           /\ Len(sAppEventQueue) \in Nat \ {0}
           /\ Len(sAppEventQueue') = Len(sAppEventQueue) - 1
           /\ event' = sAppEventQueue[1]
           /\ event' \in Events
           /\ \A i \in 1..Len(sAppEventQueue') : sAppEventQueue'[i] = sAppEventQueue[i + 1]
BY QueueTypes DEF GetEvent

\* An event that was pending is still pending after GetEvent.
LEMMA GetEventKeepsPending ==
    ASSUME TypeOK, GetEvent, NEW e \in Events, Pending(e)
    PROVE  Pending(e)'
<1>1. Queued(e)
  BY EventsDiffer DEF GetEvent, Pending
<1>2. PICK i \in 1..Len(sAppEventQueue) : sAppEventQueue[i] = e
  BY <1>1 DEF Queued
<1>3. CASE i = 1
  BY <1>2, <1>3, GetEventFacts DEF Pending
<1>4. CASE i # 1
  <2>1. i - 1 \in 1..Len(sAppEventQueue') /\ sAppEventQueue'[i - 1] = e
    BY <1>2, <1>4, GetEventFacts
  <2>2. QED
    BY <2>1 DEF Pending, Queued
<1>5. QED
  BY <1>3, <1>4

\* An event that was pending is still pending after another was posted.
LEMMA PostEventKeepsPending ==
    ASSUME TypeOK, NEW p \in Events, PostEvent(p), event' = event, NEW e, Pending(e)
    PROVE  Pending(e)'
<1>1. CASE event = e
  BY <1>1 DEF Pending
<1>2. CASE Queued(e)
  <2>1. PICK i \in 1..Len(sAppEventQueue) : sAppEventQueue[i] = e
    BY <1>2 DEF Queued
  <2>2. i \in 1..Len(sAppEventQueue') /\ sAppEventQueue'[i] = e
    BY <2>1, PostEventFacts, QueueTypes
  <2>3. QED
    BY <2>2 DEF Pending, Queued
<1>3. QED
  BY <1>1, <1>2 DEF Pending

\* An event posted on a queue with room is pending.
LEMMA PostedIsPending ==
    ASSUME TypeOK, NEW e \in Events, PostEvent(e), ~QueueFull
    PROVE  Queued(e)'
<1>1. Len(sAppEventQueue) + 1 \in 1..Len(sAppEventQueue')
  BY PostEventFacts, QueueTypes
<1>2. QED
  BY <1>1, PostEventFacts DEF Queued

(***************************************************************************)
(* Type correctness.                                                       *)
(***************************************************************************)
\* Patterns and the LED tables built from them have their types.
LEMMA PatternTypes ==
    /\ \A state \in BOOLEAN : Lit(state) \in Widget
    /\ \A rate \in Blinks : Blink(rate) \in Widget
    /\ \A n : /\ StatusPattern(n) \in Widget
              /\ StatusPattern(n) \in {Lit(TRUE), Blink("100/100"), Blink("50/950")}
<1>1. \A state \in BOOLEAN : Lit(state) \in Widget
  BY DEF Lit, Widget
<1>2. \A rate \in Blinks : Blink(rate) \in Widget
  BY DEF Blink, Widget
<1>3. \A n : /\ StatusPattern(n) \in Widget
            /\ StatusPattern(n) \in {Lit(TRUE), Blink("100/100"), Blink("50/950")}
  BY <1>1, <1>2 DEF StatusPattern, Blinks
<1>4. QED
  BY <1>1, <1>2, <1>3

LEMMA ShowingType ==
    ASSUME NEW now \in [LEDs -> Widget], NEW ws, NEW p \in Widget
    PROVE  Showing(now, ws, p) \in [LEDs -> Widget]
BY DEF Showing

\* Every handler and interrupt keeps the state in its types and the queue within
\* its capacity.
THEOREM TypeCorrect == Spec => []TypeOK
<1>1. Init => TypeOK
  <2> SUFFICES ASSUME Init PROVE TypeOK
    OBVIOUS
  <2>1. sAppEventQueue \in Seq(Events) /\ Len(sAppEventQueue) <= kAppEventQueueSize
    BY QueueAssumption DEF Init
  <2>2. leds \in [LEDs -> Widget]
    BY PatternTypes DEF Init
  <2>3. h \in History
    BY DEF Init, History
  <2>4. presses \in 0..MaxPresses
    BY PressAssumption DEF Init
  <2>5. QED
    BY <2>1, <2>2, <2>3, <2>4 DEF Init, TypeOK, NoneSelected
<1>2. TypeOK /\ [Next]_vars => TypeOK'
  <2> SUFFICES ASSUME TypeOK, [Next]_vars PROVE TypeOK'
    OBVIOUS
  <2>1. CASE PushButton
    <3>1. presses' \in 0..MaxPresses
      BY <2>1, PressAssumption DEF PushButton, TypeOK
    <3>2. sAppEventQueue' \in Seq(Events) /\ Len(sAppEventQueue') <= kAppEventQueueSize
      BY <2>1, PostEventFacts, EventsPosted DEF PushButton
    <3>3. QED
      BY <2>1, <3>1, <3>2 DEF PushButton, TypeOK, fnVars
  <2>2. CASE ReleaseButton
    <3>1. h' \in History
      BY <2>2 DEF ReleaseButton, TypeOK, History, QueueFull
    <3>2. QED
      BY <2>2, <3>1, PostEventFacts, EventsPosted DEF ReleaseButton, TypeOK, fnVars
  <2>3. CASE FunctionTimerTimeoutCallback
    <3>1. h' \in History
      BY <2>3 DEF FunctionTimerTimeoutCallback, TypeOK, History, QueueFull
    <3>2. QED
      BY <2>3, <3>1, PostEventFacts, EventsPosted
      DEF FunctionTimerTimeoutCallback, TypeOK, fnVars, btnVars
  <2>4. ASSUME NEW led \in LEDs, LEDStateUpdateHandler(led) PROVE TypeOK'
    <3>1. h' \in History
      BY <2>4 DEF LEDStateUpdateHandler, TypeOK, History
    <3>2. leds' \in [LEDs -> Widget]
      BY <2>4 DEF LEDStateUpdateHandler, TypeOK, Widget
    <3>3. QED
      BY <2>4, <3>1, <3>2, PostEventFacts, EventsPosted
      DEF LEDStateUpdateHandler, TypeOK, fnVars, btnVars
  <2>5. CASE GetEvent
    <3>1. /\ sAppEventQueue' \in Seq(Events) /\ event' \in Events
          /\ Len(sAppEventQueue') <= kAppEventQueueSize
      BY <2>5, GetEventFacts, QueueTypes, QueueAssumption
    <3>2. QED
      BY <2>5, <3>1 DEF GetEvent, TypeOK, fnVars, btnVars
  <2>6. CASE OpenCancelWindow
    <3>1. leds' \in [LEDs -> Widget]
      BY <2>6, PatternTypes, ShowingType DEF OpenCancelWindow, ResetSignal, TypeOK, Blinks
    <3>2. h' \in History
      BY <2>6 DEF OpenCancelWindow, Rearmed, TypeOK, History
    <3>3. QED
      BY <2>6, <3>1, <3>2 DEF OpenCancelWindow, StartTimer, Handled, TypeOK, btnVars
  <2>7. CASE ScheduleFactoryReset
    <3>1. h' \in History
      BY <2>7 DEF ScheduleFactoryReset, TypeOK, History
    <3>2. QED
      BY <2>7, <3>1 DEF ScheduleFactoryReset, Handled, TypeOK, btnVars
  <2>8. CASE IgnoreTimer
    BY <2>8 DEF IgnoreTimer, Handled, TypeOK, btnVars, fnVars
  <2>9. CASE FunctionPushed
    <3>1. h' \in History
      BY <2>9 DEF FunctionPushed, Rearmed, TypeOK, History
    <3>2. QED
      BY <2>9, <3>1 DEF FunctionPushed, StartTimer, Handled, TypeOK, btnVars, fnVars
  <2>10. CASE FunctionReleased
    <3>1. h' \in {[Rearmed EXCEPT !.fired = FALSE], [h EXCEPT !.fired = FALSE]}
      BY <2>10 DEF FunctionReleased
    <3>2. h' \in History
      BY <3>1 DEF Rearmed, TypeOK, History
    <3>3. QED
      BY <2>10, <3>2 DEF FunctionReleased, CancelTimer, Handled, TypeOK, btnVars, fnVars
  <2>11. ASSUME NEW led \in LEDs, UpdateState(led) PROVE TypeOK'
    <3>1. h' \in History
      BY <2>11 DEF UpdateState, TypeOK, History
    <3>2. leds' \in [LEDs -> Widget]
      BY <2>11 DEF UpdateState, TypeOK, Widget
    <3>3. QED
      BY <2>11, <3>1, <3>2 DEF UpdateState, Handled, TypeOK, fnVars, btnVars
  <2>a. CASE CancelInWindow
    <3>1. h' \in History
      BY <2>a DEF CancelInWindow, TypeOK, History
    <3>2. leds' \in [LEDs -> Widget]
      BY <2>a, PatternTypes, ShowingType DEF CancelInWindow, SignalOff, TypeOK
    <3>3. QED
      BY <2>a, <3>1, <3>2, PatternTypes DEF CancelInWindow, TypeOK, btnVars, fnVars
  <2>b. CASE ShowStatus
    <3>1. h' \in History
      BY <2>b DEF ShowStatus, Rearmed, TypeOK, History
    <3>2. leds' \in [LEDs -> Widget]
      BY <2>b, PatternTypes, ShowingType DEF ShowStatus, TypeOK, Blinks
    <3>3. QED
      BY <2>b, <3>1, <3>2 DEF ShowStatus, CancelTimer, Handled, TypeOK, btnVars
  <2>12. ASSUME NEW n \in [network : BOOLEAN, ble : BOOLEAN],
                UpdateStatusLED(n)
         PROVE  TypeOK'
    <3>1. h' \in History
      BY <2>12 DEF UpdateStatusLED, TypeOK, History
    <3>2. leds' \in [LEDs -> Widget]
      BY <2>12, PatternTypes, ShowingType DEF UpdateStatusLED, TypeOK
    <3>3. QED
      BY <2>12, <3>1, <3>2 DEF UpdateStatusLED, TypeOK, fnVars, btnVars
  <2>13. CASE BleChange
    BY <2>12, <2>13 DEF BleChange, TypeOK
  <2>14. CASE NetworkChange
    BY <2>12, <2>14 DEF NetworkChange, TypeOK
  <2>15. ASSUME NEW p \in Widget, Identify(p) PROVE TypeOK'
    <3>1. h' \in History
      BY <2>15 DEF Identify, TypeOK, History
    <3>2. leds' \in [LEDs -> Widget]
      BY <2>15, ShowingType DEF Identify, TypeOK
    <3>3. QED
      BY <2>15, <3>1, <3>2 DEF Identify, TypeOK, fnVars, btnVars
  <2>16. CASE OnIdentifyStart
    BY <2>15, <2>16, PatternTypes DEF OnIdentifyStart, Blinks
  <2>17. CASE OnIdentifyStop
    BY <2>15, <2>17, PatternTypes DEF OnIdentifyStop
  <2>18. CASE UNCHANGED vars
    BY <2>18 DEF vars, fnVars, btnVars, TypeOK
  <2>19. QED
    BY <2>1, <2>2, <2>3, <2>4, <2>5, <2>6, <2>7, <2>8, <2>9, <2>10, <2>11, <2>13, <2>14,
       <2>16, <2>17, <2>18, <2>a, <2>b
    DEF Next, Dispatch
<1>3. QED
  BY <1>1, <1>2, PTL DEF Spec

(***************************************************************************)
(* The blink chain and the timed press are inductive with the types.       *)
(***************************************************************************)
\* Events the app thread has neither posted nor handled stay pending.
LEMMA HandledKeepsPending ==
    ASSUME Handled, NEW e, Pending(e), event # e
    PROVE  Pending(e)'
BY DEF Handled, Pending, Queued

LEMMA BlinkChainStep ==
    ASSUME TypeOK, BlinkChain, [Next]_vars
    PROVE  BlinkChain'
<1> SUFFICES ASSUME NEW l \in LEDs, leds'[l].shows \in Blinks, l \notin h'.lostUpdate
             PROVE  leds'[l].timer \/ Pending(UpdateLedState(l))'
  BY DEF BlinkChain
<1> USE DEF BlinkChain
<1>a. \A rate \in Blinks : Blink(rate).timer
  BY DEF Blink
<1>b. \A state \in BOOLEAN : Lit(state).shows \notin Blinks
  BY DEF Lit, Blinks
<1>c. \A n : StatusPattern(n).shows \notin Blinks \/ StatusPattern(n).timer
  BY <1>a, <1>b DEF StatusPattern, Blinks
<1>d. UpdateLedState(l) \in Events
  BY EventsPosted
<1>1. CASE PushButton
  BY <1>1, <1>d, PostEventKeepsPending, EventsPosted DEF PushButton
<1>2. CASE ReleaseButton
  BY <1>2, <1>d, PostEventKeepsPending, EventsPosted DEF ReleaseButton, TypeOK, History
<1>3. CASE FunctionTimerTimeoutCallback
  BY <1>3, <1>d, PostEventKeepsPending, EventsPosted
  DEF FunctionTimerTimeoutCallback, TypeOK, History
<1>4. ASSUME NEW led \in LEDs, LEDStateUpdateHandler(led)
      PROVE  leds'[l].timer \/ Pending(UpdateLedState(l))'
  <2>1. CASE led = l
    <3>1. ~QueueFull
      BY <1>4, <2>1 DEF LEDStateUpdateHandler, TypeOK, History
    <3>2. QED
      BY <1>4, <2>1, <3>1, <1>d, PostedIsPending DEF LEDStateUpdateHandler, Pending
  <2>2. CASE led # l
    <3>1. leds'[l] = leds[l] /\ l \notin h.lostUpdate
      BY <1>4, <2>2 DEF LEDStateUpdateHandler, TypeOK, History
    <3>2. QED
      BY <1>4, <3>1, PostEventKeepsPending, EventsPosted DEF LEDStateUpdateHandler
  <2>3. QED
    BY <2>1, <2>2
<1>5. CASE GetEvent
  BY <1>5, <1>d, GetEventKeepsPending DEF GetEvent
<1>6. CASE OpenCancelWindow
  <2>1. CASE l \in SignalLEDs
    BY <1>6, <2>1, <1>a, <1>b
    DEF OpenCancelWindow, ResetSignal, Showing, SignalLEDs, Blinks
  <2>2. CASE l \notin SignalLEDs
    <3>1. leds'[l] = leds[l] /\ l \notin h.lostUpdate
      BY <1>6, <2>2
      DEF OpenCancelWindow, ResetSignal, Showing, SignalLEDs, Rearmed, TypeOK, History
    <3>2. QED
      BY <1>6, <3>1, EventsDiffer, HandledKeepsPending DEF OpenCancelWindow
  <2>3. QED
    BY <2>1, <2>2
<1>7. CASE ScheduleFactoryReset
  BY <1>7, EventsDiffer, HandledKeepsPending DEF ScheduleFactoryReset, TypeOK, History
<1>8. CASE IgnoreTimer
  BY <1>8, EventsDiffer, HandledKeepsPending DEF IgnoreTimer
<1>9. CASE FunctionPushed
  BY <1>9, EventsDiffer, HandledKeepsPending DEF FunctionPushed, Rearmed, TypeOK, History
<1>10. CASE FunctionReleased
  <2>1. leds' = leds /\ h'.lostUpdate = h.lostUpdate
    BY <1>10 DEF FunctionReleased, Rearmed, TypeOK, History
  <2>2. QED
    BY <1>10, <2>1, EventsDiffer, HandledKeepsPending DEF FunctionReleased
<1>11. ASSUME NEW led \in LEDs, UpdateState(led)
       PROVE  leds'[l].timer \/ Pending(UpdateLedState(l))'
  <2>1. CASE led = l
    BY <1>11, <2>1 DEF UpdateState, TypeOK, Widget
  <2>2. CASE led # l
    <3>1. leds'[l] = leds[l] /\ l \notin h.lostUpdate
      BY <1>11, <2>2 DEF UpdateState, TypeOK, History
    <3>2. QED
      BY <1>11, <2>2, <3>1, EventsDiffer, HandledKeepsPending DEF UpdateState
  <2>3. QED
    BY <2>1, <2>2
<1>12. ASSUME NEW ws, NEW p, p.shows \notin Blinks \/ p.timer,
              leds' = Showing(leds, ws, p), h'.lostUpdate = h.lostUpdate \ ws,
              UNCHANGED <<sAppEventQueue, event>>
       PROVE  leds'[l].timer \/ Pending(UpdateLedState(l))'
  BY <1>12 DEF Showing, Pending, Queued
<1>a1. CASE CancelInWindow
  <2>1. leds' = Showing(leds, Carriers, Lit(FALSE)) /\ h'.lostUpdate = h.lostUpdate \ Carriers
    BY <1>a1 DEF CancelInWindow, SignalOff, TypeOK, History
  <2>2. QED
    BY <1>a1, <2>1, <1>b, <1>12 DEF CancelInWindow
<1>a2. CASE ShowStatus
  <2>1. statusCall.shows \notin Blinks \/ statusCall.timer
    BY <1>a2, <1>a, <1>b DEF ShowStatus, TypeOK, Blinks
  <2>2. leds' = Showing(leds, {StatusLED}, statusCall)
        /\ h'.lostUpdate = h.lostUpdate \ {StatusLED}
    BY <1>a2 DEF ShowStatus, Rearmed, TypeOK, History
  <2>3. CASE l = StatusLED
    BY <2>1, <2>2, <2>3 DEF Showing
  <2>4. CASE l # StatusLED
    <3>1. leds'[l] = leds[l] /\ l \notin h.lostUpdate
      BY <2>2, <2>4 DEF Showing
    <3>2. QED
      BY <1>a2, <3>1, EventsDiffer, HandledKeepsPending DEF ShowStatus
  <2>5. QED
    BY <2>3, <2>4
<1>13. ASSUME NEW n, UpdateStatusLED(n)
       PROVE  leds'[l].timer \/ Pending(UpdateLedState(l))'
  <2>1. h'.lostUpdate = h.lostUpdate \ {StatusLED}
    BY <1>13 DEF UpdateStatusLED, TypeOK, History
  <2>2. QED
    BY <1>13, <2>1, <1>c, <1>12 DEF UpdateStatusLED
<1>14. CASE BleChange \/ NetworkChange
  BY <1>13, <1>14 DEF BleChange, NetworkChange
<1>15. ASSUME NEW p, Identify(p), p.shows \notin Blinks \/ p.timer
       PROVE  leds'[l].timer \/ Pending(UpdateLedState(l))'
  <2>1. h'.lostUpdate = h.lostUpdate \ {IdentifyLED}
    BY <1>15 DEF Identify, TypeOK, History
  <2>2. QED
    BY <1>15, <2>1, <1>12 DEF Identify
<1>16. CASE OnIdentifyStart
  BY <1>15, <1>16, <1>a DEF OnIdentifyStart, Blinks
<1>17. CASE OnIdentifyStop
  BY <1>15, <1>17, <1>b DEF OnIdentifyStop
<1>18. CASE UNCHANGED vars
  BY <1>18 DEF vars, Pending, Queued
<1>19. QED
  BY <1>1, <1>2, <1>3, <1>4, <1>5, <1>6, <1>7, <1>8, <1>9, <1>10, <1>11, <1>14, <1>16, <1>17,
     <1>18, <1>a1, <1>a2
  DEF Next, Dispatch

\* No widget stops blinking by itself, for any number of LEDs and any queue size.
THEOREM BlinkChainHolds == Spec => []BlinkChain
<1>1. Init => BlinkChain
  BY DEF Init, BlinkChain, StatusPattern, Lit, Blink, Blinks
<1>2. TypeOK /\ BlinkChain /\ [Next]_vars => BlinkChain'
  BY BlinkChainStep
<1>3. QED
  BY <1>1, <1>2, TypeCorrect, PTL DEF Spec

(***************************************************************************)
(* The signal of the cancel window.                                        *)
(***************************************************************************)
\* Between the two steps of a release in the window the factory-reset LEDs are
\* already off.
SignalInv ==
    /\ WindowSignalled
    /\ statusCall # NoCall =>
           /\ event = ButtonReleased /\ mFunctionTimerActive /\ mFunction = FactoryReset
           /\ \A led \in FactoryResetLEDs : leds[led] = Lit(FALSE)

\* A step that leaves the factory-reset LEDs alone, and neither opens nor closes
\* a window nor a release in one, keeps the signal.
LEMMA SignalKept ==
    ASSUME SignalInv, \A led \in FactoryResetLEDs : leds'[led] = leds[led],
           UNCHANGED <<event, statusCall, mFunctionTimerActive, mFunction, resetScheduled>>
    PROVE  SignalInv'
BY DEF SignalInv, WindowSignalled

\* Of an LED that is off no timer runs; one whose timer runs is not off.
LEMMA OffHasNoTimer == Lit(FALSE).timer = FALSE /\ Lit(FALSE).shows \notin Blinks
BY DEF Lit, Blinks

\* A handler of an event other than a release, which leaves the factory-reset
\* LEDs alone and opens no window, keeps the signal.
LEMMA SignalKeptByHandler ==
    ASSUME SignalInv, \A led \in FactoryResetLEDs : leds'[led] = leds[led],
           Handled, event # ButtonReleased,
           (mFunction' = FactoryReset) <=> (mFunction = FactoryReset),
           resetScheduled' = resetScheduled
    PROVE  SignalInv'
BY DEF SignalInv, WindowSignalled, Handled

LEMMA SignalStep == ASSUME TypeOK, SignalInv, [Next]_vars PROVE SignalInv'
<1>a. \A led \in FactoryResetLEDs : led \in LEDs /\ led # StatusLED /\ led # IdentifyLED
  BY LedAssumption DEF LEDs
<1>1. CASE PushButton \/ ReleaseButton \/ UNCHANGED vars
  BY <1>1, SignalKept DEF PushButton, ReleaseButton, vars, fnVars
<1>2. CASE FunctionTimerTimeoutCallback
  BY <1>2, SignalKept DEF FunctionTimerTimeoutCallback
<1>3. ASSUME NEW led \in LEDs, LEDStateUpdateHandler(led) PROVE SignalInv'
  <2>1. UNCHANGED <<event, statusCall, mFunctionTimerActive, mFunction, resetScheduled>>
    BY <1>3 DEF LEDStateUpdateHandler, fnVars
  <2>2. \A l \in LEDs : leds'[l].shows = leds[l].shows
    BY <1>3 DEF LEDStateUpdateHandler, TypeOK, Widget
  <2>3. \A l \in LEDs : leds[l] = Lit(FALSE) => leds'[l] = leds[l]
    BY <1>3, OffHasNoTimer DEF LEDStateUpdateHandler, TypeOK
  <2>4. QED
    BY <1>a, <2>1, <2>2, <2>3 DEF SignalInv, WindowSignalled
<1>4. CASE GetEvent
  <2>1. statusCall = NoCall
    BY <1>4, EventsDiffer DEF SignalInv, GetEvent, Events
  <2>2. QED
    BY <1>4, <2>1 DEF GetEvent, SignalInv, WindowSignalled, fnVars
<1>5. CASE OpenCancelWindow
  <2>1. \A led \in FactoryResetLEDs : leds'[led].shows = "500/500"
    BY <1>5, <1>a DEF OpenCancelWindow, ResetSignal, Showing, Blink
  <2>2. mFunction' = FactoryReset /\ statusCall' = NoCall
    BY <1>5 DEF OpenCancelWindow, Handled
  <2>3. QED
    BY <2>1, <2>2 DEF SignalInv, WindowSignalled
<1>6. CASE ScheduleFactoryReset
  <2>1. mFunction' # FactoryReset /\ resetScheduled' = TRUE /\ statusCall' = NoCall
    BY <1>6 DEF ScheduleFactoryReset, Handled, NoneSelected, FactoryReset
  <2>2. QED
    BY <2>1 DEF SignalInv, WindowSignalled
<1>7. CASE IgnoreTimer
  BY <1>7, EventsDiffer, SignalKeptByHandler DEF IgnoreTimer, fnVars
<1>8. CASE FunctionPushed
  <2>1. (mFunction' = FactoryReset) <=> (mFunction = FactoryReset)
    BY <1>8 DEF FunctionPushed, fnVars, NoneSelected, SoftwareUpdate, FactoryReset
  <2>2. QED
    BY <1>8, <2>1, EventsDiffer, SignalKeptByHandler DEF FunctionPushed
<1>9. CASE FunctionReleased
  <2>1. statusCall = NoCall /\ statusCall' = NoCall /\ UNCHANGED <<leds, resetScheduled>>
    BY <1>9 DEF FunctionReleased, Handled, SignalInv
  <2>2. (mFunction' = FactoryReset) <=> (mFunction = FactoryReset)
    BY <1>9 DEF FunctionReleased, fnVars, NoneSelected, FactoryReset
  <2>3. QED
    BY <2>1, <2>2 DEF SignalInv, WindowSignalled
<1>10. CASE CancelInWindow
  <2>1. \A led \in FactoryResetLEDs : leds'[led] = Lit(FALSE)
    BY <1>10, <1>a DEF CancelInWindow, SignalOff, Carriers, Showing
  <2>2. StatusPattern(net) # NoCall
    BY DEF StatusPattern, Lit, Blink, NoCall
  <2>3. QED
    BY <1>10, <2>1, <2>2 DEF CancelInWindow, SignalInv, WindowSignalled, fnVars
<1>11. CASE ShowStatus
  <2>1. \A led \in FactoryResetLEDs : leds'[led] = Lit(FALSE)
    BY <1>11, <1>a DEF ShowStatus, Showing, SignalInv
  <2>2. mFunction' # FactoryReset /\ statusCall' = NoCall
    BY <1>11 DEF ShowStatus, Handled, NoneSelected, FactoryReset
  <2>3. QED
    BY <2>1, <2>2 DEF SignalInv, WindowSignalled
<1>12. ASSUME NEW led \in LEDs, UpdateState(led) PROVE SignalInv'
  <2>1. event # ButtonReleased
    BY <1>12, EventsDiffer DEF UpdateState
  <2>2. statusCall' = NoCall /\ statusCall = NoCall /\ UNCHANGED <<mFunction, resetScheduled>>
    BY <1>12, <2>1 DEF UpdateState, Handled, fnVars, SignalInv
  <2>3. \A l \in LEDs : leds'[l].shows = leds[l].shows
    BY <1>12 DEF UpdateState, TypeOK, Widget
  <2>4. \A l \in LEDs : leds[l] = Lit(FALSE) => leds'[l] = leds[l]
    BY <1>12, OffHasNoTimer DEF UpdateState, TypeOK
  <2>5. QED
    BY <1>a, <2>2, <2>3, <2>4 DEF SignalInv, WindowSignalled
<1>13. CASE BleChange \/ NetworkChange
  <2>1. PICK n : UpdateStatusLED(n)
    BY <1>13 DEF BleChange, NetworkChange
  <2>2. \A led \in FactoryResetLEDs : leds'[led] = leds[led]
    BY <2>1, <1>a DEF UpdateStatusLED, Showing
  <2>3. QED
    BY <2>1, <2>2, SignalKept DEF UpdateStatusLED, fnVars
<1>14. CASE OnIdentifyStart \/ OnIdentifyStop
  <2>1. PICK p : Identify(p)
    BY <1>14 DEF OnIdentifyStart, OnIdentifyStop
  <2>2. \A led \in FactoryResetLEDs : leds'[led] = leds[led]
    BY <2>1, <1>a DEF Identify, Showing
  <2>3. QED
    BY <2>1, <2>2, SignalKept DEF Identify, fnVars
<1>15. QED
  BY <1>1, <1>2, <1>3, <1>4, <1>5, <1>6, <1>7, <1>8, <1>9, <1>10, <1>11, <1>12, <1>13, <1>14
  DEF Next, Dispatch

\* The factory-reset LEDs signal the cancel window, and a release in it turns
\* them off for good, for any set of them, any queue size, any number of presses
\* and whatever the CHIP thread does to the status LED between the steps.
THEOREM WindowSignalledHolds == Spec => []WindowSignalled
<1>1. Init => SignalInv
  <2> SUFFICES ASSUME Init PROVE SignalInv
    OBVIOUS
  <2>1. \A led \in FactoryResetLEDs : leds[led] = Lit(FALSE)
    BY LedAssumption DEF Init, LEDs
  <2>2. statusCall = NoCall /\ mFunction # FactoryReset
    BY DEF Init, NoneSelected, FactoryReset
  <2>3. QED
    BY <2>1, <2>2 DEF SignalInv, WindowSignalled
<1>2. TypeOK /\ SignalInv /\ [Next]_vars => SignalInv'
  BY SignalStep
<1>3. SignalInv => WindowSignalled
  BY DEF SignalInv
<1>4. QED
  BY <1>1, <1>2, <1>3, TypeCorrect, PTL DEF Spec
=============================================================================
