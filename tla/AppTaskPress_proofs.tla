------------------------ MODULE AppTaskPress_proofs ------------------------
(***************************************************************************)
(* Proofs about the press in progress: it is timed, a release ends it, a   *)
(* reset by the window's own timer means a held button, and AppTask        *)
(* implements FactoryResetButton.                                          *)
(*                                                                         *)
(* IdleOnceReleased and GenuineResetMeansHeld are not inductive: they      *)
(* speak of a moment when the queue has been worked off, and depend on     *)
(* the order of what was in it.  PressInv keeps that order: a release that *)
(* happened before a point of the queue is either still ahead of that      *)
(* point with no push behind it, or has been handled.                      *)
(***************************************************************************)
EXTENDS AppTask_proofs

\* When the app thread reaches place k of the queue, a release will have ended
\* the press: the last button event before k is a release, or there is none and
\* no press is in progress.
NoPush(i, k) == \A j \in i..(k - 1) : sAppEventQueue[j] # ButtonPushed

ReleasedBefore(k) ==
    \/ \E i \in 1..(k - 1) : sAppEventQueue[i] = ButtonReleased /\ NoPush(i + 1, k)
    \/ event = ButtonReleased /\ NoPush(1, k)
    \/ ~mFunctionTimerActive /\ event # ButtonPushed /\ NoPush(1, k)

LastTimerAt(k) ==
    /\ sAppEventQueue[k] = TimerEvent
    /\ \A j \in (k + 1)..Len(sAppEventQueue) : sAppEventQueue[j] # TimerEvent

InactiveIsIdle == ~mFunctionTimerActive => ~sFunctionTimer /\ mFunction = NoneSelected

FiredIsActive == h.fired => mFunctionTimerActive

ReleaseSeen ==
    ~buttonDown /\ ~h.lostRelease =>
        \A k \in Nat : k = Len(sAppEventQueue) + 1 => ReleasedBefore(k)

\* A genuine Timer event whose timer expired with the button up.
Unheld == h.fresh /\ ~h.heldExpiry /\ ~h.lostExpiry

UnheldQueued == Unheld => \A k \in 1..Len(sAppEventQueue) : LastTimerAt(k) => ReleasedBefore(k)

UnheldInHand == Unheld /\ event = TimerEvent /\ ~Queued(TimerEvent) => ~mFunctionTimerActive

PressInv ==
    /\ InactiveIsIdle
    /\ FiredIsActive
    /\ ReleaseSeen
    /\ UnheldQueued
    /\ UnheldInHand

(***************************************************************************)
(* How ReleasedBefore moves.                                               *)
(***************************************************************************)
\* Posting an event changes nothing before the end of the queue as it was.
LEMMA PostKeepsBefore ==
    ASSUME TypeOK, NEW e \in Events, PostEvent(e), UNCHANGED <<event, mFunctionTimerActive>>,
           NEW k \in 1..(Len(sAppEventQueue) + 1), ReleasedBefore(k)
    PROVE  ReleasedBefore(k)'
<1>1. \A j \in 1..(k - 1) : sAppEventQueue'[j] = sAppEventQueue[j]
  BY PostEventFacts, QueueTypes
<1>2. Len(sAppEventQueue) \in Nat
  BY DEF TypeOK
<1>3. QED
  BY <1>1, <1>2 DEF ReleasedBefore, NoPush

\* GetEvent brings every place of the queue one nearer.
LEMMA GetShiftsBefore ==
    ASSUME TypeOK, GetEvent, NEW k \in 2..(Len(sAppEventQueue) + 1), ReleasedBefore(k)
    PROVE  ReleasedBefore(k - 1)'
<1>1. /\ Len(sAppEventQueue) \in Nat
      /\ event' = sAppEventQueue[1]
      /\ \A j \in 1..(k - 2) : sAppEventQueue'[j] = sAppEventQueue[j + 1]
  BY GetEventFacts
<1>2. event = NoEvent /\ UNCHANGED mFunctionTimerActive
  BY DEF GetEvent, fnVars
<1>3. CASE \E i \in 1..(k - 1) : sAppEventQueue[i] = ButtonReleased /\ NoPush(i + 1, k)
  <2>1. PICK i \in 1..(k - 1) : sAppEventQueue[i] = ButtonReleased /\ NoPush(i + 1, k)
    BY <1>3
  <2>2. \A j \in i..(k - 2) : sAppEventQueue'[j] # ButtonPushed
    <3> SUFFICES ASSUME NEW j \in i..(k - 2) PROVE sAppEventQueue'[j] # ButtonPushed
      OBVIOUS
    <3>1. j \in 1..(k - 2) /\ j + 1 \in (i + 1)..(k - 1)
      BY <1>1
    <3>2. QED
      BY <3>1, <2>1, <1>1 DEF NoPush
  <2>3. CASE i = 1
    BY <2>1, <2>2, <2>3, <1>1 DEF ReleasedBefore, NoPush
  <2>4. CASE i # 1
    <3>1. i - 1 \in 1..(k - 2) /\ sAppEventQueue'[i - 1] = ButtonReleased
      BY <2>1, <2>4, <1>1
    <3>2. QED
      BY <3>1, <2>2, <1>1 DEF ReleasedBefore, NoPush
  <2>5. QED
    BY <2>3, <2>4
<1>4. CASE ~mFunctionTimerActive /\ NoPush(1, k)
  <2>1. event' # ButtonPushed
    BY <1>4, <1>1 DEF NoPush
  <2>2. \A j \in 1..(k - 2) : sAppEventQueue'[j] # ButtonPushed
    <3> SUFFICES ASSUME NEW j \in 1..(k - 2) PROVE sAppEventQueue'[j] # ButtonPushed
      OBVIOUS
    <3>1. j + 1 \in 1..(k - 1)
      BY <1>1
    <3>2. QED
      BY <3>1, <1>4, <1>1 DEF NoPush
  <2>3. QED
    BY <2>1, <2>2, <1>2, <1>4, <1>1 DEF ReleasedBefore, NoPush
<1>5. event # ButtonReleased
  BY <1>2, EventsDiffer, EventsPosted
<1>6. QED
  BY <1>3, <1>4, <1>5 DEF ReleasedBefore

\* At the head of the queue, with nothing in hand, there is no press.
LEMMA NothingBeforeHead ==
    ASSUME event = NoEvent, ReleasedBefore(1)
    PROVE  ~mFunctionTimerActive
BY EventsDiffer, EventsPosted DEF ReleasedBefore

\* A handler that ends the press on a release, and starts one only on a push,
\* keeps ReleasedBefore.
LEMMA HandlerKeepsBefore ==
    ASSUME Handled, NEW k, ReleasedBefore(k),
           event = ButtonReleased => ~mFunctionTimerActive',
           ~mFunctionTimerActive /\ event # ButtonPushed => ~mFunctionTimerActive'
    PROVE  ReleasedBefore(k)'
BY EventsDiffer, EventsPosted DEF ReleasedBefore, NoPush, Handled

(***************************************************************************)
(* The invariant.                                                          *)
(***************************************************************************)
\* Posting e, with the press, the timer and the history of the press unchanged,
\* keeps the two parts of PressInv about timers.
LEMMA PostKeepsUnheld ==
    ASSUME TypeOK, PressInv, NEW e \in Events, PostEvent(e), e # TimerEvent,
           UNCHANGED <<event, mFunctionTimerActive>>, Unheld' => Unheld
    PROVE  UnheldQueued' /\ UnheldInHand'
<1>1. UnheldQueued'
  <2> SUFFICES ASSUME Unheld, NEW k \in 1..Len(sAppEventQueue'), LastTimerAt(k)'
               PROVE  ReleasedBefore(k)'
    BY DEF UnheldQueued
  <2>1. k \in 1..Len(sAppEventQueue)
    <3>1. Len(sAppEventQueue) \in Nat /\ sAppEventQueue'[k] = TimerEvent
      BY DEF LastTimerAt, TypeOK
    <3>2. CASE QueueFull
      BY <3>2, PostEventFacts
    <3>3. CASE ~QueueFull
      <4>1. /\ Len(sAppEventQueue') = Len(sAppEventQueue) + 1
            /\ sAppEventQueue'[Len(sAppEventQueue) + 1] = e
        BY <3>3, PostEventFacts
      <4>2. QED
        BY <4>1, <3>1
    <3>4. QED
      BY <3>2, <3>3
  <2>2. LastTimerAt(k)
    <3>1. /\ Len(sAppEventQueue) \in Nat /\ Len(sAppEventQueue') \in Nat
          /\ Len(sAppEventQueue) <= Len(sAppEventQueue')
          /\ \A j \in 1..Len(sAppEventQueue) : sAppEventQueue'[j] = sAppEventQueue[j]
      BY PostEventFacts, QueueTypes
    <3>2. ASSUME NEW j \in (k + 1)..Len(sAppEventQueue) PROVE sAppEventQueue[j] # TimerEvent
      <4>1. j \in 1..Len(sAppEventQueue) /\ j \in (k + 1)..Len(sAppEventQueue')
        BY <2>1, <3>1
      <4>2. QED
        BY <3>1, <4>1 DEF LastTimerAt
    <3>3. QED
      BY <2>1, <3>1, <3>2 DEF LastTimerAt
  <2>3. QED
    BY <2>1, <2>2, PostKeepsBefore, QueueTypes DEF PressInv, UnheldQueued
<1>2. UnheldInHand'
  <2>1. Queued(TimerEvent) => Queued(TimerEvent)'
    BY PostEventFacts, QueueTypes DEF Queued
  <2>2. QED
    BY <2>1 DEF PressInv, UnheldInHand
<1>3. QED
  BY <1>1, <1>2

\* Posting keeps ReleaseSeen when the button and the history of the release stay.
LEMMA PostKeepsReleaseSeen ==
    ASSUME TypeOK, PressInv, NEW e \in Events, PostEvent(e), e # ButtonPushed,
           UNCHANGED <<event, mFunctionTimerActive, buttonDown>>, h'.lostRelease = h.lostRelease
    PROVE  ReleaseSeen'
<1> SUFFICES ASSUME ~buttonDown, ~h.lostRelease, NEW n \in Nat, n = Len(sAppEventQueue') + 1
             PROVE  ReleasedBefore(n)'
  BY DEF ReleaseSeen
<1>1. PICK k \in Nat : k = Len(sAppEventQueue) + 1
  BY DEF TypeOK
<1>2. ReleasedBefore(k)'
  <2>1. ReleasedBefore(k) /\ k \in 1..(Len(sAppEventQueue) + 1)
    BY <1>1 DEF PressInv, ReleaseSeen, TypeOK
  <2>2. QED
    BY <2>1, PostKeepsBefore
<1>3. CASE QueueFull
  BY <1>1, <1>2, <1>3, PostEventFacts
<1>4. CASE ~QueueFull
  <2>1. n = k + 1 /\ sAppEventQueue'[k] # ButtonPushed
    BY <1>1, <1>4, PostEventFacts DEF TypeOK
  <2>2. QED
    BY <1>2, <2>1 DEF ReleasedBefore, NoPush
<1>5. QED
  BY <1>3, <1>4

\* What every handler does to PressInv, from what it does to the press.
LEMMA HandlerKeepsPressInv ==
    ASSUME TypeOK, PressInv, Handled, UNCHANGED buttonDown,
           event = ButtonReleased => ~mFunctionTimerActive',
           ~mFunctionTimerActive /\ event # ButtonPushed => ~mFunctionTimerActive',
           h'.lostRelease = h.lostRelease,
           Unheld' => Unheld
    PROVE  ReleaseSeen' /\ UnheldQueued' /\ UnheldInHand'
<1>1. \A k : ReleasedBefore(k) => ReleasedBefore(k)'
  BY HandlerKeepsBefore
<1>2. sAppEventQueue' = sAppEventQueue /\ event' # TimerEvent
  BY EventsDiffer, EventsPosted DEF Handled
<1>3. ReleaseSeen'
  BY <1>1, <1>2 DEF PressInv, ReleaseSeen
<1>4. UnheldQueued'
  BY <1>1, <1>2 DEF PressInv, UnheldQueued, LastTimerAt
<1>5. UnheldInHand'
  BY <1>2 DEF UnheldInHand
<1>6. QED
  BY <1>3, <1>4, <1>5

\* Steps that touch only the LEDs.
LEMMA LedStepKeepsPressInv ==
    ASSUME PressInv, UNCHANGED <<sAppEventQueue, event, fnVars, btnVars>>,
           h'.lostRelease = h.lostRelease, h'.fired = h.fired, Unheld' = Unheld
    PROVE  PressInv'
BY DEF PressInv, InactiveIsIdle, FiredIsActive, ReleaseSeen, UnheldQueued, UnheldInHand,
       ReleasedBefore, NoPush, LastTimerAt, Queued, fnVars, btnVars

LEMMA PressInvStep ==
    ASSUME TypeOK, PressInv, [Next]_vars
    PROVE  PressInv'
<1>1. CASE PushButton
  <2>1. /\ UNCHANGED <<event, fnVars, h>> /\ buttonDown' /\ PostEvent(ButtonPushed)
    BY <1>1 DEF PushButton
  <2>2. UnheldQueued' /\ UnheldInHand'
    BY <2>1, PostKeepsUnheld, EventsPosted, EventsDiffer DEF fnVars, Unheld
  <2>3. QED
    BY <2>1, <2>2 DEF PressInv, InactiveIsIdle, FiredIsActive, ReleaseSeen, fnVars
<1>2. CASE ReleaseButton
  <2>1. /\ UNCHANGED <<event, fnVars>> /\ PostEvent(ButtonReleased)
        /\ h'.lostRelease = QueueFull /\ h'.fired = h.fired /\ Unheld' = Unheld
    BY <1>2 DEF ReleaseButton, Unheld, TypeOK, History
  <2>2. UnheldQueued' /\ UnheldInHand'
    BY <2>1, PostKeepsUnheld, EventsPosted, EventsDiffer DEF fnVars
  <2>3. ReleaseSeen'
    <3> SUFFICES ASSUME ~QueueFull, NEW n \in Nat, n = Len(sAppEventQueue') + 1
                 PROVE  ReleasedBefore(n)'
      BY <2>1 DEF ReleaseSeen
    <3>1. n - 1 \in 1..(n - 1) /\ sAppEventQueue'[n - 1] = ButtonReleased
      BY <2>1, PostEventFacts, EventsPosted, QueueTypes
    <3>2. QED
      BY <3>1 DEF ReleasedBefore, NoPush
  <2>4. QED
    BY <2>1, <2>2, <2>3 DEF PressInv, InactiveIsIdle, FiredIsActive, fnVars
<1>3. CASE FunctionTimerTimeoutCallback
  <2>1. /\ UNCHANGED <<event, mFunction, mFunctionTimerActive, buttonDown>>
        /\ PostEvent(TimerEvent)
        /\ sFunctionTimer /\ ~sFunctionTimer'
        /\ h'.lostRelease = h.lostRelease /\ h'.fired = h.fired
        /\ Unheld' <=> ~QueueFull /\ ~buttonDown /\ ~h.lostRelease
    BY <1>3 DEF FunctionTimerTimeoutCallback, Unheld, TypeOK, History, btnVars
  <2>2. mFunctionTimerActive
    BY <2>1 DEF PressInv, InactiveIsIdle
  <2>3. ReleaseSeen'
    BY <2>1, PostKeepsReleaseSeen, EventsPosted, EventsDiffer
  <2>4. UnheldQueued'
    <3> SUFFICES ASSUME Unheld', NEW k \in 1..Len(sAppEventQueue'), LastTimerAt(k)'
                 PROVE  ReleasedBefore(k)'
      BY DEF UnheldQueued
    <3>1. /\ Len(sAppEventQueue) \in Nat
          /\ Len(sAppEventQueue') = Len(sAppEventQueue) + 1
          /\ sAppEventQueue'[Len(sAppEventQueue) + 1] = TimerEvent
      BY <2>1, PostEventFacts, EventsPosted, QueueTypes
    <3>2. k = Len(sAppEventQueue) + 1
      BY <3>1 DEF LastTimerAt
    <3>3. ReleasedBefore(k) /\ k \in 1..(Len(sAppEventQueue) + 1)
      BY <2>1, <3>1, <3>2 DEF PressInv, ReleaseSeen
    <3>4. QED
      BY <2>1, <3>3, PostKeepsBefore, EventsPosted
  <2>5. UnheldInHand'
    <3>1. ~QueueFull => Queued(TimerEvent)'
      BY <2>1, PostedIsPending, EventsPosted
    <3>2. QED
      BY <2>1, <3>1 DEF UnheldInHand
  <2>6. QED
    BY <2>1, <2>2, <2>3, <2>4, <2>5 DEF PressInv, InactiveIsIdle, FiredIsActive
<1>4. ASSUME NEW led \in LEDs, LEDStateUpdateHandler(led) PROVE PressInv'
  <2>1. /\ UNCHANGED <<event, fnVars, btnVars>> /\ PostEvent(UpdateLedState(led))
        /\ h'.lostRelease = h.lostRelease /\ h'.fired = h.fired /\ Unheld' = Unheld
    BY <1>4 DEF LEDStateUpdateHandler, Unheld, TypeOK, History
  <2>2. UnheldQueued' /\ UnheldInHand'
    BY <2>1, PostKeepsUnheld, EventsPosted, EventsDiffer DEF fnVars
  <2>3. ReleaseSeen'
    BY <2>1, PostKeepsReleaseSeen, EventsPosted, EventsDiffer DEF fnVars, btnVars
  <2>4. QED
    BY <2>1, <2>2, <2>3 DEF PressInv, InactiveIsIdle, FiredIsActive, fnVars
<1>5. CASE GetEvent
  <2>1. UNCHANGED <<fnVars, buttonDown, h>> /\ event = NoEvent
    BY <1>5 DEF GetEvent, btnVars
  <2>2. ReleaseSeen'
    <3> SUFFICES ASSUME ~buttonDown, ~h.lostRelease, NEW n \in Nat, n = Len(sAppEventQueue') + 1
                 PROVE  ReleasedBefore(n)'
      BY <2>1 DEF ReleaseSeen
    <3>1. n + 1 = Len(sAppEventQueue) + 1 /\ n + 1 \in 2..(Len(sAppEventQueue) + 1)
      BY <1>5, GetEventFacts
    <3>2. ReleasedBefore(n + 1)
      BY <3>1 DEF PressInv, ReleaseSeen
    <3>3. ReleasedBefore((n + 1) - 1)'
      BY <1>5, <3>1, <3>2, GetShiftsBefore
    <3>4. QED
      BY <3>3
  <2>3. UnheldQueued'
    <3> SUFFICES ASSUME Unheld, NEW k \in 1..Len(sAppEventQueue'), LastTimerAt(k)'
                 PROVE  ReleasedBefore(k)'
      BY <2>1 DEF UnheldQueued, Unheld
    <3>1. /\ Len(sAppEventQueue) \in Nat \ {0}
          /\ Len(sAppEventQueue') = Len(sAppEventQueue) - 1
          /\ \A i \in 1..Len(sAppEventQueue') : sAppEventQueue'[i] = sAppEventQueue[i + 1]
      BY <1>5, GetEventFacts
    <3>2. k + 1 \in 1..Len(sAppEventQueue) /\ k + 1 \in 2..(Len(sAppEventQueue) + 1)
      BY <3>1
    <3>3. LastTimerAt(k + 1)
      <4>1. sAppEventQueue[k + 1] = TimerEvent
        BY <3>1 DEF LastTimerAt
      <4>2. ASSUME NEW j \in (k + 2)..Len(sAppEventQueue) PROVE sAppEventQueue[j] # TimerEvent
        <5>1. j - 1 \in (k + 1)..Len(sAppEventQueue') /\ j - 1 \in 1..Len(sAppEventQueue')
          BY <3>1
        <5>2. sAppEventQueue'[j - 1] # TimerEvent
          BY <5>1 DEF LastTimerAt
        <5>3. QED
          BY <5>1, <5>2, <3>1
      <4>3. QED
        BY <4>1, <4>2, <3>1 DEF LastTimerAt
    <3>4. ReleasedBefore(k + 1)
      BY <3>2, <3>3 DEF PressInv, UnheldQueued
    <3>5. ReleasedBefore((k + 1) - 1)'
      BY <1>5, <3>2, <3>4, GetShiftsBefore
    <3>6. QED
      BY <3>5, <3>1
  <2>4. UnheldInHand'
    <3> SUFFICES ASSUME Unheld, event' = TimerEvent, ~Queued(TimerEvent)'
                 PROVE  ~mFunctionTimerActive
      BY <2>1 DEF UnheldInHand, Unheld, fnVars
    <3>1. /\ Len(sAppEventQueue) \in Nat \ {0}
          /\ Len(sAppEventQueue') = Len(sAppEventQueue) - 1
          /\ sAppEventQueue[1] = TimerEvent
          /\ \A i \in 1..Len(sAppEventQueue') : sAppEventQueue'[i] = sAppEventQueue[i + 1]
      BY <1>5, GetEventFacts
    <3>2. LastTimerAt(1)
      <4>1. ASSUME NEW j \in 2..Len(sAppEventQueue) PROVE sAppEventQueue[j] # TimerEvent
        <5>1. j - 1 \in 1..Len(sAppEventQueue') /\ (j - 1) + 1 = j
          BY <3>1
        <5>2. sAppEventQueue'[j - 1] # TimerEvent
          BY <5>1 DEF Queued
        <5>3. QED
          BY <5>1, <5>2, <3>1
      <4>2. QED
        BY <4>1, <3>1 DEF LastTimerAt
    <3>3. ReleasedBefore(1)
      BY <3>1, <3>2 DEF PressInv, UnheldQueued
    <3>4. QED
      BY <2>1, <3>3, NothingBeforeHead
  <2>5. QED
    BY <2>1, <2>2, <2>3, <2>4 DEF PressInv, InactiveIsIdle, FiredIsActive, fnVars
<1>6. CASE OpenCancelWindow
  <2>1. /\ Handled /\ event = TimerEvent /\ mFunctionTimerActive /\ mFunctionTimerActive'
        /\ h'.lostRelease = h.lostRelease /\ ~Unheld'
    BY <1>6 DEF OpenCancelWindow, StartTimer, Rearmed, Unheld, TypeOK, History
  <2>2. ReleaseSeen' /\ UnheldQueued' /\ UnheldInHand'
    BY <2>1, HandlerKeepsPressInv, EventsDiffer DEF Handled, btnVars
  <2>3. QED
    BY <2>1, <2>2 DEF PressInv, InactiveIsIdle, FiredIsActive
<1>7. CASE ScheduleFactoryReset
  <2>1. /\ Handled /\ event = TimerEvent /\ mFunctionTimerActive /\ mFunctionTimerActive'
        /\ h'.lostRelease = h.lostRelease /\ Unheld' = Unheld
    BY <1>7 DEF ScheduleFactoryReset, Unheld, TypeOK, History
  <2>2. ReleaseSeen' /\ UnheldQueued' /\ UnheldInHand'
    BY <2>1, HandlerKeepsPressInv, EventsDiffer DEF Handled, btnVars
  <2>3. QED
    BY <2>1, <2>2 DEF PressInv, InactiveIsIdle, FiredIsActive
<1>8. CASE IgnoreTimer
  <2>1. /\ Handled /\ event = TimerEvent /\ ~mFunctionTimerActive /\ UNCHANGED <<fnVars, h>>
    BY <1>8 DEF IgnoreTimer
  <2>2. ReleaseSeen' /\ UnheldQueued' /\ UnheldInHand'
    BY <2>1, HandlerKeepsPressInv, EventsDiffer DEF Handled, btnVars, fnVars, Unheld
  <2>3. QED
    BY <2>1, <2>2 DEF PressInv, InactiveIsIdle, FiredIsActive, fnVars
<1>9. CASE FunctionPushed
  <2>1. /\ Handled /\ event = ButtonPushed
        /\ h'.lostRelease = h.lostRelease /\ h'.fired = h.fired /\ (Unheld' => Unheld)
    BY <1>9 DEF FunctionPushed, Rearmed, Unheld, TypeOK, History
  <2>2. ReleaseSeen' /\ UnheldQueued' /\ UnheldInHand'
    BY <2>1, HandlerKeepsPressInv, EventsDiffer DEF Handled, btnVars
  <2>3. InactiveIsIdle' /\ FiredIsActive'
    BY <1>9, <2>1 DEF FunctionPushed, StartTimer, PressInv, InactiveIsIdle, FiredIsActive, fnVars
  <2>4. QED
    BY <2>2, <2>3 DEF PressInv
<1>10. CASE FunctionReleased
  <2>1. /\ Handled /\ event = ButtonReleased /\ ~mFunctionTimerActive'
        /\ ~sFunctionTimer' /\ mFunction' = NoneSelected
    BY <1>10 DEF FunctionReleased, CancelTimer, PressInv, InactiveIsIdle, fnVars, TypeOK
  <2>2. h'.lostRelease = h.lostRelease /\ ~h'.fired /\ (Unheld' => Unheld)
    <3>1. h' \in {[Rearmed EXCEPT !.fired = FALSE], [h EXCEPT !.fired = FALSE]}
      BY <1>10 DEF FunctionReleased
    <3>2. QED
      BY <3>1 DEF Rearmed, Unheld, TypeOK, History
  <2>3. ReleaseSeen' /\ UnheldQueued' /\ UnheldInHand'
    BY <2>1, <2>2, HandlerKeepsPressInv DEF Handled, btnVars
  <2>4. QED
    BY <2>1, <2>2, <2>3 DEF PressInv, InactiveIsIdle, FiredIsActive
<1>11. ASSUME NEW led \in LEDs, UpdateState(led) PROVE PressInv'
  <2>1. /\ Handled /\ UNCHANGED fnVars /\ event # ButtonPushed /\ event # ButtonReleased
        /\ h'.lostRelease = h.lostRelease /\ h'.fired = h.fired /\ Unheld' = Unheld
    BY <1>11, EventsDiffer DEF UpdateState, Unheld, TypeOK, History
  <2>2. ReleaseSeen' /\ UnheldQueued' /\ UnheldInHand'
    BY <2>1, HandlerKeepsPressInv DEF Handled, btnVars, fnVars
  <2>3. QED
    BY <2>1, <2>2 DEF PressInv, InactiveIsIdle, FiredIsActive, fnVars
<1>a. CASE CancelInWindow
  <2>1. h'.lostRelease = h.lostRelease /\ h'.fired = h.fired /\ Unheld' = Unheld
    BY <1>a DEF CancelInWindow, Unheld, TypeOK, History
  <2>2. QED
    BY <1>a, <2>1, LedStepKeepsPressInv DEF CancelInWindow
<1>b. CASE ShowStatus
  <2>1. /\ Handled /\ event = ButtonReleased /\ ~mFunctionTimerActive'
        /\ ~sFunctionTimer' /\ mFunction' = NoneSelected
    BY <1>b DEF ShowStatus, CancelTimer
  <2>2. h'.lostRelease = h.lostRelease /\ ~h'.fired /\ ~Unheld'
    BY <1>b DEF ShowStatus, Rearmed, Unheld, TypeOK, History
  <2>3. ReleaseSeen' /\ UnheldQueued' /\ UnheldInHand'
    BY <2>1, <2>2, HandlerKeepsPressInv DEF Handled, btnVars
  <2>4. QED
    BY <2>1, <2>2, <2>3 DEF PressInv, InactiveIsIdle, FiredIsActive
<1>12. ASSUME NEW n, UpdateStatusLED(n) PROVE PressInv'
  <2>1. h'.lostRelease = h.lostRelease /\ h'.fired = h.fired /\ Unheld' = Unheld
    BY <1>12 DEF UpdateStatusLED, Unheld, TypeOK, History
  <2>2. QED
    BY <1>12, <2>1, LedStepKeepsPressInv DEF UpdateStatusLED
<1>13. CASE BleChange \/ NetworkChange
  BY <1>12, <1>13 DEF BleChange, NetworkChange
<1>14. ASSUME NEW p, Identify(p) PROVE PressInv'
  <2>1. h'.lostRelease = h.lostRelease /\ h'.fired = h.fired /\ Unheld' = Unheld
    BY <1>14 DEF Identify, Unheld, TypeOK, History
  <2>2. QED
    BY <1>14, <2>1, LedStepKeepsPressInv DEF Identify
<1>15. CASE OnIdentifyStart \/ OnIdentifyStop
  BY <1>14, <1>15 DEF OnIdentifyStart, OnIdentifyStop
<1>16. CASE UNCHANGED vars
  BY <1>16, LedStepKeepsPressInv DEF vars, Unheld
<1>17. QED
  BY <1>1, <1>2, <1>3, <1>4, <1>5, <1>6, <1>7, <1>8, <1>9, <1>10, <1>11, <1>13, <1>15, <1>16,
     <1>a, <1>b
  DEF Next, Dispatch

\* PressInv holds of every reachable state.
THEOREM PressInvHolds == Spec => []PressInv
<1>1. Init => PressInv
  <2> SUFFICES ASSUME Init PROVE PressInv
    OBVIOUS
  <2>1. Len(sAppEventQueue) = 0 /\ event = NoEvent /\ ~mFunctionTimerActive
    BY DEF Init
  <2>2. ReleaseSeen
    BY <2>1, EventsDiffer, EventsPosted DEF ReleaseSeen, ReleasedBefore, NoPush
  <2>3. QED
    BY <2>1, <2>2
    DEF Init, PressInv, InactiveIsIdle, FiredIsActive, ReleaseSeen, UnheldQueued, UnheldInHand
<1>2. TypeOK /\ PressInv /\ [Next]_vars => PressInv'
  BY PressInvStep
<1>3. QED
  BY <1>1, <1>2, TypeCorrect, PTL DEF Spec

\* Once the app thread has caught up with a release that was not dropped, no
\* press is in progress (FunctionHandler).
THEOREM IdleHolds == Spec => []IdleOnceReleased
<1>1. TypeOK /\ PressInv => IdleOnceReleased
  <2> SUFFICES ASSUME TypeOK, PressInv, ~buttonDown, ~h.lostRelease, ~Pending(ButtonReleased)
               PROVE  ~mFunctionTimerActive /\ ~sFunctionTimer /\ mFunction = NoneSelected
    BY DEF IdleOnceReleased
  <2>1. PICK k \in Nat : k = Len(sAppEventQueue) + 1 /\ ReleasedBefore(k)
    BY DEF PressInv, ReleaseSeen, TypeOK
  <2>2. ~mFunctionTimerActive
    BY <2>1 DEF ReleasedBefore, Pending, Queued, TypeOK
  <2>3. QED
    BY <2>2 DEF PressInv, InactiveIsIdle
<1>2. QED
  BY <1>1, TypeCorrect, PressInvHolds, PTL

\* A reset requested by the window's own timer means a held button (README.md:160).
THEOREM GenuineResetHolds == Spec => []GenuineResetMeansHeld
<1>1. PressInv => GenuineResetMeansHeld
  BY DEF PressInv, UnheldInHand, Unheld, GenuineResetMeansHeld, AboutToReset, Genuine
<1>2. QED
  BY <1>1, PressInvHolds, PTL

(***************************************************************************)
(* A press in progress is timed.                                           *)
(***************************************************************************)
LEMMA PressIsTimedStep ==
    ASSUME TypeOK, InactiveIsIdle, PressIsTimed, [Next]_vars
    PROVE  PressIsTimed'
<1> USE DEF PressIsTimed
<1>1. ASSUME NEW e \in Events, PostEvent(e),
             UNCHANGED <<event, mFunctionTimerActive, sFunctionTimer>>,
             h'.fired = h.fired, h'.lostTimer = h.lostTimer, h'.fresh = h.fresh
      PROVE  PressIsTimed'
  BY <1>1, PostEventKeepsPending, EventsPosted
<1>2. CASE PushButton
  BY <1>1, <1>2, EventsPosted DEF PushButton, fnVars
<1>3. CASE ReleaseButton
  BY <1>1, <1>3, EventsPosted DEF ReleaseButton, fnVars, TypeOK, History
<1>4. CASE FunctionTimerTimeoutCallback
  <2>1. h'.fresh = ~QueueFull /\ h'.lostTimer = QueueFull
    BY <1>4 DEF FunctionTimerTimeoutCallback, TypeOK, History
  <2>2. ~QueueFull => Queued(TimerEvent)'
    BY <1>4, PostedIsPending, EventsPosted DEF FunctionTimerTimeoutCallback
  <2>3. QED
    BY <2>1, <2>2 DEF Pending
<1>5. ASSUME NEW led \in LEDs, LEDStateUpdateHandler(led) PROVE PressIsTimed'
  <2>1. h'.fired = h.fired /\ h'.lostTimer = h.lostTimer /\ h'.fresh = h.fresh
    BY <1>5 DEF LEDStateUpdateHandler, TypeOK, History
  <2>2. QED
    BY <1>1, <1>5, <2>1, EventsPosted DEF LEDStateUpdateHandler, fnVars
<1>6. CASE GetEvent
  BY <1>6, GetEventKeepsPending, EventsPosted DEF GetEvent, fnVars
<1>7. CASE OpenCancelWindow
  BY <1>7 DEF OpenCancelWindow, StartTimer
<1>8. CASE ScheduleFactoryReset
  BY <1>8 DEF ScheduleFactoryReset, TypeOK, History
<1>9. CASE IgnoreTimer
  BY <1>9 DEF IgnoreTimer, fnVars
<1>10. CASE FunctionPushed
  <2>1. CASE ~mFunctionTimerActive /\ mFunction = NoneSelected
    BY <1>10, <2>1 DEF FunctionPushed, StartTimer
  <2>2. CASE ~(~mFunctionTimerActive /\ mFunction = NoneSelected)
    BY <1>10, <2>2, EventsDiffer, EventsPosted, HandledKeepsPending DEF FunctionPushed, fnVars
  <2>3. QED
    BY <2>1, <2>2
<1>11. CASE FunctionReleased
  BY <1>11 DEF FunctionReleased, CancelTimer, fnVars
<1>a. CASE ShowStatus
  BY <1>a DEF ShowStatus, CancelTimer
<1>12. ASSUME NEW led \in LEDs, UpdateState(led) PROVE PressIsTimed'
  <2>1. h'.fired = h.fired /\ h'.lostTimer = h.lostTimer /\ h'.fresh = h.fresh
    BY <1>12 DEF UpdateState, TypeOK, History
  <2>2. QED
    BY <1>12, <2>1, EventsDiffer, HandledKeepsPending DEF UpdateState, fnVars
<1>13. ASSUME UNCHANGED <<sAppEventQueue, event, fnVars>>, h'.fired = h.fired,
              h'.lostTimer = h.lostTimer, h'.fresh = h.fresh
       PROVE  PressIsTimed'
  BY <1>13 DEF fnVars, Pending, Queued
<1>14. CASE BleChange \/ NetworkChange
  <2>1. PICK n : UpdateStatusLED(n)
    BY <1>14 DEF BleChange, NetworkChange
  <2>2. QED
    BY <1>13, <2>1 DEF UpdateStatusLED, TypeOK, History
<1>15. CASE OnIdentifyStart \/ OnIdentifyStop
  <2>1. PICK p : Identify(p)
    BY <1>15 DEF OnIdentifyStart, OnIdentifyStop
  <2>2. QED
    BY <1>13, <2>1 DEF Identify, TypeOK, History
<1>b. CASE CancelInWindow
  BY <1>13, <1>b DEF CancelInWindow, TypeOK, History
<1>16. CASE UNCHANGED vars
  BY <1>13, <1>16 DEF vars
<1>17. QED
  BY <1>2, <1>3, <1>4, <1>5, <1>6, <1>7, <1>8, <1>9, <1>10, <1>11, <1>12, <1>14, <1>15, <1>16,
     <1>a, <1>b
  DEF Next, Dispatch

\* Until the reset is requested, the timer of a press runs or its event is on the
\* way or was dropped (StartTimer, FunctionTimerTimeoutCallback).
THEOREM PressIsTimedHolds == Spec => []PressIsTimed
<1>1. Init => PressIsTimed
  BY DEF Init, PressIsTimed
<1>2. TypeOK /\ PressInv /\ PressIsTimed /\ [Next]_vars => PressIsTimed'
  BY PressIsTimedStep DEF PressInv
<1>3. QED
  BY <1>1, <1>2, TypeCorrect, PressInvHolds, PTL DEF Spec

(***************************************************************************)
(* AppTask implements FactoryResetButton.                                  *)
(***************************************************************************)
LEMMA PromiseStep ==
    ASSUME TypeOK, PressInv, [Next]_vars
    PROVE  [Promise!Next]_<<Phase, resetScheduled>>
<1> USE DEF Phase, NoneSelected, SoftwareUpdate, FactoryReset
<1>1. ASSUME UNCHANGED <<mFunction, mFunctionTimerActive, resetScheduled>>, h'.fired = h.fired
      PROVE  UNCHANGED <<Phase, resetScheduled>>
  BY <1>1
<1>2. CASE \/ PushButton \/ ReleaseButton \/ FunctionTimerTimeoutCallback \/ GetEvent
           \/ IgnoreTimer
           \/ \E led \in LEDs : LEDStateUpdateHandler(led) \/ UpdateState(led)
  <2>1. UNCHANGED <<mFunction, mFunctionTimerActive, resetScheduled>> /\ h'.fired = h.fired
    BY <1>2 DEF PushButton, ReleaseButton, FunctionTimerTimeoutCallback, GetEvent, IgnoreTimer,
                LEDStateUpdateHandler, UpdateState, fnVars, TypeOK, History
  <2>2. QED
    BY <1>1, <2>1
<1>3. CASE OpenCancelWindow
  <2>1. /\ mFunctionTimerActive /\ mFunction = 0 /\ mFunctionTimerActive' /\ mFunction' = 1
        /\ UNCHANGED resetScheduled
    BY <1>3 DEF OpenCancelWindow, StartTimer
  <2>2. CASE h.fired
    BY <2>1, <2>2 DEF Promise!Next, Promise!Reopen
  <2>3. CASE ~h.fired
    BY <2>1, <2>3 DEF Promise!Next, Promise!OpenWindow
  <2>4. QED
    BY <2>2, <2>3
<1>4. CASE ScheduleFactoryReset
  <2>1. h'.fired
    BY <1>4 DEF ScheduleFactoryReset, TypeOK, History
  <2>2. QED
    BY <1>4, <2>1 DEF ScheduleFactoryReset, Promise!Next, Promise!Request
<1>5. CASE FunctionPushed
  <2>1. CASE ~mFunctionTimerActive /\ mFunction = NoneSelected
    <3>1. ~h.fired /\ h'.fired = h.fired
      BY <1>5, <2>1 DEF FunctionPushed, Rearmed, PressInv, FiredIsActive, TypeOK, History
    <3>2. QED
      BY <1>5, <2>1, <3>1 DEF FunctionPushed, StartTimer, Promise!Next, Promise!Press
  <2>2. CASE ~(~mFunctionTimerActive /\ mFunction = NoneSelected)
    BY <1>5, <2>2, <1>1 DEF FunctionPushed, fnVars
  <2>3. QED
    BY <2>1, <2>2
<1>6. CASE FunctionReleased
  <2>1. CASE mFunctionTimerActive
    BY <1>6, <2>1 DEF FunctionReleased, CancelTimer, Promise!Next, Promise!Release
  <2>2. CASE ~mFunctionTimerActive
    BY <1>6, <2>2 DEF FunctionReleased, fnVars
  <2>3. QED
    BY <2>1, <2>2
<1>a. CASE CancelInWindow
  BY <1>1, <1>a DEF CancelInWindow, fnVars, TypeOK, History
<1>b. CASE ShowStatus
  <2>1. ~mFunctionTimerActive' /\ UNCHANGED resetScheduled
    BY <1>b DEF ShowStatus, CancelTimer
  <2>2. QED
    BY <2>1 DEF Promise!Next, Promise!Release
<1>7. CASE BleChange \/ NetworkChange
  <2>1. PICK n : UpdateStatusLED(n)
    BY <1>7 DEF BleChange, NetworkChange
  <2>2. QED
    BY <1>1, <2>1 DEF UpdateStatusLED, fnVars, TypeOK, History
<1>8. CASE OnIdentifyStart \/ OnIdentifyStop
  <2>1. PICK p : Identify(p)
    BY <1>8 DEF OnIdentifyStart, OnIdentifyStop
  <2>2. QED
    BY <1>1, <2>1 DEF Identify, fnVars, TypeOK, History
<1>9. CASE UNCHANGED vars
  BY <1>9, <1>1 DEF vars, fnVars
<1>10. QED
  BY <1>2, <1>3, <1>4, <1>5, <1>6, <1>7, <1>8, <1>9, <1>a, <1>b DEF Next, Dispatch

\* The function button, with its queue, timers, LEDs and threads, keeps the
\* promise of FactoryResetButton.
THEOREM Refinement == Spec => KeepsPromise
<1>1. Init => Promise!Init
  BY DEF Init, Promise!Init, Phase
<1>2. TypeOK /\ PressInv /\ [Next]_vars => [Promise!Next]_<<Phase, resetScheduled>>
  BY PromiseStep
<1>3. QED
  BY <1>1, <1>2, TypeCorrect, PressInvHolds, PTL DEF Spec, KeepsPromise, Promise!Spec
=============================================================================
