----------------------------- MODULE LEDWidget -----------------------------
(***************************************************************************)
(* One LEDWidget, sStatusLED (main/src/platform/LEDWidget.cpp), driven     *)
(* without a lock by two threads: the app thread (UpdateLedState events    *)
(* and the factory-reset window, AppTask.cpp) and the CHIP event loop      *)
(* (ChipEventHandler, which ends in UpdateStatusLED).                      *)
(*                                                                         *)
(* The calls are split into the reads and writes a preemption can fall     *)
(* between.  The board is the one with two LEDs (nRF7002 DK), whose status *)
(* LED also signals the reset window; on a board with four LEDs the window *)
(* only switches the status LED off, which is a part of the calls made     *)
(* here.  todo[t] holds the statements thread t still has to run; a        *)
(* statement that computes its argument is replaced by its second half,    *)
(* which holds the computed value.                                         *)
(***************************************************************************)
EXTENDS Integers, Sequences

CONSTANTS
    Preemption,  \* which thread may run inside a handler of the other: the
                 \* CHIP thread only, or any
    MaxQueued    \* bound: UpdateLedState events of this widget in the queue

ASSUME WidgetAssumption == MaxQueued \in Nat \ {0}
ASSUME PreemptionAssumption == Preemption \in {"chip", "any"}

Threads == {"app", "chip"}
Stopped == -1

VARIABLES
    mBlinkOnTimeMS, mBlinkOffTimeMS, mState,
    mLedTimer,  \* Stopped, or the period the running k_timer was started with
    pin,        \* the GPIO level last written by dk_set_led
    queued,     \* UpdateLedState events in sAppEventQueue
    lost,       \* history: one met a full queue, and the timer was not started since
    net,        \* the flags of AppTask.cpp
    window,     \* "open" while mFunction = FactoryReset; "over" from the reset request
                \* that ended a window on: its signal stays on the LED
    todo,
    raced       \* history: a thread has run inside a handler of the other

widget == <<mBlinkOnTimeMS, mBlinkOffTimeMS, mState, mLedTimer, pin>>
vars   == <<widget, queued, lost, net, window, todo, raced>>

\* What LEDWidget::Init and the first UpdateStatusLED leave (AppTask::Init runs
\* before the app thread and the event loop exist).
Init ==
    /\ mBlinkOnTimeMS = 50 /\ mBlinkOffTimeMS = 950
    /\ mState = TRUE /\ pin = TRUE /\ mLedTimer = 50
    /\ queued = 0 /\ lost = FALSE
    /\ net = [provisioned |-> FALSE, enabled |-> FALSE, ble |-> FALSE]
    /\ window = "closed"
    /\ todo = [t \in Threads |-> <<>>]
    /\ raced = FALSE

(***************************************************************************)
(* The calls as sequences of statements.                                   *)
(***************************************************************************)
DoSet(state) == << <<"mState", state>>, <<"pin", state>> >>

Set(state) == << <<"stop">>, <<"off", 0>>, <<"on", 0>> >> \o DoSet(state)

\* Mutated forms: the next change is not scheduled, or is scheduled with the
\* period of the old state.
UpdateStateToggleOnly == << <<"check">>, <<"toggle">> >>
UpdateStateScheduleFirst == << <<"check">>, <<"schedule">>, <<"toggle">> >>

UpdateState == << <<"check">>, <<"toggle">>, <<"schedule">> >>

Blink(on, off) == << <<"stop">>, <<"on", on>>, <<"off", off>> >> \o UpdateState

UpdateStatusLED == << <<"updateStatus">> >>

StatusCall ==
    IF net.provisioned /\ net.enabled THEN Set(TRUE)
    ELSE IF net.ble THEN Blink(100, 100) ELSE Blink(50, 950)

Blinking == mBlinkOnTimeMS # 0 /\ mBlinkOffTimeMS # 0

(***************************************************************************)
(* Starting a handler.                                                     *)
(***************************************************************************)
Inside(t) == \E other \in Threads \ {t} : todo[other] # <<>>

MayRun(t) ==
    /\ Inside(t) => Preemption = "any" \/ t = "chip"
    /\ raced' = (raced \/ Inside(t))

Start(t, calls) ==
    /\ MayRun(t)
    /\ todo[t] = <<>>
    /\ todo' = [todo EXCEPT ![t] = calls]
    /\ UNCHANGED <<widget, lost>>

\* The app thread takes an UpdateLedState event.
UpdateLedState ==
    /\ queued > 0
    /\ queued' = queued - 1
    /\ Start("app", UpdateState)
    /\ UNCHANGED <<net, window>>

\* FunctionTimerEventHandler opening the window, after a reset request as well;
\* FunctionHandler cancelling in it.
OpenCancelWindow ==
    /\ window # "open"
    /\ window' = "open"
    /\ Start("app", Set(FALSE) \o Blink(500, 500))
    /\ UNCHANGED <<queued, net>>

\* Mutated form: the connectivity pattern is not restored.
CancelInWindowOnly ==
    /\ window = "open"
    /\ window' = "closed"
    /\ Start("app", Set(FALSE))
    /\ UNCHANGED <<queued, net>>

CancelInWindow ==
    /\ window = "open"
    /\ window' = "closed"
    /\ Start("app", Set(FALSE) \o UpdateStatusLED)
    /\ UNCHANGED <<queued, net>>

\* FunctionTimerEventHandler at the end of the window: mFunction is reset and the
\* LED is left as it is, also by the release that follows (AppTask.cpp:237-241).
ScheduleFactoryReset ==
    /\ window = "open"
    /\ window' = "over"
    /\ Start("app", <<>>)
    /\ UNCHANGED <<queued, net>>

\* ChipEventHandler: flags are stored one after the other, then UpdateStatusLED.
ChipEventHandler ==
    /\ \/ \E have \in BOOLEAN :
             Start("chip", << <<"ble", have>> >> \o UpdateStatusLED)
       \/ \E provisioned, enabled \in BOOLEAN :
             Start("chip", << <<"provisioned", provisioned>>, <<"enabled", enabled>> >>
                           \o UpdateStatusLED)
    /\ UNCHANGED <<queued, net, window>>

(***************************************************************************)
(* One statement of thread t.                                              *)
(***************************************************************************)
Then(t, statements) == todo' = [todo EXCEPT ![t] = statements]
Keep(fields) == UNCHANGED <<fields, queued, window>>

Statement(t) ==
    LET now  == Head(todo[t])
        rest == Tail(todo[t])
    IN  /\ todo[t] # <<>>
        /\ MayRun(t)
        /\ \/ /\ now[1] = "stop" /\ mLedTimer' = Stopped /\ Then(t, rest)
              /\ Keep(<<mBlinkOnTimeMS, mBlinkOffTimeMS, mState, pin, net, lost>>)
           \/ /\ now[1] = "on" /\ mBlinkOnTimeMS' = now[2] /\ Then(t, rest)
              /\ Keep(<<mBlinkOffTimeMS, mState, mLedTimer, pin, net, lost>>)
           \/ /\ now[1] = "off" /\ mBlinkOffTimeMS' = now[2] /\ Then(t, rest)
              /\ Keep(<<mBlinkOnTimeMS, mState, mLedTimer, pin, net, lost>>)
           \/ /\ now[1] = "mState" /\ mState' = now[2] /\ Then(t, rest)
              /\ Keep(<<mBlinkOnTimeMS, mBlinkOffTimeMS, mLedTimer, pin, net, lost>>)
           \/ /\ now[1] = "pin" /\ pin' = now[2] /\ Then(t, rest)
              /\ Keep(<<mBlinkOnTimeMS, mBlinkOffTimeMS, mState, mLedTimer, net, lost>>)
           \/ /\ now[1] = "check" /\ Then(t, IF Blinking THEN rest ELSE <<>>)
              /\ Keep(<<widget, net, lost>>)
           \/ /\ now[1] = "toggle" /\ Then(t, DoSet(~mState) \o rest)
              /\ Keep(<<widget, net, lost>>)
           \/ /\ now[1] = "schedule"
              /\ Then(t, << <<"start", IF mState THEN mBlinkOnTimeMS ELSE mBlinkOffTimeMS>> >> \o rest)
              /\ Keep(<<widget, net, lost>>)
           \/ /\ now[1] = "start" /\ mLedTimer' = now[2] /\ lost' = FALSE /\ Then(t, rest)
              /\ Keep(<<mBlinkOnTimeMS, mBlinkOffTimeMS, mState, pin, net>>)
           \/ /\ now[1] = "updateStatus" /\ Then(t, StatusCall \o rest)
              /\ Keep(<<widget, net, lost>>)
           \/ /\ now[1] \in DOMAIN net /\ net' = [net EXCEPT ![now[1]] = now[2]] /\ Then(t, rest)
              /\ Keep(<<widget, lost>>)

\* Mutated form: an event is posted at a full queue as well.
LedStateTimerHandlerUnbounded ==
    /\ mLedTimer # Stopped
    /\ mLedTimer' = Stopped
    /\ queued' = queued + 1
    /\ UNCHANGED <<mBlinkOnTimeMS, mBlinkOffTimeMS, mState, pin, lost, net, window, todo, raced>>

\* LedStateTimerHandler, from the timer interrupt, between any two statements.
LedStateTimerHandler ==
    /\ mLedTimer # Stopped
    /\ mLedTimer' = Stopped
    /\ queued' = IF queued < MaxQueued THEN queued + 1 ELSE queued
    /\ lost' = (queued = MaxQueued)
    /\ UNCHANGED <<mBlinkOnTimeMS, mBlinkOffTimeMS, mState, pin, net, window, todo, raced>>

Next ==
    \/ UpdateLedState \/ OpenCancelWindow \/ CancelInWindow \/ ScheduleFactoryReset
    \/ ChipEventHandler
    \/ \E t \in Threads : Statement(t)
    \/ LedStateTimerHandler

Spec == Init /\ [][Next]_vars

(***************************************************************************)
(* Properties.                                                             *)
(***************************************************************************)
Times == {0, 50, 100, 500, 950}

TypeOK ==
    /\ mBlinkOnTimeMS \in Times /\ mBlinkOffTimeMS \in Times
    /\ mState \in BOOLEAN /\ pin \in BOOLEAN
    /\ mLedTimer \in Times \union {Stopped}
    /\ queued \in 0..MaxQueued /\ lost \in BOOLEAN
    /\ net \in [provisioned : BOOLEAN, enabled : BOOLEAN, ble : BOOLEAN]
    /\ window \in {"closed", "open", "over"} /\ raced \in BOOLEAN
    /\ \A t \in Threads : Len(todo[t]) <= 11

\* No thread is inside a handler.
Quiet == \A t \in Threads : todo[t] = <<>>

\* Nothing is left that would change the LED without a new event.
Settled == Quiet /\ queued = 0 /\ mLedTimer = Stopped

\* Whatever the two threads do to each other's calls, a widget left blinking has
\* its timer running or its event queued: a race can spoil the pattern, never
\* stop it.  (LEDWidget::Blink, Set, UpdateState.)
BlinkGoesOn == Quiet /\ Blinking /\ ~lost => mLedTimer # Stopped \/ queued > 0

\* As long as no handler has run inside another one, a running timer of a
\* blinking widget has the period of the state the widget is in, whoever started
\* the pattern and whenever the timer fired.  (UpdateState, ScheduleStateChange.)
PeriodFollowsState ==
    ~raced /\ Quiet /\ Blinking /\ mLedTimer # Stopped =>
        mLedTimer = IF mState THEN mBlinkOnTimeMS ELSE mBlinkOffTimeMS

\* Outside the reset window, unless a reset has been requested since one was last
\* cancelled, and as long as no handler has run inside another one, the LED shows
\* what UpdateStatusLED derives from the flags now, however window, cancellation
\* and connectivity events alternate.  The pattern is the code's
\* (AppTask.cpp:303-314); README.md documents another one, see
\* ShortFlashOffWhenUnconnected.
ShowsConnectivity ==
    ~raced /\ Quiet /\ window = "closed" =>
        <<mBlinkOnTimeMS, mBlinkOffTimeMS>> =
            IF net.provisioned /\ net.enabled THEN <<0, 0>>
            ELSE IF net.ble THEN <<100, 100>> ELSE <<50, 950>>

(***************************************************************************)
(* Statements of the README the code does not keep.                        *)
(***************************************************************************)
\* README.md:150, "Solid On: the device is fully provisioned": once the LED has
\* settled on a fully provisioned and connected device, with no reset window
\* open or its signal left, it is on.
SolidOnWhenProvisioned ==
    Settled /\ window = "closed" /\ net.provisioned /\ net.enabled => pin

\* README.md:146-148, "Short Flash Off (950ms on/50ms off): the device is fully
\* provisioned, but does not yet have full connectivity".
ShortFlashOffWhenUnconnected ==
    ~raced /\ Quiet /\ window = "closed" /\ net.provisioned /\ ~net.enabled =>
        <<mBlinkOnTimeMS, mBlinkOffTimeMS>> = <<950, 50>>
=============================================================================
