# Verification of the soil sensor firmware

TLA+ models of the nRF Connect firmware in `src/nrfconnect/main`, the TLC runs that check them
and the TLAPS proofs about them. Paths below are relative to `src/nrfconnect/main` unless they
start with `src/`; "the README" is `src/nrfconnect/README.md`.

## The system

The firmware is a Matter device on Zephyr. Three threads of control and the interrupt side share
its state:

- the *interrupt side*: the button driver and the `k_timer`s, which only post to a queue;
- the *app thread* (`AppTask`): takes events from a bounded `k_msgq` and runs their handlers;
- the *CHIP event loop*: Matter commands, connectivity events, identify, the system timers;
- *main*: initialises everything in order, starts the two other threads on the way, and idles.

| Component | State | Operations | Talks to |
|---|---|---|---|
| Application task (`src/app/AppTask.cpp`) | `sAppEventQueue`, `mFunction`, `mFunctionTimerActive`, `sFunctionTimer`, connectivity flags | button and timer callbacks, `PostEvent`, `DispatchEvent`, `FunctionHandler`, `FunctionTimerEventHandler`, `ChipEventHandler` | LEDs, `Server::ScheduleFactoryReset` |
| LED widgets (`src/platform/LEDWidget.cpp`) | periods, state, blink timer, GPIO | `Set`, `Blink`, `UpdateState`, timer handler | posts `UpdateLedState` to the app thread; called by both threads, no lock |
| Identify (`src/matter/IdentifyHandler.cpp`) | the identify LED | start, stop | LED widget |
| Factory reset and wipe (`src/app/factory_reset.cpp`, `src/matter/access_manager.cpp`) | `sFactoryResetScheduled`, fabric list, first error; the stored fabrics, ACLs, groups, sessions | `DoFactoryResetLikeNordic`, `DoFullMatterWipe` | Matter server, settings, reset of the MCU |
| Boot (`src/main.cpp`) | order of the calls, early returns | `main` | all of the above |
| Time synchronization (`src/matter/ep0_timesync_delegate.cpp`) | UTC time, time source; Last Known Good Time, clock | `SetUTCTime`, `Read` | reporting engine, fabric table, clock |
| Soil sensor (`src/sensors/soil_moisture_sensor.cpp`) | last value, system timer | `Init`, `SoilUpdateTimer` | SoilMeasurement cluster |
| Attribute overrides and metadata filter (`src/matter/ep0_*.cpp`, `gkm_*`, `gendiag_*`, `cluster_overrides/`) | the tables they serve, what is registered | `Read`, `ReadAttribute`, `Attributes`, registration, the revision guard | attribute registry, data model |
| Configuration (`src/cfg/app_config.cpp`), BLE (`src/connectivity/ble_manager.cpp`), server runtime | country code, date, name | called once by `main` | stack |

What is hard, and what makes each part correct:

- *Button.* A press, its timer's event and its release pass through one lossy queue and are
  handled later, against the state the handlers before them left. A press must end; a release must
  cancel; a reset must mean the button was held.
- *LEDs.* A blinking LED is a chain timer -> queue -> handler -> timer that must not break, and two
  threads run a widget's statements without a lock.
- *Wipe.* Every removal may fail and power may be lost between any two; the error returned must be
  the first one, no fabric may be left without its access control, the device must come back
  commissionable.
- *Boot.* The button works before the server does; a reset asked for then must still be served.
- *Attributes.* A read passes a filter, an interface and a generated table; lists, answers and
  revisions are written down in each of them and must agree.
- *Time.* 64-bit additions and 32-bit casts; a subscriber knows only what is marked dirty.
- *Sensor.* A timer chain whose results nobody looks at.

`PROJECT.json` lists the hazards line by line with the properties that cover them.

## Modules

`AppTask` is the core. One action per handler or callback: `PushButton` / `ReleaseButton`
(`ButtonEventHandler`, interrupt side), `FunctionTimerTimeoutCallback` and `LEDStateUpdateHandler`
(timers), `GetEvent` and the actions of `Dispatch` (app thread: an event is taken in one step and
handled in another, so that callbacks fall between), `BleChange` / `NetworkChange`
(`ChipEventHandler`) and `OnIdentifyStart` / `OnIdentifyStop` (CHIP thread). The one handler of the
app thread that reads what the CHIP thread writes, the release in the cancel window, is two steps:
`CancelInWindow` takes the signal back and reads the flags, `ShowStatus` makes the call they led to
(`statusCall` between the two) and cancels the timer; the CHIP thread may change flags and LED in
between. A call on a widget is one step, so nothing is claimed here of what the status LED shows:
that is the subject of `LEDWidget`. Widgets are abstracted to the pattern they show and whether
their timer runs. `FunctionEvent` keeps its two enumerators of value 0. The record `h` is history:
no guard reads it. Of `net`, `network` is `sIsNetworkProvisioned && sIsNetworkEnabled`, which the code
only reads together. `MCAppTask` names the sets of signal LEDs the runs use.

`FactoryResetButton` is what the button promises (idle, trigger, window, done); `AppTask` refines
it under the mapping `Phase`. Its step `Reopen` says what the code can really do: after a request a
queued Timer event opens another window.

`LEDWidget` takes the status LED apart into the single reads and writes of `Set`, `Blink` and
`UpdateState`; `todo[t]` is what thread t has still to run. `Preemption` chooses which thread may
run inside a handler of the other; `raced` records that one did. The reset window has two ends: a
cancellation (`CancelInWindow`, back to "closed"), which restores the status, and the reset request
(`ScheduleFactoryReset`, to "over"), after which `AppTask.cpp:192-197` and the release that follows
leave the LED in the 500/500 pattern, with or without its timer's event lost; a further window may
open from there.

`FactoryReset` is what a factory reset promises, without steps, failures or threads: the device is
off, running, wiping or stopped in its boot, commissioned or not, its window open or not. Once it
wipes nothing is commissioned and no window opens, fabrics only go, and the only way out is the
reset or a power loss. Two modules implement it under a mapping of their own.

`MatterWipe` is the wipe step by step over the non-volatile `store`, with failures, power loss and
the following boot, which ends in the event loop, its window opened if there is no fabric and
`OpenBasicCommissioningWindow` does not fail (`OpenWindowIfNeeded`; the failure is only logged), or
stops before the loop ("stopped") until the power goes (`PowerCycle`).

`Boot` is `main` as a program counter over its calls, beside the app thread that may ask for a reset
at once and the event loop. Calls that can fail do: with an early return, with a log line, or with
nothing where `main` ignores the result, as it does of `AddEventHandler` (`main.cpp:105`), without
whose handler no reset is answered. The wipe is two steps there. Its fabrics are a boolean, so the
removal of the last one is the step `Leave` of `FactoryReset`.

`AttributeAccess` is who answers a read on this device: `MetadataFilter`, then the interface that is
registered for the path, then the data model. An interface is a record of what it encodes, what it
refuses, the attribute list it gives and the revision it serves; `Boot` registers them in the order
of `main`, the revision guard compares what the attribute table holds with its sanity list,
`InitializeFabricHandlers` registers the access-control listener (`listener`; an entry that changes
is marked only if it is there), and then the event loop serves subscriptions, `SetUTCTime` and
changes of access-control entries. It extends `TimeSync`, the time synchronization delegate with its
integer widths as constants and a subscriber, and runs its actions on the loop. `MCAttributeAccess`
scales the widths down.

`SoilSensor` extends `Boot` by the sensor: `main`'s call `Init` in three steps (`Create`,
`FirstUpdate`, `Arm`, which is where `Boot` makes its step), then `SoilUpdateTimer` on the event loop,
which does not run while the handler of a wipe sleeps, and the loss of all of it in a reset
(`Restart`). The registry may refuse the cluster (`registered`), which the code does not notice: the
value is kept up to date with nobody to read it.

External code (the Matter stack, Zephyr timers and scheduler, storage) appears only as this code uses
it, and its definitions are marked so in `PROJECT.json`. In particular: the stack answers
`ScheduleFactoryReset` by running the registered handler on the event loop; `k_msgq_put` with
`K_NO_WAIT` fails at a full queue; the soil cluster refuses a value outside its limits.

## Runs

| Run | Shows |
|---|---|
| `apptask` | press protocol, blink chain and the refinement of `FactoryResetButton`; the reset LEDs signal the whole cancel window and are off after a cancellation; a press ends; a queued release ends the press: two presses, a queue of two |
| `apptask_full_hold`, `apptask_lost_release` | two statements of the README the code does not keep |
| `led` | under any preemption a blinking widget goes on; while no handler was interrupted, the timer has the period of the state, and the pattern is that of the connectivity again once a window was cancelled |
| `led_preempted` | preemption in `UpdateState` leaves the LED of a provisioned device off |
| `led_short_flash` | a provisioned device without connectivity does not show the README's pattern |
| `wipe` | honest result, damage confined to one fabric, no fabric without ACL, commissionable after the reboot but for the failures named in the property, refinement of `FactoryReset`: two fabrics, two power losses |
| `boot` | with the sensor (module `SoilSensor`): the event loop finds a complete server; a reset asked for at any moment is served, but for the failures named in the property; a boot without fabrics opens the window; refinement of `FactoryReset`; a client reads the moisture drawn last, every update changes it, and the updates go on |
| `boot_request` | a `main` that returned leaves a button that resets nothing |
| `boot_advertising` | the device advertises after power up without a button being pressed |
| `attributes` | lists are exact, revisions agree wherever the guard compares them, copies of the time are exact, subscribers hear of the time and of access-control changes |
| `revision_guard` | the sanity list of the guard is not what the device serves |

Bounds. The queue holds 2 events instead of 10: three events are enough for it to overflow, and
a stale event needs a release, a press and a Timer event: one in hand and two queued. Two presses are
enough for an event of one to meet the other, in the liveness properties too. One signal LED stands
for the two of the larger board, which are only ever written together; a board without one has
nothing to signal, and the proofs cover both. Two fabrics
are a fabric before and one after the one being removed; two power losses cut a wipe and the wipe of
what was left. Three boots are a boot, one after a wipe, and one after that. The scaled times hold
both sides of each of the two limits; the paths and attributes are those the interfaces name, and
one `Other` for the rest of a cluster. The limit of the moisture is 3 instead of 100: a value inside,
both ends and the sentinel; the proofs are for every limit. `MaxQueued` is 2 `UpdateLedState` events of one widget.

A behaviour may end only in `Boot`, with or without the sensor (main returned or died, or the bound
on boots); its configurations switch deadlock checking off.

Fairness. App thread: it is a Zephyr thread that loops on `k_msgq_get` and nothing suspends it, so
taking and handling an event is weakly fair; a running one-shot `k_timer` expires unless it is
stopped. Nothing is assumed of the user, the network or the blink timers. Wipe: the event loop runs
on, each step of the handler returns, and a device that is off is powered again. Boot: main, and the
event loop once it runs, on which a running system timer expires; `StartTimer` may fail at any time.
No property needs strong fairness.

### What the runs refute

- *A stale Timer event opens the window at once* (`apptask_full_hold`, `AppTask.cpp:175`): the app
  thread is late, a release and a second press are queued, the first press's timer expires behind
  them, and its event is taken for that of the second press. `GenuineResetMeansHeld` shows what still
  holds.
- *A release dropped at the full queue does not cancel* (`apptask_lost_release`, `AppTask.cpp:150`).
- *The LED of a provisioned device stays off* (`led_preempted`, `LEDWidget.cpp:97`): the CHIP thread
  calls `Set(true)` between the check and the toggle of the app thread.
- *A button without a reset* (`boot_request`, `main.cpp:143`); the same where the platform refused
  the handler (`main.cpp:105`).
- *The pattern of a provisioned, unconnected device* (`led_short_flash`, `AppTask.cpp:313`): the README
  documents 950 ms on and 50 ms off (`src/nrfconnect/README.md:146-148`), the code flashes 50 on and
  950 off, as for an unprovisioned device. `ShowsConnectivity`, which passes, is about the code's
  patterns.
- *Advertising starts by itself* (`boot_advertising`, `main.cpp:198`): "for security reasons" it is to
  be started by a button after power up (`src/nrfconnect/README.md:64-69`); no button starts it, `main`
  does, and opens the commissioning window on a device without fabrics (`access_manager.cpp:194`).
  `CommissionableWithoutFabric` and `WipeEndsCommissionable`, which pass, say what the code does.
- *The sanity list is wrong about two clusters* (`revision_guard`, `ep0_revision_guard.cpp:42`): it
  expects revision 3 of Descriptor where `ep0_im_sanitizer.cpp:52` serves 2, which the guard cannot
  see in the attribute table, and 2 of GeneralCommissioning where `soil-sensor-app.zap:1102` has 1,
  which it logs at every boot; the result is dropped.

Met on the way, without a run: a country code that could not be read is overwritten, although
`app_config.cpp:54` says that a default is populated only "when nothing has been provisioned yet"; the
AttributeList of Basic Information (endpoint 0) leaves out the feature map and the optional
attributes that `ConfigureBasicInformation` enables; the comment at `main.cpp:124-125` defers
advertising until after the event loop has started, but a failed `StartEventLoopTask` is only logged
and advertising is enabled all the same; `TimeSource` changes with `SetUTCTime` and is not marked
dirty; a device whose last fabric is removed opens no commissioning window before the next boot; the
`settings_save` that the wipe schedules never runs, since its handler ends in a reset.

## Proofs

For every value of the constants that satisfies the assumptions named in the modules:

- `AppTask_proofs`: type correctness, `BlinkChain` and `WindowSignalled`. The last speaks of the
  factory-reset LEDs only, which no handler of the CHIP thread writes, so that it does not rest on the
  order of calls of the two threads; `SignalInv` adds what is known between the two steps of a
  release in the window.
- `AppTaskPress_proofs`: `IdleOnceReleased`, `PressIsTimed`, `GenuineResetMeansHeld`, and that `AppTask`
  implements `FactoryResetButton`. None of the three is inductive: they speak of the moment an event
  is handled, and what is handled is decided by the order in the queue long before. `PressInv`
  states that order. `ReleasedBefore(k)` says that once the app thread reaches place k of the queue
  a release will have ended the press: the last button event before k is a release, or there is
  none and no press is in progress. It holds at the end of the queue while the button is up
  (`ReleaseSeen`) and, for a Timer event whose timer expired with the button up, at that event's
  place (`UnheldQueued`, `UnheldInHand`). Posting leaves it as it is, taking an event moves it one
  place, a handler keeps it. `InactiveIsIdle` and `FiredIsActive` tie the flag to the rest.
- `TimeSync_proofs`: types, `TimesAreExact` for every width, and `SubscriberIsCurrent`. The last needs
  only what a read depends on (`ReadDependsOn`): a step that leaves that alone leaves what the
  subscriber knows current, and the one that changes it marks the attribute dirty.
- `AttributeAccess_proofs`: that the device runs `TimeSync` (registrations and access control leave it
  alone), so that `TimesAreExact` and `SubscriberIsCurrent` hold of the device; types,
  `AclIsReported`, which needs that the listener is registered by the last call before the loop
  (`ListenerInPlace`), and `GuardSeesServed`. The last needs `GuardInv`: the registry is the part of
  `Calls` before the call main is at, since the interfaces have paths of their own, and what the
  guard has found as expected the table holds still. `ListsAreExact` follows: when the loop runs the
  registry holds every interface, the paths differ (`PathsAre`), and so a path is answered by one
  interface and the data model (`OneAnswers`) or by the data model alone (`NoneAnswers`); one lemma
  per interface then compares its tables. `SanityListFrontier` has no run of its own: the sanity
  list, which `revision_guard` refutes, is wrong about Descriptor and GeneralCommissioning after
  every boot and about no other cluster.
- `LEDWidget_proofs`: `BlinkGoesOn`, for both kinds of preemption and any queue. It is about moments
  without a handler in progress; `GoesOn` says of every moment that the timer runs, the event is
  queued, or some thread has a statement before it that starts the timer or stops the blinking.
  `WellEnded` says why: after each statement that takes the timer away or makes the widget blink
  such a statement follows in the same handler, and the other thread cannot take it away. The types
  need `Ordered` and `Placed`: which statements follow which, and so how long the rest of a handler
  gets. `PeriodFollowsState` and `ShowsConnectivity` are about runs in which no handler is
  interrupted by the other thread (`raced`); `Solo` lists for every moment of such a run, field by
  field (`PinKnown`, `PeriodKnown`, `PatternKnown`, `LitKnown`), that the field has its value or
  which statement of the one handler in progress still gives it. From the same invariant
  `SolidUnlessInterrupted`: with the window closed, which it is not after a reset request, the
  interruption that `led_preempted` finds is the only way a provisioned device fails to show the
  README's solid light.
- `SoilSensor_proofs`: that the device with its sensor is the device of `Boot` (`SensorIsBoot`), types,
  `ServesLastDrawn` and `EveryUpdateChanges`, for every upper limit. `ServesLastDrawn` needs two
  things: where `Init` is and what the cluster has then (`Staged`), and the order of main's calls, for
  which it cites the invariant of `Boot_proofs`.
- `MatterWipe_proofs`: types, `ResultIsHonest`, `OneFabricAtATime`, `NoFabricWithoutAcl`, and that
  the steps of the wipe implement those of `FactoryReset`, for every finite set of fabrics and any
  number of power losses. None of the three is inductive: `DeleteAcl` ends a fabric and what makes it
  whole (all gone) was done three steps before. `Removed` says what the steps at the fabric have
  removed so far unless one of them failed, `FirstKept` that `firstError` is the first of the errors
  of this wipe from its start on, `IndexKnown` when the loop is at a fabric, and `LoopServes` that
  the table of a running loop is the stored one and that a wipe has closed the window, which the
  refinement needs.
- `Boot_proofs`: types, `LoopRunsOnReadyServer`, `CommissionableWithoutFabric`, and that `Boot`
  implements `FactoryReset`, for any number of boots. `Order` lists which call of `main` follows which;
  with it the invariant says from which call on each part of the set-up is there (`Done`), that the
  loop runs from one call on and never after an early return (`LoopIsLate`), and what the window may
  be before the loop runs (`WindowKnown`).

The assumptions are the named `ASSUME`s of the modules: a queue size and bounds that are natural
numbers, a finite set of fabrics that does not hold `NoFabric`, a MicrosPerSecond that is not zero.

Only model-checked: liveness (`PressEnds`, `ReleaseEndsPress`, `RequestServed`,
`WipeEndsCommissionable`, `MeasurementsGoOn`) and the fair part of the refinement of `FactoryReset`
by `MatterWipe`, since fairness and ENABLED are beyond the prover.

## Not modelled

- The country code and the manufacturing date of `app_config` (what is stored is read by nothing in
  the repository), the ADC helper (no caller in the application), the device-info provider and the
  attestation shim (constant tables and vendor data).
- Values of attributes other than revisions and times, and the encoding of a list into a report.
  Whether the stack asks an interface for an attribute that its metadata does not hold
  (`ConfigurationVersion`) is external; the model says it does. Attributes the data model keeps
  outside of its table count as unreadable by `emberAfReadAttribute`.
- The append failures of `MetadataFilter::Attributes`: what a caller does with the error is in the
  stack.
- `sIdentifyLED` under preemption: it meets a subset of the interleavings of `sStatusLED` in
  `LEDWidget`.
- Formatting and logging everywhere.

## Plan

1. `Lifecycle`: the button, `Boot` and `MatterWipe` composed, with `FactoryResetButton` and
   `FactoryReset` as the two ends of one promise.
2. `AppConfig`: country code and date over boots, if a reader of them comes to the code.
