-------------------------- MODULE LEDWidget_proofs --------------------------
(***************************************************************************)
(* Proofs about LEDWidget, for any preemption and any number of queued     *)
(* events.                                                                 *)
(*                                                                         *)
(* A widget left blinking goes on blinking.  BlinkGoesOn speaks of a       *)
(* moment when no thread is inside a handler; GoesOn speaks of every       *)
(* moment: a widget that blinks has its timer running or its event queued, *)
(* or some thread has a statement before it that settles the matter (it    *)
(* starts the timer, or stops the blinking).  WellEnded says why a thread  *)
(* that takes the timer away, or makes the widget blink, always has such a *)
(* statement before it, wherever the other thread interrupts it.           *)
(*                                                                         *)
(* The types: Ordered says which statements follow which in what is left   *)
(* of a handler, and so how long that gets.                                *)
(*                                                                         *)
(* A run in which no handler is interrupted by the other thread: Solo      *)
(* says of every moment of a handler, field by field, that the field has   *)
(* its value or which statement still gives it.  Between two handlers that *)
(* is PeriodFollowsState and ShowsConnectivity.                            *)
(***************************************************************************)
EXTENDS LEDWidget, TLAPS

Statements ==
    {<<"stop">>, <<"check">>, <<"toggle">>, <<"schedule">>, <<"updateStatus">>}
    \union {<<name, time>> : name \in {"on", "off", "start"}, time \in Times}
    \union {<<name, state>> : name \in {"mState", "pin", "ble", "provisioned", "enabled"},
                              state \in BOOLEAN}

\* A statement that ends in a running timer or in a widget that does not blink.
Settles(s) == \/ s[1] \in {"check", "toggle", "schedule", "start", "updateStatus"}
              \/ s[1] \in {"on", "off"} /\ s[2] = 0

\* A statement after which a later one has to settle.
Unsettles(s) == \/ s[1] \in {"stop", "check", "toggle"}
                \/ s[1] \in {"on", "off"} /\ s[2] # 0

Settling(calls) == \E i \in 1..Len(calls) : Settles(calls[i])

WellEnded(calls) ==
    \A i \in 1..Len(calls) : Unsettles(calls[i]) => \E j \in i + 1..Len(calls) : Settles(calls[j])

(***************************************************************************)
(* Sequences of statements.                                                *)
(***************************************************************************)
\* What is left after the first statement.
LEMMA RestIs ==
    ASSUME NEW S, NEW calls \in Seq(S), calls # <<>>, WellEnded(calls)
    PROVE  /\ Head(calls) \in S /\ Tail(calls) \in Seq(S)
           /\ WellEnded(Tail(calls))
           /\ Unsettles(Head(calls)) => Settling(Tail(calls))
           /\ Settling(calls) => Settles(Head(calls)) \/ Settling(Tail(calls))
<1>1. /\ Head(calls) \in S /\ Head(calls) = calls[1]
      /\ Tail(calls) \in Seq(S) /\ Len(calls) \in Nat \ {0} /\ Len(Tail(calls)) = Len(calls) - 1
      /\ \A i \in 1..Len(calls) - 1 : Tail(calls)[i] = calls[i + 1]
  OBVIOUS
<1>2. ASSUME NEW i \in 2..Len(calls), Settles(calls[i]) PROVE Settling(Tail(calls))
  <2>1. i - 1 \in 1..Len(Tail(calls)) /\ Tail(calls)[i - 1] = calls[i]
    BY <1>1
  <2>2. QED
    BY <1>2, <2>1 DEF Settling
<1>3. Unsettles(Head(calls)) => Settling(Tail(calls))
  BY <1>1, <1>2 DEF WellEnded
<1>4. Settling(calls) => Settles(Head(calls)) \/ Settling(Tail(calls))
  BY <1>1, <1>2 DEF Settling
<1>5. ASSUME NEW i \in 1..Len(Tail(calls)), Unsettles(Tail(calls)[i])
      PROVE  \E j \in i + 1..Len(Tail(calls)) : Settles(Tail(calls)[j])
  <2>1. i + 1 \in 1..Len(calls) /\ Unsettles(calls[i + 1])
    BY <1>1, <1>5
  <2>2. PICK j \in i + 2..Len(calls) : Settles(calls[j])
    BY <1>1, <2>1 DEF WellEnded
  <2>3. j - 1 \in i + 1..Len(Tail(calls)) /\ Tail(calls)[j - 1] = calls[j]
    BY <1>1
  <2>4. QED
    BY <2>2, <2>3
<1>6. QED
  BY <1>1, <1>3, <1>4, <1>5 DEF WellEnded

\* A call put before others.
LEMMA CallBefore ==
    ASSUME NEW S, NEW a \in Seq(S), NEW b \in Seq(S), WellEnded(a), WellEnded(b)
    PROVE  /\ a \o b \in Seq(S) /\ WellEnded(a \o b)
           /\ Settling(a) \/ Settling(b) => Settling(a \o b)
<1>1. /\ a \o b \in Seq(S) /\ Len(a) \in Nat /\ Len(b) \in Nat
      /\ Len(a \o b) = Len(a) + Len(b)
      /\ \A i \in 1..Len(a) : (a \o b)[i] = a[i]
      /\ \A i \in 1..Len(b) : (a \o b)[Len(a) + i] = b[i]
  OBVIOUS
<1>2. Settling(a) => Settling(a \o b)
  BY <1>1 DEF Settling
<1>3. Settling(b) => Settling(a \o b)
  <2> SUFFICES ASSUME NEW i \in 1..Len(b), Settles(b[i]) PROVE Settling(a \o b)
    BY DEF Settling
  <2>1. Len(a) + i \in 1..Len(a \o b) /\ (a \o b)[Len(a) + i] = b[i]
    BY <1>1
  <2>2. QED
    BY <2>1 DEF Settling
<1>4. ASSUME NEW i \in 1..Len(a \o b), Unsettles((a \o b)[i])
      PROVE  \E j \in i + 1..Len(a \o b) : Settles((a \o b)[j])
  <2>1. CASE i \in 1..Len(a)
    <3>1. PICK j \in i + 1..Len(a) : Settles(a[j])
      BY <1>1, <1>4, <2>1 DEF WellEnded
    <3>2. j \in i + 1..Len(a \o b) /\ (a \o b)[j] = a[j]
      BY <1>1, <2>1, <3>1
    <3>3. QED
      BY <3>1, <3>2
  <2>2. CASE i \notin 1..Len(a)
    <3>1. i - Len(a) \in 1..Len(b) /\ Unsettles(b[i - Len(a)])
      BY <1>1, <1>4, <2>2
    <3>2. PICK j \in (i - Len(a)) + 1..Len(b) : Settles(b[j])
      BY <3>1 DEF WellEnded
    <3>3. Len(a) + j \in i + 1..Len(a \o b) /\ (a \o b)[Len(a) + j] = b[j]
      BY <1>1, <3>1, <3>2
    <3>4. QED
      BY <3>2, <3>3
  <2>3. QED
    BY <2>1, <2>2
<1>5. QED
  BY <1>1, <1>2, <1>3, <1>4 DEF WellEnded

\* The calls of the code are sequences of statements that end well.
LEMMA CallsEndWell ==
    /\ \A state \in BOOLEAN :
           DoSet(state) \in Seq(Statements) /\ WellEnded(DoSet(state))
    /\ \A state \in BOOLEAN :
           Set(state) \in Seq(Statements) /\ WellEnded(Set(state)) /\ Settling(Set(state))
    /\ UpdateState \in Seq(Statements) /\ WellEnded(UpdateState) /\ Settling(UpdateState)
    /\ \A on \in Times : \A off \in Times :
           /\ Blink(on, off) \in Seq(Statements)
           /\ WellEnded(Blink(on, off)) /\ Settling(Blink(on, off))
    /\ UpdateStatusLED \in Seq(Statements) /\ WellEnded(UpdateStatusLED)
    /\ Settling(UpdateStatusLED)
<1>1. ASSUME NEW state \in BOOLEAN
      PROVE  DoSet(state) \in Seq(Statements) /\ WellEnded(DoSet(state))
  BY DEF DoSet, Statements, WellEnded, Unsettles
<1>2. /\ <<"stop">> \in Statements /\ <<"off", 0>> \in Statements /\ <<"on", 0>> \in Statements
      /\ Unsettles(<<"stop">>) /\ Settles(<<"off", 0>>)
      /\ ~Unsettles(<<"off", 0>>) /\ ~Unsettles(<<"on", 0>>)
  BY DEF Statements, Times, Settles, Unsettles
<1>3. /\ << <<"stop">>, <<"off", 0>>, <<"on", 0>> >> \in Seq(Statements)
      /\ WellEnded(<< <<"stop">>, <<"off", 0>>, <<"on", 0>> >>)
      /\ Settling(<< <<"stop">>, <<"off", 0>>, <<"on", 0>> >>)
  BY <1>2 DEF WellEnded, Settling
<1>4. ASSUME NEW state \in BOOLEAN
      PROVE  Set(state) \in Seq(Statements) /\ WellEnded(Set(state)) /\ Settling(Set(state))
  BY <1>1, <1>3, CallBefore DEF Set
<1>5. /\ <<"check">> \in Statements /\ <<"toggle">> \in Statements /\ <<"schedule">> \in Statements
      /\ Settles(<<"check">>) /\ Settles(<<"toggle">>) /\ Settles(<<"schedule">>)
      /\ ~Unsettles(<<"schedule">>)
  BY DEF Statements, Settles, Unsettles
<1>6. UpdateState \in Seq(Statements) /\ WellEnded(UpdateState) /\ Settling(UpdateState)
  BY <1>5 DEF UpdateState, WellEnded, Settling
<1>7. ASSUME NEW on \in Times, NEW off \in Times
      PROVE  /\ Blink(on, off) \in Seq(Statements)
             /\ WellEnded(Blink(on, off)) /\ Settling(Blink(on, off))
  <2>1. <<"on", on>> \in Statements /\ <<"off", off>> \in Statements
    BY DEF Statements
  <2> DEFINE calls == Blink(on, off)
             first == << <<"stop">>, <<"on", on>>, <<"off", off>> >>
  <2>2. first \in Seq(Statements) /\ Len(first) = 3
    BY <1>2, <2>1
  <2>3. calls \in Seq(Statements) /\ Len(calls) = 6 /\ calls[4] = <<"check">>
        /\ calls[5] = <<"toggle">> /\ calls[6] = <<"schedule">>
    BY <1>6, <2>2 DEF Blink, UpdateState
  <2>4. Settles(calls[4]) /\ Settles(calls[5]) /\ Settles(calls[6]) /\ ~Unsettles(calls[6])
    BY <1>5, <2>3
  <2> HIDE DEF calls
  <2>5. WellEnded(calls) /\ Settling(calls)
    BY <2>3, <2>4 DEF WellEnded, Settling
  <2>6. QED
    BY <2>3, <2>5 DEF calls
<1>8. /\ UpdateStatusLED \in Seq(Statements) /\ WellEnded(UpdateStatusLED)
      /\ Settling(UpdateStatusLED)
  <2>1. <<"updateStatus">> \in Statements /\ Settles(<<"updateStatus">>)
        /\ ~Unsettles(<<"updateStatus">>)
    BY DEF Statements, Settles, Unsettles
  <2>2. QED
    BY <2>1 DEF UpdateStatusLED, WellEnded, Settling
<1>9. QED
  BY <1>1, <1>4, <1>6, <1>7, <1>8

(***************************************************************************)
(* The invariant.                                                          *)
(***************************************************************************)
Fields ==
    /\ mBlinkOnTimeMS \in Times /\ mBlinkOffTimeMS \in Times /\ mState \in BOOLEAN
    /\ queued \in Nat
    /\ net \in [provisioned : BOOLEAN, enabled : BOOLEAN, ble : BOOLEAN]

Handlers ==
    /\ todo \in [Threads -> Seq(Statements)]
    /\ \A t \in Threads : WellEnded(todo[t])

GoesOn ==
    Blinking /\ ~lost =>
        mLedTimer # Stopped \/ queued > 0 \/ \E t \in Threads : Settling(todo[t])

Inv == Fields /\ Handlers /\ GoesOn

\* A thread starts a handler.
LEMMA StartStep ==
    ASSUME Inv, NEW t \in Threads, NEW calls \in Seq(Statements), WellEnded(calls),
           Start(t, calls), net' = net, queued' \in Nat, Settling(calls) \/ queued' = queued
    PROVE  Inv'
<1>1. UNCHANGED <<mBlinkOnTimeMS, mBlinkOffTimeMS, mState, mLedTimer, lost>>
      /\ todo[t] = <<>> /\ todo' = [todo EXCEPT ![t] = calls]
  BY DEF Start, widget
<1>2. Fields'
  BY <1>1 DEF Inv, Fields
<1>3. Handlers'
  BY <1>1 DEF Inv, Handlers
<1>4. GoesOn'
  <2>1. ~Settling(todo[t])
    BY <1>1 DEF Settling
  <2>2. \A u \in Threads : todo'[u] = IF u = t THEN calls ELSE todo[u]
    BY <1>1 DEF Inv, Handlers
  <2>3. (\E u \in Threads : Settling(todo[u])) => \E u \in Threads : Settling(todo'[u])
    BY <2>1, <2>2
  <2>4. Settling(calls) => \E u \in Threads : Settling(todo'[u])
    BY <2>2
  <2>5. Blinking' = Blinking
    BY <1>1 DEF Blinking
  <2>6. QED
    BY <1>1, <2>3, <2>4, <2>5 DEF Inv, GoesOn
<1>5. QED
  BY <1>2, <1>3, <1>4 DEF Inv

\* The handlers of the app thread and ChipEventHandler.
Handler ==
    \/ UpdateLedState \/ OpenCancelWindow \/ CancelInWindow \/ ScheduleFactoryReset
    \/ ChipEventHandler

LEMMA HandlerStep ==
    ASSUME Inv, Handler
    PROVE  Inv'
<1>0. /\ queued \in Nat /\ "app" \in Threads /\ "chip" \in Threads
      /\ 500 \in Times
  BY DEF Inv, Fields, Threads, Times
<1>1. CASE UpdateLedState
  <2>1. queued' \in Nat /\ net' = net /\ Start("app", UpdateState)
    BY <1>0, <1>1 DEF UpdateLedState
  <2>2. QED
    BY <1>0, <2>1, CallsEndWell, StartStep
<1>2. CASE OpenCancelWindow
  <2>1. queued' = queued /\ net' = net
    BY <1>2 DEF OpenCancelWindow
  <2>2. PICK state \in BOOLEAN : Start("app", Set(state) \o Blink(500, 500))
    BY <1>2 DEF OpenCancelWindow, Set, DoSet
  <2>3. Set(state) \o Blink(500, 500) \in Seq(Statements)
        /\ WellEnded(Set(state) \o Blink(500, 500))
    BY <1>0, CallsEndWell, CallBefore
  <2>4. QED
    BY <1>0, <2>1, <2>2, <2>3, StartStep
<1>3. CASE CancelInWindow
  <2>1. queued' = queued /\ net' = net
    BY <1>3 DEF CancelInWindow
  <2>2. PICK state \in BOOLEAN : Start("app", Set(state) \o UpdateStatusLED)
    BY <1>3 DEF CancelInWindow, Set, DoSet
  <2>3. Set(state) \o UpdateStatusLED \in Seq(Statements)
        /\ WellEnded(Set(state) \o UpdateStatusLED)
    BY CallsEndWell, CallBefore
  <2>4. QED
    BY <1>0, <2>1, <2>2, <2>3, StartStep
<1>4. CASE ChipEventHandler
  <2>0. queued' = queued /\ net' = net
    BY <1>4 DEF ChipEventHandler
  <2>1. ASSUME NEW name \in {"ble", "provisioned", "enabled"}, NEW value \in BOOLEAN
        PROVE  <<name, value>> \in Statements /\ ~Unsettles(<<name, value>>)
    BY DEF Statements, Unsettles
  <2>2. ASSUME NEW have \in BOOLEAN, Start("chip", << <<"ble", have>> >> \o UpdateStatusLED)
        PROVE  Inv'
    <3>1. << <<"ble", have>> >> \in Seq(Statements) /\ WellEnded(<< <<"ble", have>> >>)
      BY <2>1 DEF WellEnded
    <3>2. QED
      BY <1>0, <2>0, <2>2, <3>1, CallsEndWell, CallBefore, StartStep
  <2>3. ASSUME NEW provisioned \in BOOLEAN, NEW enabled \in BOOLEAN,
               Start("chip", << <<"provisioned", provisioned>>, <<"enabled", enabled>> >>
                             \o UpdateStatusLED)
        PROVE  Inv'
    <3> DEFINE flags == << <<"provisioned", provisioned>>, <<"enabled", enabled>> >>
    <3>1. flags \in Seq(Statements) /\ WellEnded(flags)
      BY <2>1 DEF WellEnded
    <3>2. QED
      BY <1>0, <2>0, <2>3, <3>1, CallsEndWell, CallBefore, StartStep
  <2>4. QED
    BY <1>4, <2>2, <2>3 DEF ChipEventHandler
<1>5. CASE ScheduleFactoryReset
  <2>1. queued' = queued /\ net' = net /\ Start("app", <<>>)
    BY <1>5 DEF ScheduleFactoryReset
  <2>2. <<>> \in Seq(Statements) /\ WellEnded(<<>>)
    BY DEF WellEnded
  <2>3. QED
    BY <1>0, <2>1, <2>2, StartStep
<1>6. QED
  BY <1>1, <1>2, <1>3, <1>4, <1>5 DEF Handler

\* LedStateTimerHandler queues the event, or records that it met a full queue.
LEMMA TimerStep == ASSUME Inv, LedStateTimerHandler PROVE Inv'
<1>1. UNCHANGED <<mBlinkOnTimeMS, mBlinkOffTimeMS, mState, net, todo>>
      /\ queued \in Nat /\ queued' \in Nat /\ (queued' > 0 \/ lost')
  BY WidgetAssumption DEF LedStateTimerHandler, Inv, Fields
<1>2. QED
  BY <1>1 DEF Inv, Fields, Handlers, GoesOn

\* A thread goes on in its handler.
LEMMA ThenStep ==
    ASSUME Inv, NEW t \in Threads, NEW calls \in Seq(Statements), WellEnded(calls),
           Then(t, calls), Fields', queued' = queued,
           Blinking' /\ ~lost' =>
               \/ mLedTimer' # Stopped \/ Settling(calls)
               \/ /\ Blinking /\ ~lost /\ mLedTimer' = mLedTimer
                  /\ Settling(todo[t]) => Settling(calls)
    PROVE  Inv'
<1>1. \A u \in Threads : todo'[u] = IF u = t THEN calls ELSE todo[u]
  BY DEF Then, Inv, Handlers
<1>2. Handlers'
  BY <1>1 DEF Then, Inv, Handlers
<1>3. Settling(calls) => \E u \in Threads : Settling(todo'[u])
  BY <1>1
<1>4. (\E u \in Threads : Settling(todo[u])) /\ (Settling(todo[t]) => Settling(calls))
          => \E u \in Threads : Settling(todo'[u])
  BY <1>1
<1>5. GoesOn'
  BY <1>3, <1>4 DEF Inv, GoesOn
<1>6. QED
  BY <1>2, <1>5 DEF Inv

LEMMA StatementStep == ASSUME Inv, NEW t \in Threads, Statement(t) PROVE Inv'
<1> DEFINE now  == Head(todo[t])
           rest == Tail(todo[t])
<1>1. /\ now \in Statements /\ rest \in Seq(Statements) /\ WellEnded(rest)
      /\ Unsettles(now) => Settling(rest)
      /\ Settling(todo[t]) => Settles(now) \/ Settling(rest)
  BY RestIs DEF Statement, Inv, Handlers
<1>2. Fields
  BY DEF Inv
<1> HIDE DEF now, rest
<1>3. CASE /\ now[1] = "stop" /\ mLedTimer' = Stopped /\ Then(t, rest)
           /\ Keep(<<mBlinkOnTimeMS, mBlinkOffTimeMS, mState, pin, net, lost>>)
  <2>1. Fields' /\ queued' = queued
    BY <1>2, <1>3 DEF Fields, Keep
  <2>2. Settling(rest)
    BY <1>1, <1>3 DEF Unsettles
  <2>3. QED
    BY <1>1, <1>3, <2>1, <2>2, ThenStep
<1>4. CASE /\ now[1] = "on" /\ mBlinkOnTimeMS' = now[2] /\ Then(t, rest)
           /\ Keep(<<mBlinkOffTimeMS, mState, mLedTimer, pin, net, lost>>)
  <2>1. now[2] \in Times
    BY <1>1, <1>4 DEF Statements
  <2>2. Fields' /\ queued' = queued
    BY <1>2, <1>4, <2>1 DEF Fields, Keep
  <2>3. Blinking' => Settling(rest)
    BY <1>1, <1>4 DEF Unsettles, Blinking
  <2>4. QED
    BY <1>1, <1>4, <2>2, <2>3, ThenStep
<1>5. CASE /\ now[1] = "off" /\ mBlinkOffTimeMS' = now[2] /\ Then(t, rest)
           /\ Keep(<<mBlinkOnTimeMS, mState, mLedTimer, pin, net, lost>>)
  <2>1. now[2] \in Times
    BY <1>1, <1>5 DEF Statements
  <2>2. Fields' /\ queued' = queued
    BY <1>2, <1>5, <2>1 DEF Fields, Keep
  <2>3. Blinking' => Settling(rest)
    BY <1>1, <1>5 DEF Unsettles, Blinking
  <2>4. QED
    BY <1>1, <1>5, <2>2, <2>3, ThenStep
<1>6. CASE /\ now[1] = "mState" /\ mState' = now[2] /\ Then(t, rest)
           /\ Keep(<<mBlinkOnTimeMS, mBlinkOffTimeMS, mLedTimer, pin, net, lost>>)
  <2>1. now[2] \in BOOLEAN /\ ~Settles(now)
    BY <1>1, <1>6 DEF Statements, Settles
  <2>2. Fields' /\ queued' = queued /\ Blinking' = Blinking /\ UNCHANGED <<mLedTimer, lost>>
    BY <1>2, <1>6, <2>1 DEF Fields, Keep, Blinking
  <2>3. QED
    BY <1>1, <1>6, <2>1, <2>2, ThenStep
<1>7. CASE /\ now[1] = "pin" /\ pin' = now[2] /\ Then(t, rest)
           /\ Keep(<<mBlinkOnTimeMS, mBlinkOffTimeMS, mState, mLedTimer, net, lost>>)
  <2>1. ~Settles(now)
    BY <1>7 DEF Settles
  <2>2. Fields' /\ queued' = queued /\ Blinking' = Blinking /\ UNCHANGED <<mLedTimer, lost>>
    BY <1>2, <1>7 DEF Fields, Keep, Blinking
  <2>3. QED
    BY <1>1, <1>7, <2>1, <2>2, ThenStep
<1>8. CASE /\ now[1] = "check" /\ Then(t, IF Blinking THEN rest ELSE <<>>)
           /\ Keep(<<widget, net, lost>>)
  <2>1. Settling(rest)
    BY <1>1, <1>8 DEF Unsettles
  <2>2. Fields' /\ queued' = queued /\ Blinking' = Blinking
    BY <1>2, <1>8 DEF Fields, Keep, Blinking, widget
  <2>3. <<>> \in Seq(Statements) /\ WellEnded(<<>>)
    BY DEF WellEnded
  <2>4. CASE Blinking
    BY <1>1, <1>8, <2>1, <2>2, <2>4, ThenStep
  <2>5. CASE ~Blinking
    BY <1>8, <2>2, <2>3, <2>5, ThenStep
  <2>6. QED
    BY <2>4, <2>5
<1>9. CASE now[1] = "toggle" /\ Then(t, DoSet(~mState) \o rest) /\ Keep(<<widget, net, lost>>)
  <2>1. (~mState) \in BOOLEAN
    OBVIOUS
  <2>2. Settling(rest)
    BY <1>1, <1>9 DEF Unsettles
  <2>3. DoSet(~mState) \o rest \in Seq(Statements) /\ WellEnded(DoSet(~mState) \o rest)
        /\ Settling(DoSet(~mState) \o rest)
    BY <1>1, <2>1, <2>2, CallsEndWell, CallBefore
  <2>4. Fields' /\ queued' = queued
    BY <1>2, <1>9 DEF Fields, Keep, widget
  <2>5. QED
    BY <1>9, <2>3, <2>4, ThenStep
<1>10. CASE /\ now[1] = "schedule"
            /\ Then(t, << <<"start", IF mState THEN mBlinkOnTimeMS ELSE mBlinkOffTimeMS>> >> \o rest)
            /\ Keep(<<widget, net, lost>>)
  <2> DEFINE start == <<"start", IF mState THEN mBlinkOnTimeMS ELSE mBlinkOffTimeMS>>
  <2>1. start \in Statements /\ Settles(start) /\ ~Unsettles(start)
    BY <1>2 DEF Fields, Statements, Settles, Unsettles
  <2>2. <<start>> \in Seq(Statements) /\ WellEnded(<<start>>) /\ Settling(<<start>>)
    <3> HIDE DEF start
    <3>1. QED
      BY <2>1 DEF WellEnded, Settling
  <2>3. <<start>> \o rest \in Seq(Statements) /\ WellEnded(<<start>> \o rest)
        /\ Settling(<<start>> \o rest)
    BY <1>1, <2>2, CallBefore
  <2>4. Fields' /\ queued' = queued
    BY <1>2, <1>10 DEF Fields, Keep, widget
  <2>5. QED
    BY <1>10, <2>3, <2>4, ThenStep
<1>11. CASE /\ now[1] = "start" /\ mLedTimer' = now[2] /\ lost' = FALSE /\ Then(t, rest)
            /\ Keep(<<mBlinkOnTimeMS, mBlinkOffTimeMS, mState, pin, net>>)
  <2>1. mLedTimer' # Stopped
    BY <1>1, <1>11 DEF Statements, Times, Stopped
  <2>2. Fields' /\ queued' = queued
    BY <1>2, <1>11 DEF Fields, Keep
  <2>3. QED
    BY <1>1, <1>11, <2>1, <2>2, ThenStep
<1>12. CASE now[1] = "updateStatus" /\ Then(t, StatusCall \o rest) /\ Keep(<<widget, net, lost>>)
  <2>1. StatusCall \in Seq(Statements) /\ WellEnded(StatusCall) /\ Settling(StatusCall)
    <3>1. \/ \E state \in BOOLEAN : StatusCall = Set(state)
          \/ StatusCall = Blink(100, 100) \/ StatusCall = Blink(50, 950)
      <4>1. CASE net.provisioned /\ net.enabled
        BY <4>1 DEF StatusCall, Set, DoSet
      <4>2. CASE ~(net.provisioned /\ net.enabled)
        BY <4>2 DEF StatusCall, Set, DoSet
      <4>3. QED
        BY <4>1, <4>2
    <3>2. 100 \in Times /\ 50 \in Times /\ 950 \in Times
      BY DEF Times
    <3>3. QED
      BY <3>1, <3>2, CallsEndWell
  <2>2. StatusCall \o rest \in Seq(Statements) /\ WellEnded(StatusCall \o rest)
        /\ Settling(StatusCall \o rest)
    BY <1>1, <2>1, CallBefore
  <2>3. Fields' /\ queued' = queued
    BY <1>2, <1>12 DEF Fields, Keep, widget
  <2>4. QED
    BY <1>12, <2>2, <2>3, ThenStep
<1>13. CASE /\ now[1] \in DOMAIN net /\ net' = [net EXCEPT ![now[1]] = now[2]] /\ Then(t, rest)
            /\ Keep(<<widget, lost>>)
  <2>1. now[1] \in {"provisioned", "enabled", "ble"}
    BY <1>2, <1>13 DEF Fields
  <2>2. now[2] \in BOOLEAN /\ ~Settles(now)
    BY <1>1, <2>1 DEF Statements, Settles
  <2>3. Fields' /\ queued' = queued /\ Blinking' = Blinking /\ UNCHANGED <<mLedTimer, lost>>
    BY <1>2, <1>13, <2>1, <2>2 DEF Fields, Keep, widget, Blinking
  <2>4. QED
    BY <1>1, <1>13, <2>2, <2>3, ThenStep
<1>14. QED
  BY <1>3, <1>4, <1>5, <1>6, <1>7, <1>8, <1>9, <1>10, <1>11, <1>12, <1>13 DEF Statement, now, rest

LEMMA InitInv == Init => Inv
<1> SUFFICES ASSUME Init PROVE Inv
  OBVIOUS
<1>1. Fields
  BY DEF Init, Fields, Times
<1>2. Handlers
  BY DEF Init, Handlers, WellEnded
<1>3. GoesOn
  BY DEF Init, GoesOn, Stopped
<1>4. QED
  BY <1>1, <1>2, <1>3 DEF Inv

LEMMA StepInv == Inv /\ [Next]_vars => Inv'
<1> SUFFICES ASSUME Inv, [Next]_vars PROVE Inv'
  OBVIOUS
<1>1. CASE UNCHANGED vars
  BY <1>1 DEF vars, widget, Inv, Fields, Handlers, GoesOn, Blinking
<1>2. CASE Next
  BY <1>2, HandlerStep, StatementStep, TimerStep DEF Next, Handler
<1>3. QED
  BY <1>1, <1>2

\* A widget left blinking goes on: whatever the two threads do to each other's
\* calls, between any two statements and with any number of queued events.
THEOREM BlinkGoesOnHolds == Spec => []BlinkGoesOn
<1>1. Inv => BlinkGoesOn
  BY DEF Inv, GoesOn, BlinkGoesOn, Quiet, Settling
<1>2. QED
  BY <1>1, InitInv, StepInv, PTL DEF Spec

(***************************************************************************)
(* Types: how long a handler can get, and what its statements are followed *)
(* by, whatever the other thread does.                                     *)
(***************************************************************************)
Name(statement) == statement[1]
Arg(statement)  == statement[2]

Placed(calls, i) ==
    /\ Name(calls[i]) \in {"updateStatus", "schedule"} => i = Len(calls)
    /\ Name(calls[i]) = "start" => Len(calls) = 1
    /\ Name(calls[i]) = "check" => i = Len(calls) - 2 /\ Name(calls[i + 1]) = "toggle"
    /\ Name(calls[i]) = "toggle" =>
           /\ i = Len(calls) - 1 /\ Name(calls[i + 1]) = "schedule"
           /\ i = 1 \/ Name(calls[i - 1]) = "check"
    /\ Name(calls[i]) = "mState" => i < Len(calls) /\ Name(calls[i + 1]) = "pin" /\ Arg(calls[i + 1]) = Arg(calls[i])
    /\ Name(calls[i]) = "pin" => i = 1 \/ (Name(calls[i - 1]) = "mState" /\ Arg(calls[i - 1]) = Arg(calls[i]))

Ordered(calls) == Len(calls) <= 11 /\ \A i \in 1..Len(calls) : Placed(calls, i)

Plain(calls) ==
    \A i \in 1..Len(calls) :
        Name(calls[i]) \notin {"updateStatus", "schedule", "start", "check", "toggle"}

\* The same statement between the same neighbours of another sequence.
LEMMA PlacedAlike ==
    ASSUME NEW S, NEW a \in Seq(S), NEW b \in Seq(S),
           NEW i \in 1..Len(a), NEW k \in 1..Len(b),
           Name(a[i]) = Name(b[k]), Arg(a[i]) = Arg(b[k]),
           Len(a) - i = Len(b) - k, i < Len(a) => a[i + 1] = b[k + 1],
           Placed(a, i), Name(b[k]) = "start" => Len(b) = 1,
           \/ k = 1 \/ (i # 1 /\ a[i - 1] = b[k - 1])
           \/ Name(b[k]) \notin {"toggle", "pin"}
    PROVE  Placed(b, k)
<1>1. Len(a) \in Nat /\ Len(b) \in Nat /\ i \in Nat \ {0} /\ k \in Nat \ {0}
  OBVIOUS
<1>2. /\ i = Len(a) <=> k = Len(b)
      /\ i = Len(a) - 1 <=> k = Len(b) - 1
      /\ i = Len(a) - 2 <=> k = Len(b) - 2
      /\ i < Len(a) <=> k < Len(b)
  BY <1>1
<1>3. k \in {Len(b) - 1, Len(b) - 2} => k < Len(b)
  BY <1>1
<1>4. /\ Name(b[k]) \in {"updateStatus", "schedule"} => k = Len(b)
      /\ Name(b[k]) = "start" => Len(b) = 1
  BY <1>2 DEF Placed
<1>5. Name(b[k]) = "check" => k = Len(b) - 2 /\ Name(b[k + 1]) = "toggle"
  BY <1>2, <1>3 DEF Placed
<1>6. Name(b[k]) = "toggle" => k = Len(b) - 1 /\ Name(b[k + 1]) = "schedule"
  BY <1>2, <1>3 DEF Placed
<1>7. Name(b[k]) = "toggle" => k = 1 \/ Name(b[k - 1]) = "check"
  BY DEF Placed
<1>8. Name(b[k]) = "mState" => k < Len(b) /\ Name(b[k + 1]) = "pin" /\ Arg(b[k + 1]) = Arg(b[k])
  BY <1>2 DEF Placed
<1>9. Name(b[k]) = "pin" => k = 1 \/ (Name(b[k - 1]) = "mState" /\ Arg(b[k - 1]) = Arg(b[k]))
  <2>1. Name(b[k]) = "pin" =>
            i = 1 \/ (Name(a[i - 1]) = "mState" /\ Arg(a[i - 1]) = Arg(b[k]))
    BY DEF Placed
  <2>2. Name(b[k]) = "pin" => k = 1 \/ (i # 1 /\ a[i - 1] = b[k - 1])
    OBVIOUS
  <2>3. QED
    BY <2>1, <2>2
<1>10. QED
  BY <1>4, <1>5, <1>6, <1>7, <1>8, <1>9 DEF Placed

LEMMA OrderedRest ==
    ASSUME NEW S, NEW calls \in Seq(S), calls # <<>>, Ordered(calls)
    PROVE  Ordered(Tail(calls))
<1> DEFINE rest == Tail(calls)
<1>1. /\ rest \in Seq(S) /\ Len(calls) \in Nat \ {0} /\ Len(rest) = Len(calls) - 1
      /\ \A i \in 1..Len(rest) : rest[i] = calls[i + 1]
  OBVIOUS
<1> HIDE DEF rest
<1>2. Len(rest) <= 11
  BY <1>1 DEF Ordered
<1>3. ASSUME NEW k \in 1..Len(rest) PROVE Placed(rest, k)
  <2>1. PICK i \in 1..Len(calls) : i = k + 1
    BY <1>1
  <2>2. Name(calls[i]) = Name(rest[k]) /\ Arg(calls[i]) = Arg(rest[k]) /\ i # 1 /\ Len(calls) - i = Len(rest) - k
    BY <1>1, <2>1
  <2>3. i < Len(calls) => calls[i + 1] = rest[k + 1]
    BY <1>1, <2>1
  <2>4. k # 1 => calls[i - 1] = rest[k - 1]
    <3>1. ASSUME k # 1 PROVE k - 1 \in 1..Len(rest) /\ (k - 1) + 1 = i - 1
      BY <1>1, <2>1, <3>1
    <3>2. QED
      BY <1>1, <3>1
  <2>5. Placed(calls, i)
    BY DEF Ordered
  <2>6. Name(rest[k]) # "start"
    BY <1>1, <2>1, <2>5 DEF Placed
  <2>7. QED
    <3>1. k = 1 \/ (i # 1 /\ calls[i - 1] = rest[k - 1])
      BY <2>2, <2>4
    <3>2. QED
      BY <1>1, <2>2, <2>3, <2>5, <2>6, <3>1, PlacedAlike
<1>4. QED
  BY <1>2, <1>3 DEF Ordered, rest

\* A call others may follow, and one that may follow it.
Opening(calls) ==
    calls \in Seq(Statements) /\ Ordered(calls) /\ Plain(calls) /\ Len(calls) <= 5

Closing(calls) ==
    /\ calls \in Seq(Statements) /\ calls # <<>> /\ Ordered(calls) /\ Len(calls) <= 6
    /\ Name(calls[1]) \in {"stop", "mState", "check", "schedule", "updateStatus"}

LEMMA OrderedBefore ==
    ASSUME NEW a, NEW b, Opening(a), Closing(b)
    PROVE  a \o b \in Seq(Statements) /\ Ordered(a \o b)
<1> DEFINE c == a \o b
<1>0. a \in Seq(Statements) /\ b \in Seq(Statements)
  BY DEF Opening, Closing
<1>1. /\ c \in Seq(Statements) /\ Len(a) \in Nat /\ Len(b) \in Nat /\ Len(c) = Len(a) + Len(b)
      /\ \A i \in 1..Len(a) : c[i] = a[i]
      /\ \A i \in 1..Len(b) : c[Len(a) + i] = b[i]
  BY <1>0
<1> HIDE DEF c
<1>2. ASSUME NEW i \in 1..Len(a) PROVE Placed(c, i)
  <2>1. c[i] = a[i] /\ (i < Len(a) => c[i + 1] = a[i + 1])
    BY <1>1
  <2>2. i # 1 => c[i - 1] = a[i - 1]
    <3>1. i # 1 => i - 1 \in 1..Len(a)
      BY <1>1
    <3>2. QED
      BY <1>1, <3>1
  <2>3. /\ Placed(a, i)
        /\ Name(a[i]) \notin {"updateStatus", "schedule", "start", "check", "toggle"}
    BY DEF Opening, Ordered, Plain
  <2>4. Name(a[i]) = "mState" => i < Len(c) /\ Name(c[i + 1]) = "pin" /\ Arg(c[i + 1]) = Arg(a[i])
    BY <1>1, <2>1, <2>3 DEF Placed
  <2>5. Name(a[i]) = "pin" /\ i # 1 => Name(c[i - 1]) = "mState" /\ Arg(c[i - 1]) = Arg(a[i])
    <3>1. Name(a[i]) = "pin" /\ i # 1 => Name(a[i - 1]) = "mState" /\ Arg(a[i - 1]) = Arg(a[i])
      BY <2>3 DEF Placed
    <3>2. QED
      BY <2>2, <3>1
  <2>6. Name(c[i]) = Name(a[i]) /\ Arg(c[i]) = Arg(a[i])
    BY <2>1
  <2>7. /\ Name(c[i]) # "start" /\ Name(c[i]) # "check" /\ Name(c[i]) # "toggle"
        /\ Name(c[i]) \notin {"updateStatus", "schedule"}
    BY <2>3, <2>6
  <2>8. Name(c[i]) = "mState" => i < Len(c) /\ Name(c[i + 1]) = "pin" /\ Arg(c[i + 1]) = Arg(c[i])
    BY <2>4, <2>6
  <2>9. Name(c[i]) = "pin" /\ i # 1 => Name(c[i - 1]) = "mState" /\ Arg(c[i - 1]) = Arg(c[i])
    BY <2>5, <2>6
  <2>10. QED
    <3>1. /\ Name(c[i]) \in {"updateStatus", "schedule"} => i = Len(c)
          /\ Name(c[i]) = "start" => Len(c) = 1
          /\ Name(c[i]) = "check" => i = Len(c) - 2 /\ Name(c[i + 1]) = "toggle"
          /\ Name(c[i]) = "toggle" =>
                 /\ i = Len(c) - 1 /\ Name(c[i + 1]) = "schedule"
                 /\ i = 1 \/ Name(c[i - 1]) = "check"
      BY <2>7
    <3>2. QED
      BY <2>8, <2>9, <3>1 DEF Placed
<1>3. ASSUME NEW k \in 1..Len(b) PROVE Placed(c, Len(a) + k)
  <2>1. PICK i \in 1..Len(c) : i = Len(a) + k
    BY <1>1
  <2>2. Name(c[i]) = Name(b[k]) /\ Arg(c[i]) = Arg(b[k]) /\ Len(c) - i = Len(b) - k
    BY <1>1, <2>1
  <2>3. k < Len(b) => c[i + 1] = b[k + 1]
    <3>1. k < Len(b) => k + 1 \in 1..Len(b) /\ i + 1 = Len(a) + (k + 1)
      BY <1>1, <2>1
    <3>2. QED
      BY <1>1, <3>1
  <2>4. k # 1 => c[i - 1] = b[k - 1]
    <3>1. k # 1 => k - 1 \in 1..Len(b) /\ i - 1 = Len(a) + (k - 1)
      BY <1>1, <2>1
    <3>2. QED
      BY <1>1, <3>1
  <2>5. Placed(b, k)
    BY DEF Closing, Ordered
  <2>6. k = 1 => Name(b[k]) \notin {"start", "toggle", "pin"}
    BY DEF Closing
  <2>7. Name(b[k]) # "start"
    BY <1>1, <2>5, <2>6 DEF Placed
  <2>8. Placed(c, i)
    BY <1>0, <1>1, <2>2, <2>3, <2>4, <2>5, <2>6, <2>7, PlacedAlike
  <2>9. QED
    BY <2>1, <2>8
<1>4. ASSUME NEW i \in 1..Len(c) PROVE Placed(c, i)
  <2>1. i \notin 1..Len(a) => i - Len(a) \in 1..Len(b) /\ i = Len(a) + (i - Len(a))
    BY <1>1
  <2>2. QED
    BY <1>2, <1>3, <2>1
<1>5. Len(c) <= 11
  BY <1>1 DEF Opening, Closing
<1>6. QED
  BY <1>1, <1>4, <1>5 DEF Ordered, c

LEMMA CallsOrdered ==
    /\ \A state \in BOOLEAN : Opening(DoSet(state)) /\ Closing(DoSet(state))
    /\ \A state \in BOOLEAN : Opening(Set(state)) /\ Closing(Set(state))
    /\ Closing(UpdateState) /\ Closing(UpdateStatusLED)
    /\ \A on \in Times : \A off \in Times : Closing(Blink(on, off))
<1>1. ASSUME NEW state \in BOOLEAN
      PROVE  Opening(DoSet(state)) /\ Closing(DoSet(state)) /\ Len(DoSet(state)) = 2
  <2>1. DoSet(state) \in Seq(Statements)
    BY CallsEndWell
  <2>2. /\ Ordered(DoSet(state)) /\ Plain(DoSet(state)) /\ Len(DoSet(state)) = 2
        /\ Name(DoSet(state)[1]) = "mState" /\ DoSet(state) # <<>>
    BY DEF DoSet, Ordered, Placed, Plain, Name, Arg
  <2>3. QED
    BY <2>1, <2>2 DEF Opening, Closing
<1>2. Closing(UpdateState) /\ Len(UpdateState) = 3
  <2>1. UpdateState \in Seq(Statements)
    BY CallsEndWell
  <2>2. /\ Ordered(UpdateState) /\ Len(UpdateState) = 3
        /\ Name(UpdateState[1]) = "check" /\ UpdateState # <<>>
    BY DEF UpdateState, Ordered, Placed, Name
  <2>3. QED
    BY <2>1, <2>2 DEF Closing
<1>3. Closing(UpdateStatusLED)
  <2>1. UpdateStatusLED \in Seq(Statements)
    BY CallsEndWell
  <2>2. /\ Ordered(UpdateStatusLED) /\ Len(UpdateStatusLED) = 1
        /\ Name(UpdateStatusLED[1]) = "updateStatus" /\ UpdateStatusLED # <<>>
    BY DEF UpdateStatusLED, Ordered, Placed, Name
  <2>3. QED
    BY <2>1, <2>2 DEF Closing
<1>4. ASSUME NEW first \in Seq(Statements), Len(first) = 3, Name(first[1]) = "stop",
             Name(first[2]) \in {"on", "off"}, Name(first[3]) \in {"on", "off"},
             NEW rest, Closing(rest), Len(rest) = 2 \/ Len(rest) = 3
      PROVE  /\ Closing(first \o rest)
             /\ Opening(rest) /\ Len(rest) = 2 => Opening(first \o rest)
  <2>1. Ordered(first) /\ Plain(first)
    BY <1>4 DEF Ordered, Placed, Plain
  <2>2. Opening(first) /\ rest \in Seq(Statements)
    BY <1>4, <2>1 DEF Opening, Closing
  <2>3. first \o rest \in Seq(Statements) /\ Ordered(first \o rest)
    BY <1>4, <2>2, OrderedBefore
  <2>4. /\ Len(first \o rest) = Len(first) + Len(rest) /\ Len(first) \in Nat /\ Len(rest) \in Nat
        /\ \A i \in 1..Len(first) : (first \o rest)[i] = first[i]
        /\ \A i \in 1..Len(rest) : (first \o rest)[Len(first) + i] = rest[i]
    BY <2>2
  <2> DEFINE c == first \o rest
  <2> HIDE DEF c
  <2>5. Closing(c)
    <3>1. Len(c) <= 6 /\ Len(c) # 0 /\ 1 \in 1..Len(first)
      BY <1>4, <2>4 DEF c
    <3>2. Name(c[1]) = "stop"
      BY <1>4, <2>4, <3>1 DEF c
    <3>3. c # <<>>
      BY <3>1
    <3>4. QED
      BY <2>3, <3>1, <3>2, <3>3 DEF Closing, c
  <2>6. ASSUME Opening(rest), Len(rest) = 2 PROVE Opening(c)
    <3>1. Len(c) <= 5
      BY <1>4, <2>4, <2>6 DEF c
    <3>2. ASSUME NEW i \in 1..Len(c)
          PROVE  i \in 1..Len(first) \/ i - Len(first) \in 1..Len(rest)
      BY <2>4 DEF c
    <3>3. ASSUME NEW i \in 1..Len(c)
          PROVE  \/ i \in 1..Len(first) /\ c[i] = first[i]
                 \/ i - Len(first) \in 1..Len(rest) /\ c[i] = rest[i - Len(first)]
      BY <2>4, <3>2 DEF c
    <3>4. Plain(c)
      BY <2>1, <2>6, <3>3 DEF Plain, Opening
    <3>5. QED
      BY <2>3, <3>1, <3>4 DEF Opening, c
  <2>7. QED
    BY <2>5, <2>6 DEF c
<1>5. ASSUME NEW state \in BOOLEAN PROVE Opening(Set(state)) /\ Closing(Set(state))
  <2> DEFINE first == << <<"stop">>, <<"off", 0>>, <<"on", 0>> >>
  <2>1. /\ first \in Seq(Statements) /\ Len(first) = 3 /\ Name(first[1]) = "stop"
        /\ Name(first[2]) \in {"on", "off"} /\ Name(first[3]) \in {"on", "off"}
    BY DEF Statements, Times, Name
  <2> HIDE DEF first
  <2>2. Opening(first \o DoSet(state)) /\ Closing(first \o DoSet(state))
    BY <1>1, <1>4, <2>1
  <2>3. QED
    BY <2>2 DEF Set, first
<1>6. ASSUME NEW on \in Times, NEW off \in Times PROVE Closing(Blink(on, off))
  <2> DEFINE first == << <<"stop">>, <<"on", on>>, <<"off", off>> >>
  <2>1. /\ first \in Seq(Statements) /\ Len(first) = 3 /\ Name(first[1]) = "stop"
        /\ Name(first[2]) \in {"on", "off"} /\ Name(first[3]) \in {"on", "off"}
    BY DEF Statements, Name
  <2> HIDE DEF first
  <2>2. Closing(first \o UpdateState)
    BY <1>2, <1>4, <2>1
  <2>3. QED
    BY <2>2 DEF Blink, first
<1>7. QED
  BY <1>1, <1>2, <1>3, <1>5, <1>6

\* Two calls in a row, and the call UpdateStatusLED makes.
LEMMA CallsInARow ==
    ASSUME NEW state \in BOOLEAN
    PROVE  Ordered(Set(state) \o Blink(500, 500)) /\ Ordered(Set(state) \o UpdateStatusLED)
<1>1. 500 \in Times
  BY DEF Times
<1>2. Opening(Set(state)) /\ Closing(Blink(500, 500)) /\ Closing(UpdateStatusLED)
  BY <1>1, CallsOrdered
<1>3. QED
  BY <1>2, OrderedBefore

LEMMA StatusCallIs == Closing(StatusCall)
<1>1. CASE net.provisioned /\ net.enabled
  <2>1. StatusCall = Set(TRUE)
    BY <1>1 DEF StatusCall
  <2>2. Closing(Set(TRUE))
    BY CallsOrdered
  <2>3. QED
    BY <2>1, <2>2
<1>2. CASE ~(net.provisioned /\ net.enabled)
  <2>1. StatusCall = IF net.ble THEN Blink(100, 100) ELSE Blink(50, 950)
    BY <1>2 DEF StatusCall
  <2>2. Closing(Blink(100, 100)) /\ Closing(Blink(50, 950))
    BY CallsOrdered DEF Times
  <2>3. QED
    BY <2>1, <2>2
<1>3. QED
  BY <1>1, <1>2

Sequenced == \A t \in Threads : Ordered(todo[t])

\* What a statement leaves of its handler.
LEMMA HandlerGoesOn ==
    ASSUME Inv, Sequenced, NEW t \in Threads, Statement(t)
    PROVE  /\ todo[t] \in Seq(Statements) /\ todo[t] # <<>> /\ Ordered(todo[t])
           /\ Head(todo[t]) \in Statements /\ Head(todo[t]) = todo[t][1]
           /\ Tail(todo[t]) \in Seq(Statements) /\ Ordered(Tail(todo[t]))
           /\ Len(todo[t]) \in Nat \ {0} /\ Len(Tail(todo[t])) = Len(todo[t]) - 1
           /\ \A i \in 1..Len(Tail(todo[t])) : Tail(todo[t])[i] = todo[t][i + 1]
           /\ Name(Head(todo[t])) \in {"updateStatus", "schedule", "start"} => Tail(todo[t]) = <<>>
           /\ Name(Head(todo[t])) = "toggle" => Len(Tail(todo[t])) = 1 /\ Name(Tail(todo[t])[1]) = "schedule"
           /\ Name(Head(todo[t])) = "check" =>
                  /\ Len(Tail(todo[t])) = 2 /\ Name(Tail(todo[t])[1]) = "toggle"
                  /\ Name(Tail(todo[t])[2]) = "schedule"
<1>1. todo[t] \in Seq(Statements) /\ todo[t] # <<>> /\ Ordered(todo[t])
  BY DEF Statement, Inv, Handlers, Sequenced
<1> DEFINE calls == todo[t]
           rest  == Tail(calls)
<1>2. /\ Head(calls) \in Statements /\ Head(calls) = calls[1] /\ rest \in Seq(Statements)
      /\ Len(calls) \in Nat \ {0} /\ Len(rest) = Len(calls) - 1 /\ 1 \in 1..Len(calls)
  BY <1>1
<1>3. \A i \in 1..Len(rest) : rest[i] = calls[i + 1]
  BY <1>1
<1>4. Ordered(rest)
  BY <1>1, OrderedRest
<1> HIDE DEF calls, rest
<1>5. Placed(calls, 1) /\ \A i \in 1..Len(rest) : Placed(rest, i)
  BY <1>1, <1>2, <1>4 DEF Ordered, calls
<1>6. Name(calls[1]) \in {"updateStatus", "schedule", "start"} => rest = <<>>
  <2>1. Name(calls[1]) \in {"updateStatus", "schedule", "start"} => Len(rest) = 0
    BY <1>2, <1>5 DEF Placed
  <2>2. QED
    BY <1>2, <2>1
<1>7. Name(calls[1]) = "toggle" => Len(rest) = 1 /\ Name(rest[1]) = "schedule"
  <2> SUFFICES ASSUME Name(calls[1]) = "toggle" PROVE Len(rest) = 1 /\ Name(rest[1]) = "schedule"
    OBVIOUS
  <2>1. 1 = Len(calls) - 1 /\ Name(calls[1 + 1]) = "schedule"
    BY <1>5 DEF Placed
  <2>2. Len(rest) = 1
    BY <1>2, <2>1
  <2>3. rest[1] = calls[1 + 1]
    BY <1>3, <2>2
  <2>4. QED
    BY <2>1, <2>2, <2>3
<1>8. Name(calls[1]) = "check" =>
          Len(rest) = 2 /\ Name(rest[1]) = "toggle" /\ Name(rest[2]) = "schedule"
  <2> SUFFICES ASSUME Name(calls[1]) = "check"
               PROVE  Len(rest) = 2 /\ Name(rest[1]) = "toggle" /\ Name(rest[2]) = "schedule"
    OBVIOUS
  <2>1. 1 = Len(calls) - 2 /\ Name(calls[1 + 1]) = "toggle"
    BY <1>5 DEF Placed
  <2>2. Len(rest) = 2
    <3>1. Len(calls) \in Nat /\ Len(rest) = Len(calls) - 1
      BY <1>2
    <3>2. QED
      BY <2>1, <3>1
  <2>3. rest[1] = calls[1 + 1]
    BY <1>3, <2>2
  <2>4. Name(rest[1 + 1]) = "schedule"
    BY <1>5, <2>1, <2>2, <2>3 DEF Placed
  <2>5. QED
    BY <2>1, <2>2, <2>3, <2>4
<1>9. QED
  BY <1>1, <1>2, <1>3, <1>4, <1>6, <1>7, <1>8 DEF calls, rest

LEMMA SequencedStep ==
    ASSUME Inv, Sequenced, NEW t \in Threads, NEW calls, Ordered(calls),
           todo' = [todo EXCEPT ![t] = calls]
    PROVE  Sequenced'
  BY DEF Inv, Handlers, Sequenced

Types ==
    /\ mLedTimer \in Times \union {Stopped}
    /\ queued \in 0..MaxQueued
    /\ pin \in BOOLEAN /\ lost \in BOOLEAN /\ window \in {"closed", "open", "over"} /\ raced \in BOOLEAN
    /\ Sequenced

LEMMA HandlerTypes ==
    ASSUME Inv, Types, Handler
    PROVE  Types'
<1>1. UNCHANGED <<mLedTimer, pin, lost>> /\ raced' \in BOOLEAN
  BY DEF Handler, UpdateLedState, OpenCancelWindow, CancelInWindow, ScheduleFactoryReset,
      ChipEventHandler, Start, MayRun, widget
<1>2. queued' \in 0..MaxQueued /\ window' \in {"closed", "open", "over"}
  <2>1. window' \in {"closed", "open", "over"}
    BY DEF Handler, UpdateLedState, OpenCancelWindow, CancelInWindow, ScheduleFactoryReset,
      ChipEventHandler, Types
  <2>2. \/ UNCHANGED queued
        \/ queued > 0 /\ queued' = queued - 1
    BY DEF Handler, UpdateLedState, OpenCancelWindow, CancelInWindow, ScheduleFactoryReset,
      ChipEventHandler
  <2>3. QED
    BY <2>1, <2>2, WidgetAssumption DEF Types
<1>3. Sequenced'
  <2>1. "app" \in Threads /\ "chip" \in Threads /\ Sequenced
    BY DEF Threads, Types
  <2>2. ASSUME NEW t \in Threads, NEW calls, Ordered(calls), Start(t, calls) PROVE Sequenced'
    BY <2>1, <2>2, SequencedStep DEF Start
  <2>3. CASE UpdateLedState
    BY <2>1, <2>2, <2>3, CallsOrdered DEF UpdateLedState, Closing
  <2>4. CASE OpenCancelWindow
    BY <2>1, <2>2, <2>4, CallsInARow DEF OpenCancelWindow
  <2>5. CASE CancelInWindow
    BY <2>1, <2>2, <2>5, CallsInARow DEF CancelInWindow
  <2>6. CASE ChipEventHandler
    <3>1. ASSUME NEW have \in BOOLEAN PROVE Ordered(<< <<"ble", have>> >> \o UpdateStatusLED)
      <4> DEFINE flags == << <<"ble", have>> >>
      <4>1. Opening(flags)
        BY DEF Opening, Ordered, Placed, Plain, Name, Statements
      <4>2. QED
        BY <4>1, CallsOrdered, OrderedBefore
    <3>2. ASSUME NEW provisioned \in BOOLEAN, NEW enabled \in BOOLEAN
          PROVE  Ordered(<< <<"provisioned", provisioned>>, <<"enabled", enabled>> >>
                         \o UpdateStatusLED)
      <4> DEFINE flags == << <<"provisioned", provisioned>>, <<"enabled", enabled>> >>
      <4>1. Opening(flags)
        BY DEF Opening, Ordered, Placed, Plain, Name, Statements
      <4>2. QED
        BY <4>1, CallsOrdered, OrderedBefore
    <3>3. QED
      BY <2>1, <2>2, <2>6, <3>1, <3>2 DEF ChipEventHandler
  <2>7. CASE ScheduleFactoryReset
    <3>1. Ordered(<<>>)
      BY DEF Ordered
    <3>2. QED
      BY <2>1, <2>2, <2>7, <3>1 DEF ScheduleFactoryReset
  <2>8. QED
    BY <2>3, <2>4, <2>5, <2>6, <2>7 DEF Handler
<1>4. QED
  BY <1>1, <1>2, <1>3 DEF Types

LEMMA StatementTypes == ASSUME Inv, Types, NEW t \in Threads, Statement(t) PROVE Types'
<1> DEFINE now  == Head(todo[t])
           rest == Tail(todo[t])
<1>1. /\ now \in Statements /\ rest \in Seq(Statements) /\ Ordered(rest)
      /\ Name(now) \in {"updateStatus", "schedule", "start"} => rest = <<>>
      /\ Name(now) = "toggle" => Len(rest) = 1 /\ Name(rest[1]) = "schedule"
  BY HandlerGoesOn DEF Types
<1>2. UNCHANGED <<queued, window>> /\ raced' \in BOOLEAN
  BY DEF Statement, MayRun, Keep
<1>3. mLedTimer' \in Times \union {Stopped} /\ pin' \in BOOLEAN /\ lost' \in BOOLEAN
  <2> HIDE DEF now
  <2>1. UNCHANGED mLedTimer \/ mLedTimer' = Stopped \/ (now[1] = "start" /\ mLedTimer' = now[2])
    BY DEF Statement, Keep, widget, now
  <2>2. now[1] = "start" => now[2] \in Times
    BY <1>1 DEF Statements
  <2>3. UNCHANGED pin \/ (now[1] = "pin" /\ pin' = now[2])
    BY DEF Statement, Keep, widget, now
  <2>4. now[1] = "pin" => now[2] \in BOOLEAN
    BY <1>1 DEF Statements
  <2>5. UNCHANGED lost \/ lost' = FALSE
    BY DEF Statement, Keep
  <2>6. QED
    BY <2>1, <2>2, <2>3, <2>4, <2>5 DEF Types
<1>4. Sequenced'
  <2>1. ASSUME NEW calls, Ordered(calls), Then(t, calls) PROVE Sequenced'
    BY <2>1, SequencedStep DEF Then, Types
  <2>2. Then(t, rest) => Sequenced'
    BY <1>1, <2>1
  <2>3. CASE now[1] = "check" /\ Then(t, IF Blinking THEN rest ELSE <<>>)
    <3>1. Ordered(<<>>)
      BY DEF Ordered
    <3>2. QED
      BY <1>1, <2>1, <2>3, <3>1
  <2>4. CASE now[1] = "toggle" /\ Then(t, DoSet(~mState) \o rest)
    <3>0. Len(rest) = 1 /\ Name(rest[1]) = "schedule"
      BY <1>1, <2>4 DEF Name
    <3>1. Closing(rest)
      <4> HIDE DEF rest
      <4>1. rest # <<>> /\ Len(rest) <= 6
        BY <3>0
      <4>2. QED
        BY <1>1, <3>0, <4>1 DEF Closing
    <3>2. Opening(DoSet(~mState))
      BY CallsOrdered
    <3>3. QED
      BY <2>1, <2>4, <3>1, <3>2, OrderedBefore
  <2>5. CASE /\ now[1] = "schedule"
             /\ Then(t, << <<"start", IF mState THEN mBlinkOnTimeMS ELSE mBlinkOffTimeMS>> >>
                        \o rest)
    <3> DEFINE start == << <<"start", IF mState THEN mBlinkOnTimeMS ELSE mBlinkOffTimeMS>> >>
    <3>1. rest = <<>>
      BY <1>1, <2>5 DEF Name
    <3>2. Ordered(start) /\ start \o <<>> = start
      BY DEF Ordered, Placed, Name
    <3>3. QED
      BY <2>1, <2>5, <3>1, <3>2
  <2>6. CASE now[1] = "updateStatus" /\ Then(t, StatusCall \o rest)
    <3>1. rest = <<>>
      BY <1>1, <2>6 DEF Name
    <3>2. StatusCall \in Seq(Statements) /\ Ordered(StatusCall)
      BY StatusCallIs DEF Closing
    <3>3. StatusCall \o <<>> = StatusCall
      BY <3>2
    <3>4. QED
      BY <2>1, <2>6, <3>1, <3>2, <3>3
  <2>7. QED
    BY <2>2, <2>3, <2>4, <2>5, <2>6 DEF Statement
<1>5. QED
  BY <1>2, <1>3, <1>4 DEF Types

LEMMA TypesInit == Init => Types
<1> SUFFICES ASSUME Init PROVE Types
  OBVIOUS
<1>1. Ordered(<<>>)
  BY DEF Ordered
<1>2. Sequenced
  BY <1>1 DEF Init, Sequenced
<1>3. queued \in 0..MaxQueued
  BY WidgetAssumption DEF Init
<1>4. mLedTimer \in Times \union {Stopped}
  BY DEF Init, Times
<1>5. QED
  BY <1>2, <1>3, <1>4 DEF Init, Types

LEMMA TypesStep == Inv /\ Types /\ [Next]_vars => Types'
<1> SUFFICES ASSUME Inv, Types, [Next]_vars PROVE Types'
  OBVIOUS
<1>1. CASE UNCHANGED vars
  BY <1>1 DEF vars, widget, Types, Sequenced
<1>2. CASE LedStateTimerHandler
  BY <1>2, WidgetAssumption DEF LedStateTimerHandler, Types, Sequenced
<1>3. QED
  BY <1>1, <1>2, HandlerTypes, StatementTypes DEF Next, Handler

LEMMA TypesHold == Spec => [](Inv /\ Types)
<1>1. QED
  BY InitInv, StepInv, TypesInit, TypesStep, PTL DEF Spec

\* Type correctness: the bounded queue stays bounded, and no handler has more
\* than eleven statements before it, whatever the threads interrupt.
THEOREM TypeCorrect == Spec => []TypeOK
<1>1. Inv /\ Types => TypeOK
  BY DEF Inv, Types, Fields, Sequenced, Ordered, TypeOK
<1>2. QED
  BY <1>1, TypesHold, PTL

(***************************************************************************)
(* A run in which no handler has been interrupted by the other thread.     *)
(*                                                                         *)
(* The properties of such a run speak of a moment between two handlers.    *)
(* Known(t) speaks of every moment of a handler of t: it says of each      *)
(* field that it already has its value, or which statement still has to    *)
(* give it.                                                                *)
(***************************************************************************)
Names(calls) == {Name(calls[i]) : i \in 1..Len(calls)}

\* Every statement of that name has that argument.
Only(calls, name, value) ==
    \A i \in 1..Len(calls) : Name(calls[i]) = name => Arg(calls[i]) = value

Flags  == {"ble", "provisioned", "enabled"}
Period == IF mState THEN mBlinkOnTimeMS ELSE mBlinkOffTimeMS

\* What UpdateStatusLED derives from the flags.
Connected == net.provisioned /\ net.enabled
OnTime    == IF Connected THEN 0 ELSE IF net.ble THEN 100 ELSE 50
OffTime   == IF Connected THEN 0 ELSE IF net.ble THEN 100 ELSE 950

\* The pin shows the state, or is the next thing written.
PinKnown(t) ==
    IF todo[t] # <<>> /\ Name(Head(todo[t])) = "pin" THEN Arg(Head(todo[t])) = mState
    ELSE pin = mState

\* The timer is about to be stopped or started anew, or is stopped, or has the
\* period of a state and a pattern nothing is about to change.
PeriodKnown(t) ==
    /\ Only(todo[t], "start", Period)
    /\ \/ \E name \in {"stop", "schedule", "start", "updateStatus"} : name \in Names(todo[t])
       \/ mLedTimer = Stopped
       \/ /\ \A name \in {"on", "off", "mState", "toggle"} : name \notin Names(todo[t])
          /\ Blinking => mLedTimer = Period

\* Outside the window and with no UpdateStatusLED to come, the flags are final and
\* the pattern is theirs, or about to be.
Final(t) == window = "closed" /\ "updateStatus" \notin Names(todo[t])

PatternKnown(t) ==
    Final(t) =>
        /\ \A flag \in Flags : flag \notin Names(todo[t])
        /\ Only(todo[t], "on", OnTime) /\ Only(todo[t], "off", OffTime)
        /\ mBlinkOnTimeMS = OnTime \/ "on" \in Names(todo[t])
        /\ mBlinkOffTimeMS = OffTime \/ "off" \in Names(todo[t])

\* On a connected device the state is then on, or about to be, and is not toggled.
LitKnown(t) ==
    /\ todo[t] # <<>> /\ Name(Head(todo[t])) = "toggle" => Blinking
    /\ Final(t) /\ Connected =>
           /\ Only(todo[t], "mState", TRUE)
           /\ mState = TRUE \/ "mState" \in Names(todo[t])

Known(t) == PinKnown(t) /\ PeriodKnown(t) /\ PatternKnown(t) /\ LitKnown(t)

Alone(t) == \A u \in Threads \ {t} : todo[u] = <<>>

Solo == ~raced => (\E t \in Threads : Alone(t)) /\ \A t \in Threads : Alone(t) => Known(t)

\* The names and the arguments of a call, by its statements.
LEMMA NamesOfRest ==
    ASSUME NEW S, NEW calls \in Seq(S), calls # <<>>
    PROVE  /\ Names(calls) = {Name(Head(calls))} \union Names(Tail(calls))
           /\ \A name, value :
                  Only(calls, name, value) <=>
                      /\ Name(Head(calls)) = name => Arg(Head(calls)) = value
                      /\ Only(Tail(calls), name, value)
<1> DEFINE rest == Tail(calls)
<1>1. /\ Head(calls) = calls[1] /\ rest \in Seq(S) /\ Len(calls) \in Nat \ {0}
      /\ Len(rest) = Len(calls) - 1
      /\ \A i \in 1..Len(rest) : i + 1 \in 1..Len(calls) /\ rest[i] = calls[i + 1]
  OBVIOUS
<1> HIDE DEF rest
<1>2. ASSUME NEW i \in 1..Len(calls), i # 1
      PROVE  i - 1 \in 1..Len(rest) /\ rest[i - 1] = calls[i]
  BY <1>1, <1>2
<1>3. Names(calls) = {Name(Head(calls))} \union Names(rest)
  <2>1. ASSUME NEW i \in 1..Len(calls)
        PROVE  Name(calls[i]) \in {Name(Head(calls))} \union Names(rest)
    BY <1>1, <1>2 DEF Names
  <2>2. ASSUME NEW i \in 1..Len(rest) PROVE Name(rest[i]) \in Names(calls)
    BY <1>1 DEF Names
  <2>3. Name(Head(calls)) \in Names(calls)
    BY <1>1 DEF Names
  <2>4. QED
    BY <2>1, <2>2, <2>3 DEF Names
<1>4. ASSUME NEW name, NEW value
      PROVE  Only(calls, name, value) <=>
                 /\ Name(Head(calls)) = name => Arg(Head(calls)) = value
                 /\ Only(rest, name, value)
  BY <1>1, <1>2 DEF Only
<1>5. QED
  BY <1>3, <1>4 DEF rest

LEMMA NamesOfBoth ==
    ASSUME NEW S, NEW a \in Seq(S), NEW b \in Seq(S)
    PROVE  /\ Names(a \o b) = Names(a) \union Names(b)
           /\ \A name, value :
                  Only(a, name, value) /\ Only(b, name, value) => Only(a \o b, name, value)
<1> DEFINE c == a \o b
<1>1. /\ Len(a) \in Nat /\ Len(b) \in Nat /\ Len(c) = Len(a) + Len(b)
      /\ \A i \in 1..Len(a) : i \in 1..Len(c) /\ c[i] = a[i]
      /\ \A i \in 1..Len(b) : Len(a) + i \in 1..Len(c) /\ c[Len(a) + i] = b[i]
  OBVIOUS
<1> HIDE DEF c
<1>2. ASSUME NEW i \in 1..Len(c)
      PROVE  \/ i \in 1..Len(a) /\ c[i] = a[i]
             \/ i - Len(a) \in 1..Len(b) /\ c[i] = b[i - Len(a)]
  <2>1. i \in 1..Len(a) \/ (i - Len(a) \in 1..Len(b) /\ Len(a) + (i - Len(a)) = i)
    BY <1>1
  <2>2. QED
    BY <1>1, <2>1
<1>3. Names(c) = Names(a) \union Names(b)
  <2>1. ASSUME NEW i \in 1..Len(c) PROVE Name(c[i]) \in Names(a) \union Names(b)
    BY <1>2 DEF Names
  <2>2. ASSUME NEW i \in 1..Len(a) PROVE Name(a[i]) \in Names(c)
    BY <1>1 DEF Names
  <2>3. ASSUME NEW i \in 1..Len(b) PROVE Name(b[i]) \in Names(c)
    BY <1>1 DEF Names
  <2>4. QED
    BY <2>1, <2>2, <2>3 DEF Names
<1>4. ASSUME NEW name, NEW value, Only(a, name, value), Only(b, name, value)
      PROVE  Only(c, name, value)
  BY <1>2, <1>4 DEF Only
<1>5. QED
  BY <1>3, <1>4 DEF c

LEMMA NamesOfFew ==
    /\ Names(<<>>) = {}
    /\ \A s : Names(<<s>>) = {Name(s)}
    /\ \A r, s : Names(<<r, s>>) = {Name(r), Name(s)}
    /\ \A r, s, u : Names(<<r, s, u>>) = {Name(r), Name(s), Name(u)}
<1>1. Names(<<>>) = {}
  BY DEF Names
<1>2. ASSUME NEW s PROVE Names(<<s>>) = {Name(s)}
  BY DEF Names
<1>3. ASSUME NEW r, NEW s PROVE Names(<<r, s>>) = {Name(r), Name(s)}
  BY DEF Names
<1>4. ASSUME NEW r, NEW s, NEW u PROVE Names(<<r, s, u>>) = {Name(r), Name(s), Name(u)}
  BY DEF Names
<1>5. QED
  BY <1>1, <1>2, <1>3, <1>4

LEMMA OnlyUnnamed ==
    ASSUME NEW calls, NEW name, NEW value, name \notin Names(calls)
    PROVE  Only(calls, name, value)
BY DEF Names, Only

LEMMA NamesOfCalls ==
    /\ \A state \in BOOLEAN :
           /\ Names(DoSet(state)) = {"mState", "pin"}
           /\ Names(Set(state)) = {"stop", "off", "on", "mState", "pin"}
           /\ Only(Set(state), "on", 0) /\ Only(Set(state), "off", 0)
           /\ Only(Set(state), "mState", state)
    /\ Names(UpdateState) = {"check", "toggle", "schedule"}
    /\ \A on \in Times : \A off \in Times :
           /\ Names(Blink(on, off)) = {"stop", "on", "off", "check", "toggle", "schedule"}
           /\ Only(Blink(on, off), "on", on) /\ Only(Blink(on, off), "off", off)
    /\ Names(UpdateStatusLED) = {"updateStatus"}
<1>1. ASSUME NEW state \in BOOLEAN
      PROVE  /\ Names(DoSet(state)) = {"mState", "pin"}
             /\ Only(DoSet(state), "mState", state)
  BY NamesOfFew DEF DoSet, Name, Arg, Only
<1>2. ASSUME NEW r \in Statements, NEW s \in Statements, NEW rest \in Seq(Statements),
             Name(r) # Name(s), Name(r) # "stop", Name(s) # "stop",
             Name(r) \notin Names(rest), Name(s) \notin Names(rest)
      PROVE  /\ Names(<< <<"stop">>, r, s>> \o rest) = {"stop", Name(r), Name(s)} \union Names(rest)
             /\ Only(<< <<"stop">>, r, s>> \o rest, Name(r), Arg(r))
             /\ Only(<< <<"stop">>, r, s>> \o rest, Name(s), Arg(s))
             /\ \A name, value :
                    name \notin {"stop", Name(r), Name(s)} /\ Only(rest, name, value)
                        => Only(<< <<"stop">>, r, s>> \o rest, name, value)
  <2> DEFINE first == << <<"stop">>, r, s>>
  <2>1. first \in Seq(Statements)
    BY DEF Statements
  <2>2. Names(first) = {"stop", Name(r), Name(s)}
    BY NamesOfFew DEF Name
  <2>3. Only(first, Name(r), Arg(r)) /\ Only(first, Name(s), Arg(s))
    <3>1. Name(<<"stop">>) = "stop"
      BY DEF Name
    <3>2. /\ Len(first) = 3 /\ Name(first[1]) = "stop"
          /\ first[2] = r /\ first[3] = s
      BY <3>1
    <3> HIDE DEF first
    <3>3. QED
      BY <1>2, <3>2 DEF Only
  <2> HIDE DEF first
  <2>4. /\ Only(rest, Name(r), Arg(r)) /\ Only(rest, Name(s), Arg(s))
        /\ \A name, value : name \notin {"stop", Name(r), Name(s)} => Only(first, name, value)
    BY <1>2, <2>2, OnlyUnnamed
  <2>5. /\ Names(first \o rest) = Names(first) \union Names(rest)
        /\ \A name, value :
               Only(first, name, value) /\ Only(rest, name, value)
                   => Only(first \o rest, name, value)
    BY <2>1, NamesOfBoth
  <2>6. Names(first \o rest) = {"stop", Name(r), Name(s)} \union Names(rest)
    BY <2>2, <2>5
  <2>7. /\ Only(first \o rest, Name(r), Arg(r)) /\ Only(first \o rest, Name(s), Arg(s))
        /\ \A name, value :
               name \notin {"stop", Name(r), Name(s)} /\ Only(rest, name, value)
                   => Only(first \o rest, name, value)
    BY <2>3, <2>4, <2>5
  <2>8. QED
    BY <2>6, <2>7 DEF first
<1>3. ASSUME NEW state \in BOOLEAN
      PROVE  /\ Names(Set(state)) = {"stop", "off", "on", "mState", "pin"}
             /\ Only(Set(state), "on", 0) /\ Only(Set(state), "off", 0)
             /\ Only(Set(state), "mState", state)
  <2>1. <<"off", 0>> \in Statements /\ <<"on", 0>> \in Statements
    BY DEF Statements, Times
  <2>2. /\ Name(<<"off", 0>>) = "off" /\ Name(<<"on", 0>>) = "on"
        /\ Arg(<<"off", 0>>) = 0 /\ Arg(<<"on", 0>>) = 0
    BY DEF Name, Arg
  <2>3. DoSet(state) \in Seq(Statements)
    BY CallsEndWell
  <2> DEFINE off == <<"off", 0>>  on == <<"on", 0>>
  <2> HIDE DEF off, on
  <2>4. /\ Names(<< <<"stop">>, off, on>> \o DoSet(state))
               = {"stop", "off", "on"} \union {"mState", "pin"}
        /\ Only(<< <<"stop">>, off, on>> \o DoSet(state), "off", 0)
        /\ Only(<< <<"stop">>, off, on>> \o DoSet(state), "on", 0)
        /\ Only(<< <<"stop">>, off, on>> \o DoSet(state), "mState", state)
    BY <1>1, <1>2, <2>1, <2>2, <2>3 DEF off, on
  <2>5. QED
    BY <2>4 DEF Set, off, on
<1>4. Names(UpdateState) = {"check", "toggle", "schedule"}
  BY NamesOfFew DEF UpdateState, Name
<1>5. ASSUME NEW on \in Times, NEW off \in Times
      PROVE  /\ Names(Blink(on, off)) = {"stop", "on", "off", "check", "toggle", "schedule"}
             /\ Only(Blink(on, off), "on", on) /\ Only(Blink(on, off), "off", off)
  <2> DEFINE r == <<"on", on>>  s == <<"off", off>>
  <2>1. r \in Statements /\ s \in Statements
    BY DEF Statements
  <2>2. /\ Name(s) = "off" /\ Name(r) = "on"
        /\ Arg(s) = off /\ Arg(r) = on
    BY DEF Name, Arg
  <2>3. UpdateState \in Seq(Statements)
    BY CallsEndWell
  <2> HIDE DEF r, s
  <2>4. /\ Names(<< <<"stop">>, r, s>> \o UpdateState)
               = {"stop", "on", "off"} \union {"check", "toggle", "schedule"}
        /\ Only(<< <<"stop">>, r, s>> \o UpdateState, "on", on)
        /\ Only(<< <<"stop">>, r, s>> \o UpdateState, "off", off)
    BY <1>2, <1>4, <2>1, <2>2, <2>3
  <2>5. QED
    BY <2>4 DEF Blink, r, s
<1>6. Names(UpdateStatusLED) = {"updateStatus"}
  BY NamesOfFew DEF UpdateStatusLED, Name
<1>7. QED
  BY <1>1, <1>3, <1>4, <1>5, <1>6

\* What the call UpdateStatusLED makes does to the pattern and to the state.
LEMMA StatusCallSays ==
    /\ StatusCall \in Seq(Statements) /\ StatusCall # <<>>
    /\ Name(Head(StatusCall)) \notin {"pin", "toggle"}
    /\ {"stop", "on", "off"} \subseteq Names(StatusCall)
    /\ \A name \in {"start", "updateStatus"} \union Flags : name \notin Names(StatusCall)
    /\ Only(StatusCall, "on", OnTime) /\ Only(StatusCall, "off", OffTime)
    /\ Connected => Only(StatusCall, "mState", TRUE) /\ "mState" \in Names(StatusCall)
<1>1. /\ StatusCall \in Seq(Statements) /\ StatusCall # <<>>
      /\ Name(StatusCall[1]) \notin {"pin", "toggle"}
  BY StatusCallIs DEF Closing
<1>2. Name(Head(StatusCall)) \notin {"pin", "toggle"}
  BY <1>1
<1>3. CASE Connected
  <2>1. StatusCall = Set(TRUE) /\ OnTime = 0 /\ OffTime = 0
    BY <1>3 DEF StatusCall, Connected, OnTime, OffTime
  <2>2. /\ Names(Set(TRUE)) = {"stop", "off", "on", "mState", "pin"}
        /\ Only(Set(TRUE), "on", 0) /\ Only(Set(TRUE), "off", 0)
        /\ Only(Set(TRUE), "mState", TRUE)
    BY NamesOfCalls
  <2>3. QED
    BY <1>1, <1>2, <2>1, <2>2 DEF Flags
<1>4. CASE ~Connected
  <2>1. PICK on \in Times, off \in Times :
            StatusCall = Blink(on, off) /\ OnTime = on /\ OffTime = off
    <3>1. /\ StatusCall = IF net.ble THEN Blink(100, 100) ELSE Blink(50, 950)
          /\ OnTime = IF net.ble THEN 100 ELSE 50
          /\ OffTime = IF net.ble THEN 100 ELSE 950
      BY <1>4 DEF StatusCall, Connected, OnTime, OffTime
    <3>2. {50, 100, 950} \subseteq Times
      BY DEF Times
    <3>3. CASE net.ble
      BY <3>1, <3>2, <3>3
    <3>4. CASE ~net.ble
      BY <3>1, <3>2, <3>4
    <3>5. QED
      BY <3>3, <3>4
  <2>2. /\ Names(Blink(on, off)) = {"stop", "on", "off", "check", "toggle", "schedule"}
        /\ Only(Blink(on, off), "on", on) /\ Only(Blink(on, off), "off", off)
    BY NamesOfCalls
  <2>3. QED
    BY <1>1, <1>2, <1>4, <2>1, <2>2 DEF Flags
<1>5. QED
  BY <1>3, <1>4

\* What the first statement of a handler does, by its name.
LEMMA StatementDoes ==
    ASSUME Inv, Types, NEW t \in Threads, Statement(t),
           NEW now, now = Head(todo[t]), NEW rest, rest = Tail(todo[t])
    PROVE  /\ todo' = [todo EXCEPT ![t] = todo'[t]]
           /\ Name(now) \notin {"check", "toggle", "schedule", "updateStatus"} => todo'[t] = rest
           /\ Name(now) = "check" => todo'[t] = IF Blinking THEN rest ELSE <<>>
           /\ Name(now) = "toggle" => todo'[t] = DoSet(~mState) \o rest
           /\ Name(now) = "schedule" => todo'[t] = << <<"start", Period>> >>
           /\ Name(now) = "updateStatus" => todo'[t] = StatusCall
           /\ mBlinkOnTimeMS' = IF Name(now) = "on" THEN Arg(now) ELSE mBlinkOnTimeMS
           /\ mBlinkOffTimeMS' = IF Name(now) = "off" THEN Arg(now) ELSE mBlinkOffTimeMS
           /\ mState' = IF Name(now) = "mState" THEN Arg(now) ELSE mState
           /\ pin' = IF Name(now) = "pin" THEN Arg(now) ELSE pin
           /\ mLedTimer' = IF Name(now) = "stop" THEN Stopped
                           ELSE IF Name(now) = "start" THEN Arg(now) ELSE mLedTimer
           /\ Name(now) \notin Flags => net' = net
           /\ window' = window
<1>1. todo \in [Threads -> Seq(Statements)] /\ DOMAIN net = Flags
  BY DEF Inv, Handlers, Fields, Flags
<1>2. ASSUME NEW calls, Then(t, calls) PROVE todo' = [todo EXCEPT ![t] = calls] /\ todo'[t] = calls
  BY <1>1, <1>2 DEF Then
<1>3. Name(now) \in {"schedule", "updateStatus"} => rest = <<>>
  BY HandlerGoesOn DEF Types
<1>4. StatusCall \o <<>> = StatusCall /\ << <<"start", Period>> >> \o <<>> = << <<"start", Period>> >>
  BY StatusCallSays
<1>5. /\ todo' = [todo EXCEPT ![t] = todo'[t]]
      /\ Name(now) \notin {"check", "toggle", "schedule", "updateStatus"} => todo'[t] = rest
      /\ Name(now) = "check" => todo'[t] = IF Blinking THEN rest ELSE <<>>
      /\ Name(now) = "toggle" => todo'[t] = DoSet(~mState) \o rest
      /\ Name(now) = "schedule" => todo'[t] = << <<"start", Period>> >>
      /\ Name(now) = "updateStatus" => todo'[t] = StatusCall
  <2>1. \/ /\ Name(now) \notin {"check", "toggle", "schedule", "updateStatus"} /\ Then(t, rest)
        \/ Name(now) = "check" /\ Then(t, IF Blinking THEN rest ELSE <<>>)
        \/ Name(now) = "toggle" /\ Then(t, DoSet(~mState) \o rest)
        \/ Name(now) = "schedule" /\ Then(t, << <<"start", Period>> >> \o rest)
        \/ Name(now) = "updateStatus" /\ Then(t, StatusCall \o rest)
    BY <1>1 DEF Statement, Name, Period, Flags
  <2>2. /\ Name(now) \notin {"check", "toggle", "schedule", "updateStatus"} => Then(t, rest)
        /\ Name(now) = "check" => Then(t, IF Blinking THEN rest ELSE <<>>)
        /\ Name(now) = "toggle" => Then(t, DoSet(~mState) \o rest)
        /\ Name(now) = "schedule" => Then(t, << <<"start", Period>> >> \o rest)
        /\ Name(now) = "updateStatus" => Then(t, StatusCall \o rest)
    BY <2>1
  <2>3. \E calls : Then(t, calls)
    BY <2>1
  <2>4. todo' = [todo EXCEPT ![t] = todo'[t]]
    BY <1>2, <2>3
  <2>5. Name(now) = "schedule" => todo'[t] = << <<"start", Period>> >>
    BY <1>2, <1>3, <1>4, <2>2
  <2>6. Name(now) = "updateStatus" => todo'[t] = StatusCall
    BY <1>2, <1>3, <1>4, <2>2
  <2>7. QED
    BY <1>2, <2>2, <2>4, <2>5, <2>6
<1>6. /\ mBlinkOnTimeMS' = IF Name(now) = "on" THEN Arg(now) ELSE mBlinkOnTimeMS
      /\ mBlinkOffTimeMS' = IF Name(now) = "off" THEN Arg(now) ELSE mBlinkOffTimeMS
  BY <1>1 DEF Statement, Name, Arg, Keep, widget, Flags
<1>7. /\ mState' = IF Name(now) = "mState" THEN Arg(now) ELSE mState
      /\ pin' = IF Name(now) = "pin" THEN Arg(now) ELSE pin
  BY <1>1 DEF Statement, Name, Arg, Keep, widget, Flags
<1>8. /\ mLedTimer' = IF Name(now) = "stop" THEN Stopped
                      ELSE IF Name(now) = "start" THEN Arg(now) ELSE mLedTimer
      /\ Name(now) \notin Flags => net' = net
      /\ window' = window
  BY <1>1 DEF Statement, Name, Arg, Keep, widget, Flags
<1>9. QED
  BY <1>5, <1>6, <1>7, <1>8

LEMMA SecondOf ==
    ASSUME NEW S, NEW calls \in Seq(S), calls # <<>>
    PROVE  /\ Tail(calls) # <<>> =>
                  2 \in 1..Len(calls) /\ Head(Tail(calls)) = calls[2] /\ 2 - 1 = 1
           /\ 1 < Len(calls) => Tail(calls) # <<>>
           /\ Len(Tail(calls)) = 1 => Names(Tail(calls)) = {Name(Tail(calls)[1])}
           /\ Len(Tail(calls)) = 2 =>
                  Names(Tail(calls)) = {Name(Tail(calls)[1]), Name(Tail(calls)[2])}
<1>1. ASSUME NEW rest \in Seq(S)
      PROVE  /\ Len(rest) = 1 => Names(rest) = {Name(rest[1])}
             /\ Len(rest) = 2 => Names(rest) = {Name(rest[1]), Name(rest[2])}
             /\ rest # <<>> => Len(rest) \in Nat \ {0} /\ Head(rest) = rest[1]
  BY DEF Names
<1> DEFINE rest == Tail(calls)
<1>2. /\ rest \in Seq(S) /\ Len(calls) \in Nat /\ Len(rest) = Len(calls) - 1
      /\ \A i \in 1..Len(rest) : rest[i] = calls[i + 1]
  OBVIOUS
<1> HIDE DEF rest
<1>3. rest # <<>> => 2 \in 1..Len(calls) /\ Head(rest) = calls[1 + 1]
  BY <1>1, <1>2
<1>4. 1 < Len(calls) => rest # <<>>
  <2>1. 1 < Len(calls) => Len(rest) # 0
    BY <1>2
  <2>2. QED
    BY <2>1
<1>5. /\ Len(rest) = 1 => Names(rest) = {Name(rest[1])}
      /\ Len(rest) = 2 => Names(rest) = {Name(rest[1]), Name(rest[2])}
  BY <1>1, <1>2
<1>6. 1 + 1 = 2 /\ 2 - 1 = 1
  OBVIOUS
<1>7. QED
  BY <1>3, <1>4, <1>5, <1>6 DEF rest

\* What it leaves, by the names of its statements.
LEMMA StatementLeaves ==
    ASSUME Inv, Types, NEW t \in Threads, Statement(t),
           NEW now, now = Head(todo[t]), NEW rest, rest = Tail(todo[t])
    PROVE  /\ todo[t] # <<>> /\ Names(todo[t]) = {Name(now)} \union Names(rest)
           /\ \A name, value : Only(todo[t], name, value) <=>
                  (Name(now) = name => Arg(now) = value) /\ Only(rest, name, value)
           /\ "start" \notin Names(rest)
           /\ rest # <<>> /\ Name(Head(rest)) = "pin" =>
                  Name(now) = "mState" /\ Arg(Head(rest)) = Arg(now)
           /\ Name(now) = "mState" =>
                  rest # <<>> /\ Name(Head(rest)) = "pin" /\ Arg(Head(rest)) = Arg(now)
           /\ rest # <<>> /\ Name(Head(rest)) = "toggle" => Name(now) = "check"
           /\ Name(now) \in {"updateStatus", "schedule", "start"} =>
                  rest = <<>> /\ Names(rest) = {}
           /\ Name(now) = "toggle" => Names(rest) = {"schedule"}
           /\ Name(now) = "check" => Names(rest) = {"toggle", "schedule"}
<1> DEFINE calls == todo[t]
<1>1. /\ calls \in Seq(Statements) /\ calls # <<>> /\ Ordered(calls) /\ Head(calls) = calls[1]
      /\ rest \in Seq(Statements) /\ Len(calls) \in Nat \ {0} /\ Len(rest) = Len(calls) - 1
      /\ \A i \in 1..Len(rest) : rest[i] = calls[i + 1]
      /\ Name(now) \in {"updateStatus", "schedule", "start"} => rest = <<>>
      /\ Name(now) = "toggle" => Len(rest) = 1 /\ Name(rest[1]) = "schedule"
      /\ Name(now) = "check" =>
             Len(rest) = 2 /\ Name(rest[1]) = "toggle" /\ Name(rest[2]) = "schedule"
  BY HandlerGoesOn DEF Types
<1>2. /\ Names(calls) = {Name(now)} \union Names(rest)
      /\ \A name, value : Only(calls, name, value) <=>
             (Name(now) = name => Arg(now) = value) /\ Only(rest, name, value)
  BY <1>1, NamesOfRest
<1> HIDE DEF calls
<1>3. now = calls[1] /\ \A i \in 1..Len(calls) : Placed(calls, i)
  BY <1>1 DEF calls, Ordered
<1>4. ASSUME NEW i \in 1..Len(rest) PROVE Name(rest[i]) # "start"
  <2>1. PICK k \in 2..Len(calls) : k = i + 1
    BY <1>1
  <2>2. Name(calls[k]) # "start"
    BY <1>1, <1>3 DEF Placed
  <2>3. QED
    BY <1>1, <2>1, <2>2
<1>5. ASSUME rest # <<>>
      PROVE  2 \in 1..Len(calls) /\ Head(rest) = calls[2] /\ 2 - 1 = 1
  BY <1>1, <1>5, SecondOf DEF calls
<1>6. ASSUME rest # <<>>, Name(Head(rest)) = "pin"
      PROVE  Name(now) = "mState" /\ Arg(Head(rest)) = Arg(now)
  BY <1>3, <1>5, <1>6 DEF Placed
<1>7. ASSUME rest # <<>>, Name(Head(rest)) = "toggle" PROVE Name(now) = "check"
  BY <1>3, <1>5, <1>7 DEF Placed
<1>8. ASSUME Name(now) = "mState"
      PROVE  rest # <<>> /\ Name(Head(rest)) = "pin" /\ Arg(Head(rest)) = Arg(now)
  <2>1. 1 < Len(calls) /\ Name(calls[1 + 1]) = "pin" /\ Arg(calls[1 + 1]) = Arg(calls[1])
    BY <1>1, <1>3, <1>8 DEF Placed
  <2>2. rest # <<>>
    BY <1>1, <2>1, SecondOf DEF calls
  <2>3. QED
    BY <1>3, <1>5, <2>1, <2>2
<1>9. /\ Name(now) \in {"updateStatus", "schedule", "start"} => Names(rest) = {}
      /\ Name(now) = "toggle" => Names(rest) = {"schedule"}
      /\ Name(now) = "check" => Names(rest) = {"toggle", "schedule"}
  <2>1. /\ Len(rest) = 1 => Names(rest) = {Name(rest[1])}
        /\ Len(rest) = 2 => Names(rest) = {Name(rest[1]), Name(rest[2])}
    BY <1>1, SecondOf DEF calls
  <2>2. QED
    BY <1>1, <2>1, NamesOfFew
<1>10. "start" \notin Names(rest)
  BY <1>4 DEF Names
<1>11. QED
  BY <1>1, <1>2, <1>6, <1>7, <1>8, <1>9, <1>10 DEF calls

LEMMA FirstOfBoth ==
    ASSUME NEW S, NEW a \in Seq(S), NEW b \in Seq(S), a # <<>>
    PROVE  a \o b # <<>> /\ Head(a \o b) = a[1]
<1> DEFINE c == a \o b
<1>1. /\ c \in Seq(S) /\ Len(c) = Len(a) + Len(b) /\ Len(a) \in Nat \ {0} /\ Len(b) \in Nat
      /\ \A i \in 1..Len(a) : c[i] = a[i]
  OBVIOUS
<1> HIDE DEF c
<1>2. c # <<>> /\ c[1] = a[1]
  BY <1>1
<1>3. QED
  BY <1>1, <1>2 DEF c

\* What follows a statement that does more than leave the rest.
LEMMA StatementPuts ==
    ASSUME Inv, Types, NEW t \in Threads, Statement(t),
           NEW now, now = Head(todo[t]), NEW rest, rest = Tail(todo[t]),
           NEW after, after = todo'[t]
    PROVE  /\ Name(now) = "check" =>
                  \/ Blinking /\ after = rest /\ Names(after) = {"toggle", "schedule"}
                  \/ ~Blinking /\ after = <<>> /\ Names(after) = {}
           /\ Name(now) = "toggle" =>
                  /\ after # <<>> /\ Name(Head(after)) \notin {"pin", "toggle"}
                  /\ Names(after) = {"mState", "pin", "schedule"}
           /\ Name(now) = "schedule" =>
                  /\ after # <<>> /\ Name(Head(after)) = "start" /\ Names(after) = {"start"}
                  /\ Only(after, "start", Period)
<1>1. Name(now) = "check" =>
          \/ Blinking /\ after = rest /\ Names(after) = {"toggle", "schedule"}
          \/ ~Blinking /\ after = <<>> /\ Names(after) = {}
  <2>1. Name(now) = "check" => after = IF Blinking THEN rest ELSE <<>>
    BY StatementDoes
  <2>2. Name(now) = "check" => Names(rest) = {"toggle", "schedule"}
    BY StatementLeaves
  <2>3. QED
    BY <2>1, <2>2, NamesOfFew
<1>2. ASSUME Name(now) = "toggle"
      PROVE  /\ after # <<>> /\ Name(Head(after)) \notin {"pin", "toggle"}
             /\ Names(after) = {"mState", "pin", "schedule"}
  <2>1. after = DoSet(~mState) \o rest /\ Names(rest) = {"schedule"} /\ rest \in Seq(Statements)
    <3>1. after = DoSet(~mState) \o rest
      BY <1>2, StatementDoes
    <3>2. Names(rest) = {"schedule"}
      BY <1>2, StatementLeaves
    <3>3. rest \in Seq(Statements)
      BY HandlerGoesOn DEF Types
    <3>4. QED
      BY <3>1, <3>2, <3>3
  <2>2. PICK first \in Seq(Statements) :
            /\ first = DoSet(~mState) /\ first # <<>> /\ Names(first) = {"mState", "pin"}
            /\ Name(first[1]) \notin {"pin", "toggle"}
    BY CallsOrdered, NamesOfCalls DEF Closing
  <2>3. Names(first \o rest) = {"mState", "pin"} \union {"schedule"}
    <3>1. \A b \in Seq(Statements) : Names(first \o b) = Names(first) \union Names(b)
      BY NamesOfBoth
    <3>2. QED
      BY <2>1, <2>2, <3>1
  <2>4. first \o rest # <<>> /\ Head(first \o rest) = first[1]
    BY <2>1, <2>2, FirstOfBoth
  <2>5. QED
    BY <2>1, <2>2, <2>3, <2>4
<1>3. ASSUME Name(now) = "schedule"
      PROVE  /\ after # <<>> /\ Name(Head(after)) = "start" /\ Names(after) = {"start"}
             /\ Only(after, "start", Period)
  <2>1. after = << <<"start", Period>> >>
    BY <1>3, StatementDoes
  <2>2. PICK start : start = <<"start", Period>> /\ Name(start) = "start" /\ Arg(start) = Period
    <3>1. Name(<<"start", Period>>) = "start" /\ Arg(<<"start", Period>>) = Period
      BY DEF Name, Arg
    <3>2. QED
      BY <3>1
  <2>3. after = <<start>>
    BY <2>1, <2>2
  <2>4. after # <<>> /\ Head(after) = start /\ Len(after) = 1 /\ after[1] = start
    BY <2>3
  <2>5. Only(after, "start", Period)
    BY <2>2, <2>4 DEF Only
  <2>6. QED
    BY <2>2, <2>3, <2>4, <2>5, NamesOfFew
<1>4. QED
  BY <1>1, <1>2, <1>3

LEMMA PinStep ==
    ASSUME Inv, Types, NEW t \in Threads, Statement(t), PinKnown(t)
    PROVE  PinKnown(t)'
<1> DEFINE now   == Head(todo[t])
           rest  == Tail(todo[t])
           after == todo'[t]
<1>1. todo[t] # <<>> /\ (Name(now) = "pin" => Arg(now) = mState)
      /\ (Name(now) # "pin" => pin = mState)
  BY StatementLeaves DEF PinKnown
<1>2. /\ mState' = IF Name(now) = "mState" THEN Arg(now) ELSE mState
      /\ pin' = IF Name(now) = "pin" THEN Arg(now) ELSE pin
      /\ Name(now) \notin {"check", "toggle", "schedule", "updateStatus"} => after = rest
      /\ Name(now) = "updateStatus" => after = StatusCall
  BY StatementDoes
<1>3. /\ rest # <<>> /\ Name(Head(rest)) = "pin" =>
             Name(now) = "mState" /\ Arg(Head(rest)) = Arg(now)
      /\ Name(now) = "mState" =>
             rest # <<>> /\ Name(Head(rest)) = "pin" /\ Arg(Head(rest)) = Arg(now)
  BY StatementLeaves
<1>4. after # <<>> /\ Name(Head(after)) = "pin" => Name(now) = "mState"
  <2>1. Name(now) = "check" => after \in {<<>>, rest}
    BY StatementDoes
  <2>2. Name(now) = "toggle" => Name(Head(after)) # "pin"
    BY StatementPuts
  <2>3. Name(now) = "schedule" => Name(Head(after)) = "start"
    BY StatementPuts
  <2>4. Name(now) = "updateStatus" => Name(Head(after)) # "pin"
    BY <1>2, StatusCallSays
  <2> HIDE DEF now, rest, after
  <2>5. QED
    BY <1>2, <1>3, <2>1, <2>2, <2>3, <2>4
<1>5. CASE Name(now) = "mState"
  BY <1>2, <1>3, <1>5 DEF PinKnown
<1>6. CASE Name(now) # "mState"
  BY <1>1, <1>2, <1>4, <1>6 DEF PinKnown
<1>7. QED
  BY <1>5, <1>6

LEMMA PeriodStep ==
    ASSUME Inv, Types, NEW t \in Threads, Statement(t), PeriodKnown(t)
    PROVE  PeriodKnown(t)'
<1> DEFINE now   == Head(todo[t])
           rest  == Tail(todo[t])
           after == todo'[t]
           Restarted(calls) ==
               \E name \in {"stop", "schedule", "start", "updateStatus"} : name \in Names(calls)
           Written(calls) == \E name \in {"on", "off", "mState", "toggle"} : name \in Names(calls)
<1>1. /\ Names(todo[t]) = {Name(now)} \union Names(rest)
      /\ \A name, value : Only(todo[t], name, value) <=>
             (Name(now) = name => Arg(now) = value) /\ Only(rest, name, value)
      /\ "start" \notin Names(rest)
      /\ Name(now) = "start" => Names(rest) = {}
  BY StatementLeaves
<1>2. /\ mBlinkOnTimeMS' = IF Name(now) = "on" THEN Arg(now) ELSE mBlinkOnTimeMS
      /\ mBlinkOffTimeMS' = IF Name(now) = "off" THEN Arg(now) ELSE mBlinkOffTimeMS
      /\ mState' = IF Name(now) = "mState" THEN Arg(now) ELSE mState
      /\ mLedTimer' = IF Name(now) = "stop" THEN Stopped
                      ELSE IF Name(now) = "start" THEN Arg(now) ELSE mLedTimer
      /\ Name(now) \notin {"check", "toggle", "schedule", "updateStatus"} => after = rest
      /\ Name(now) = "updateStatus" => after = StatusCall
  BY StatementDoes
<1>3. Only(after, "start", Period')
  <2>1. CASE Name(now) = "schedule"
    <3>1. Period' = Period
      BY <1>2, <2>1 DEF Period
    <3>2. QED
      BY <2>1, <3>1, StatementPuts
  <2>2. CASE Name(now) # "schedule"
    <3>1. "start" \notin Names(after)
      <4>1. /\ Name(now) = "check" => Names(after) \subseteq {"toggle", "schedule"}
            /\ Name(now) = "toggle" => Names(after) = {"mState", "pin", "schedule"}
        BY StatementPuts
      <4>2. QED
        BY <1>1, <1>2, <2>2, <4>1, StatusCallSays
    <3>2. QED
      BY <3>1, OnlyUnnamed
  <2>3. QED
    BY <2>1, <2>2
<1>4. Restarted(after) \/ mLedTimer' = Stopped \/ (~Written(after) /\ (Blinking' => mLedTimer' = Period'))
  <2>1. Restarted(todo[t]) \/ mLedTimer = Stopped
            \/ (~Written(todo[t]) /\ (Blinking => mLedTimer = Period))
    BY DEF PeriodKnown
  <2>2. CASE Name(now) = "stop"
    BY <1>2, <2>2
  <2>3. CASE Name(now) = "start"
    <3>1. Arg(now) = Period
      BY <1>1, <2>3 DEF PeriodKnown
    <3>2. after = rest /\ ~Written(after) /\ mLedTimer' = Period /\ Period' = Period
      BY <1>1, <1>2, <2>3, <3>1 DEF Period
    <3>3. QED
      BY <3>2
  <2>4. CASE Name(now) \in {"toggle", "schedule", "updateStatus"}
    <3>1. Restarted(after)
      BY <1>2, <2>4, StatementPuts, StatusCallSays
    <3>2. QED
      BY <3>1
  <2>5. CASE Name(now) = "check"
    <3>1. Restarted(after) \/ (~Written(after) /\ ~Blinking)
      BY <2>5, StatementPuts
    <3>2. Blinking' = Blinking
      BY <1>2, <2>5 DEF Blinking
    <3>3. QED
      BY <3>1, <3>2
  <2>6. CASE Name(now) \notin {"stop", "start", "toggle", "schedule", "updateStatus", "check"}
    <3>1. after = rest /\ mLedTimer' = mLedTimer /\ (Restarted(todo[t]) => Restarted(after))
      BY <1>1, <1>2, <2>6
    <3>2. ASSUME ~Written(todo[t])
          PROVE  ~Written(after) /\ Blinking' = Blinking /\ Period' = Period
      <4>1. Name(now) \notin {"on", "off", "mState"} /\ ~Written(after)
        BY <1>1, <3>1, <3>2
      <4>2. UNCHANGED <<mBlinkOnTimeMS, mBlinkOffTimeMS, mState>>
        BY <1>2, <4>1
      <4>3. QED
        BY <4>1, <4>2 DEF Blinking, Period
    <3>3. QED
      BY <2>1, <3>1, <3>2
  <2>7. QED
    BY <2>2, <2>3, <2>4, <2>5, <2>6
<1>5. QED
  BY <1>3, <1>4 DEF PeriodKnown

LEMMA PatternStep ==
    ASSUME Inv, Types, NEW t \in Threads, Statement(t), PatternKnown(t)
    PROVE  PatternKnown(t)'
<1> DEFINE now   == Head(todo[t])
           rest  == Tail(todo[t])
           after == todo'[t]
<1>1. /\ Names(todo[t]) = {Name(now)} \union Names(rest)
      /\ \A name, value : Only(todo[t], name, value) <=>
             (Name(now) = name => Arg(now) = value) /\ Only(rest, name, value)
      /\ Name(now) \in {"updateStatus", "schedule", "start"} => Names(rest) = {}
      /\ Name(now) = "toggle" => Names(rest) = {"schedule"}
      /\ Name(now) = "check" => Names(rest) = {"toggle", "schedule"}
  BY StatementLeaves
<1>2. /\ mBlinkOnTimeMS' = IF Name(now) = "on" THEN Arg(now) ELSE mBlinkOnTimeMS
      /\ mBlinkOffTimeMS' = IF Name(now) = "off" THEN Arg(now) ELSE mBlinkOffTimeMS
      /\ Name(now) \notin {"check", "toggle", "schedule", "updateStatus"} => after = rest
      /\ Name(now) = "updateStatus" => after = StatusCall
      /\ Name(now) \notin Flags => net' = net
      /\ window' = window
  BY StatementDoes
<1>3. /\ Name(now) = "check" => Names(after) \subseteq {"toggle", "schedule"}
      /\ Name(now) = "toggle" => Names(after) = {"mState", "pin", "schedule"}
      /\ Name(now) = "schedule" => Names(after) = {"start"}
  BY StatementPuts
<1> SUFFICES ASSUME window' = "closed", "updateStatus" \notin Names(after)
             PROVE  /\ \A flag \in Flags : flag \notin Names(after)
                    /\ Only(after, "on", OnTime') /\ Only(after, "off", OffTime')
                    /\ mBlinkOnTimeMS' = OnTime' \/ "on" \in Names(after)
                    /\ mBlinkOffTimeMS' = OffTime' \/ "off" \in Names(after)
  BY DEF PatternKnown, Final
<1>4. Name(now) \notin Flags => OnTime' = OnTime /\ OffTime' = OffTime
  BY <1>2 DEF OnTime, OffTime, Connected
<1> HIDE DEF now, rest, after
<1>5. CASE Name(now) = "updateStatus"
  BY <1>2, <1>4, <1>5, StatusCallSays DEF Flags
<1>6. CASE Name(now) # "updateStatus"
  <2>1. "updateStatus" \notin Names(todo[t])
    BY <1>1, <1>2, <1>6
  <2>2. /\ \A flag \in Flags : flag \notin Names(todo[t])
        /\ Only(todo[t], "on", OnTime) /\ Only(todo[t], "off", OffTime)
        /\ mBlinkOnTimeMS = OnTime \/ "on" \in Names(todo[t])
        /\ mBlinkOffTimeMS = OffTime \/ "off" \in Names(todo[t])
    BY <1>2, <2>1 DEF PatternKnown, Final
  <2>3. OnTime' = OnTime /\ OffTime' = OffTime
    BY <1>1, <1>4, <2>2
  <2>4. CASE Name(now) \in {"check", "toggle", "schedule"}
    <3>1. /\ "on" \notin Names(todo[t]) /\ "off" \notin Names(todo[t])
          /\ "on" \notin Names(after) /\ "off" \notin Names(after)
          /\ \A flag \in Flags : flag \notin Names(after)
      BY <1>1, <1>3, <2>4 DEF Flags
    <3>2. mBlinkOnTimeMS' = OnTime /\ mBlinkOffTimeMS' = OffTime
      BY <1>2, <2>2, <2>4, <3>1
    <3>3. QED
      BY <2>3, <3>1, <3>2, OnlyUnnamed
  <2>5. CASE Name(now) \notin {"check", "toggle", "schedule"}
    <3>1. after = rest
      BY <1>2, <1>6, <2>5
    <3>2. Only(rest, "on", OnTime) /\ Only(rest, "off", OffTime)
          /\ (Name(now) = "on" => Arg(now) = OnTime) /\ (Name(now) = "off" => Arg(now) = OffTime)
      BY <1>1, <2>2
    <3>3. /\ mBlinkOnTimeMS' = OnTime \/ "on" \in Names(rest)
          /\ mBlinkOffTimeMS' = OffTime \/ "off" \in Names(rest)
      BY <1>1, <1>2, <2>2, <3>2
    <3>4. \A flag \in Flags : flag \notin Names(rest)
      BY <1>1, <2>2
    <3>5. QED
      BY <2>3, <3>1, <3>2, <3>3, <3>4
  <2>6. QED
    BY <2>4, <2>5
<1>7. QED
  BY <1>5, <1>6

LEMMA LitStep ==
    ASSUME Inv, Types, NEW t \in Threads, Statement(t), PatternKnown(t), LitKnown(t)
    PROVE  LitKnown(t)'
<1> DEFINE now   == Head(todo[t])
           rest  == Tail(todo[t])
           after == todo'[t]
<1>1. /\ todo[t] # <<>> /\ Names(todo[t]) = {Name(now)} \union Names(rest)
      /\ \A name, value : Only(todo[t], name, value) <=>
             (Name(now) = name => Arg(now) = value) /\ Only(rest, name, value)
      /\ rest # <<>> /\ Name(Head(rest)) = "toggle" => Name(now) = "check"
      /\ Name(now) \in {"updateStatus", "schedule", "start"} => Names(rest) = {}
      /\ Name(now) = "toggle" => Names(rest) = {"schedule"}
      /\ Name(now) = "check" => Names(rest) = {"toggle", "schedule"}
  BY StatementLeaves
<1>2. /\ mBlinkOnTimeMS' = IF Name(now) = "on" THEN Arg(now) ELSE mBlinkOnTimeMS
      /\ mBlinkOffTimeMS' = IF Name(now) = "off" THEN Arg(now) ELSE mBlinkOffTimeMS
      /\ mState' = IF Name(now) = "mState" THEN Arg(now) ELSE mState
      /\ Name(now) \notin {"check", "toggle", "schedule", "updateStatus"} => after = rest
      /\ Name(now) = "updateStatus" => after = StatusCall
      /\ Name(now) \notin Flags => net' = net
      /\ window' = window
  BY StatementDoes
<1>3. /\ Name(now) = "check" =>
             (Blinking \/ after = <<>>) /\ Names(after) \subseteq {"toggle", "schedule"}
      /\ Name(now) = "toggle" => Name(Head(after)) # "toggle"
      /\ Name(now) = "schedule" => Name(Head(after)) = "start" /\ Names(after) = {"start"}
  <2>1. Name(now) = "check" =>
            (Blinking \/ after = <<>>) /\ Names(after) \subseteq {"toggle", "schedule"}
    <3>1. Name(now) = "check" =>
              \/ Blinking /\ after = rest /\ Names(after) = {"toggle", "schedule"}
              \/ ~Blinking /\ after = <<>> /\ Names(after) = {}
      BY StatementPuts
    <3> HIDE DEF now, rest, after
    <3>2. QED
      BY <3>1
  <2>2. Name(now) = "toggle" => Name(Head(after)) # "toggle"
    BY StatementPuts
  <2>3. Name(now) = "schedule" => Name(Head(after)) = "start" /\ Names(after) = {"start"}
    BY StatementPuts
  <2>4. QED
    BY <2>1, <2>2, <2>3
<1>4. Name(now) = "toggle" => Blinking
  BY <1>1 DEF LitKnown
<1>5. /\ Name(now) \notin Flags => Connected' = Connected
      /\ Name(now) \notin {"on", "off"} => Blinking' = Blinking
  BY <1>2 DEF Connected, Blinking
<1>6. Connected => OnTime = 0
  BY DEF OnTime
<1>7. Final(t) <=> window = "closed" /\ "updateStatus" \notin Names(todo[t])
  BY DEF Final
<1>8. Final(t) =>
          /\ \A flag \in Flags : flag \notin Names(todo[t])
          /\ mBlinkOnTimeMS = OnTime \/ "on" \in Names(todo[t])
  BY DEF PatternKnown
<1>9. Final(t) /\ Connected =>
          /\ Only(todo[t], "mState", TRUE)
          /\ mState = TRUE \/ "mState" \in Names(todo[t])
  BY DEF LitKnown
<1> SUFFICES /\ after # <<>> /\ Name(Head(after)) = "toggle" => Blinking'
             /\ window' = "closed" /\ "updateStatus" \notin Names(after) /\ Connected' =>
                    /\ Only(after, "mState", TRUE)
                    /\ mState' = TRUE \/ "mState" \in Names(after)
  BY DEF LitKnown, Final
<1> HIDE DEF now, rest, after
<1>10. ASSUME after # <<>>, Name(Head(after)) = "toggle" PROVE Blinking'
  <2>1. Name(now) \notin {"toggle", "schedule", "updateStatus"}
    BY <1>2, <1>3, <1>10, StatusCallSays
  <2>2. Name(now) = "check"
    BY <1>1, <1>2, <1>10, <2>1
  <2>3. QED
    BY <1>3, <1>5, <1>10, <2>2
<1>11. ASSUME window' = "closed", "updateStatus" \notin Names(after), Connected'
       PROVE  Only(after, "mState", TRUE) /\ (mState' = TRUE \/ "mState" \in Names(after))
  <2>1. CASE Name(now) = "updateStatus"
    <3>1. Connected
      BY <1>5, <1>11, <2>1 DEF Flags
    <3>2. QED
      BY <1>2, <2>1, <3>1, StatusCallSays
  <2>2. CASE Name(now) # "updateStatus"
    <3>1. Final(t)
      BY <1>1, <1>2, <1>7, <1>11, <2>2
    <3>2. Connected /\ (mBlinkOnTimeMS = 0 \/ "on" \in Names(todo[t]))
      BY <1>1, <1>5, <1>6, <1>8, <1>11, <3>1
    <3>3. Name(now) # "toggle"
      <4>1. Name(now) = "toggle" => mBlinkOnTimeMS = 0
        BY <1>1, <3>2
      <4>2. QED
        BY <1>4, <4>1 DEF Blinking
    <3>4. Only(todo[t], "mState", TRUE) /\ (mState = TRUE \/ "mState" \in Names(todo[t]))
      BY <1>9, <3>1, <3>2
    <3>5. CASE Name(now) \in {"check", "schedule"}
      <4>1. "mState" \notin Names(todo[t]) /\ "mState" \notin Names(after) /\ mState' = mState
        BY <1>1, <1>2, <1>3, <3>5
      <4>2. QED
        BY <3>4, <4>1, OnlyUnnamed
    <3>6. CASE Name(now) \notin {"check", "schedule"}
      <4>1. after = rest
        BY <1>2, <2>2, <3>3, <3>6
      <4>2. Only(rest, "mState", TRUE) /\ (Name(now) = "mState" => Arg(now) = TRUE)
        BY <1>1, <3>4
      <4>3. mState' = TRUE \/ "mState" \in Names(rest)
        BY <1>1, <1>2, <3>4, <4>2
      <4>4. QED
        BY <4>1, <4>2, <4>3
    <3>7. QED
      BY <3>5, <3>6
  <2>3. QED
    BY <2>1, <2>2
<1>12. QED
  BY <1>10, <1>11

\* A handler that starts: the first statement of none is the second half of
\* another, all will settle the timer, and the pattern and the state are theirs
\* to change only if they end in UpdateStatusLED or in the window.
LEMMA StartKnown ==
    ASSUME Inv, NEW t \in Threads, NEW calls, Known(t),
           todo[t] = <<>>, todo'[t] = calls, UNCHANGED <<widget, net>>,
           calls # <<>>, Name(Head(calls)) \notin {"pin", "toggle"},
           "start" \notin Names(calls),
           "stop" \in Names(calls) \/ "schedule" \in Names(calls) \/ "updateStatus" \in Names(calls),
           \/ window' # "closed" \/ "updateStatus" \in Names(calls)
           \/ window' = window /\ \A name \in {"on", "off", "mState"} \union Flags :
                                      name \notin Names(calls)
    PROVE  Known(t)'
<1>1. UNCHANGED <<mBlinkOnTimeMS, mBlinkOffTimeMS, mState, mLedTimer, pin, net>>
  BY DEF widget
<1>2. /\ Period' = Period /\ OnTime' = OnTime /\ OffTime' = OffTime /\ Connected' = Connected
      /\ Blinking' = Blinking
  BY <1>1 DEF Period, OnTime, OffTime, Connected, Blinking
<1>3. PinKnown(t)'
  BY <1>1 DEF Known, PinKnown
<1>4. PeriodKnown(t)'
  BY OnlyUnnamed DEF PeriodKnown
<1>5. CASE window' # "closed" \/ "updateStatus" \in Names(calls)
  BY <1>3, <1>4, <1>5 DEF Known, PatternKnown, LitKnown, Final
<1>6. CASE ~(window' # "closed" \/ "updateStatus" \in Names(calls))
  <2>1. /\ window = "closed" /\ "on" \notin Names(calls) /\ "off" \notin Names(calls)
        /\ "mState" \notin Names(calls) /\ \A flag \in Flags : flag \notin Names(calls)
    <3>1. /\ window' = window /\ window' = "closed"
          /\ \A name \in {"on", "off", "mState"} \union Flags : name \notin Names(calls)
      BY <1>6
    <3>2. QED
      BY <3>1
  <2>2. Final(t) /\ Names(todo[t]) = {}
    BY <2>1, NamesOfFew DEF Final
  <2>3. mBlinkOnTimeMS = OnTime /\ mBlinkOffTimeMS = OffTime /\ (Connected => mState = TRUE)
    BY <2>2 DEF Known, PatternKnown, LitKnown
  <2>4. PatternKnown(t)'
    BY <1>1, <1>2, <2>1, <2>3, OnlyUnnamed DEF PatternKnown
  <2>5. LitKnown(t)'
    BY <1>1, <1>2, <2>1, <2>3, OnlyUnnamed DEF LitKnown
  <2>6. QED
    BY <1>3, <1>4, <2>4, <2>5 DEF Known
<1>7. QED
  BY <1>5, <1>6

\* A thread moves: nobody is interrupted only if it is alone.
LEMMA SoloMoves ==
    ASSUME Inv, Solo, NEW t \in Threads, MayRun(t), todo' = [todo EXCEPT ![t] = todo'[t]],
           Alone(t) /\ Known(t) => Known(t)'
    PROVE  Solo'
<1> SUFFICES ASSUME ~raced'
             PROVE  (\E u \in Threads : Alone(u)') /\ \A u \in Threads : Alone(u)' => Known(u)'
  BY DEF Solo
<1>1. ~raced /\ Alone(t)
  BY DEF MayRun, Inside, Alone
<1>2. Known(t)'
  BY <1>1 DEF Solo
<1>3. \A u \in Threads \ {t} : todo'[u] = <<>>
  BY <1>1 DEF Alone, Inv, Handlers
<1>4. Alone(t)'
  BY <1>3 DEF Alone
<1>5. ASSUME NEW u \in Threads, Alone(u)', u # t PROVE Known(u)'
  <2>1. todo'[u] = todo'[t]
    BY <1>3, <1>5 DEF Alone
  <2>2. QED
    BY <1>2, <2>1 DEF Known, PinKnown, PeriodKnown, PatternKnown, LitKnown, Final
<1>6. QED
  BY <1>2, <1>4, <1>5

LEMMA StatementSolo == ASSUME Inv, Types, Solo, NEW t \in Threads, Statement(t) PROVE Solo'
<1>1. MayRun(t) /\ todo' = [todo EXCEPT ![t] = todo'[t]]
  BY StatementDoes DEF Statement
<1>2. Known(t) => Known(t)'
  BY PinStep, PeriodStep, PatternStep, LitStep DEF Known
<1>3. QED
  BY <1>1, <1>2, SoloMoves

LEMMA HandlerSolo ==
    ASSUME Inv, Solo, Handler
    PROVE  Solo'
<1>1. ASSUME NEW t \in Threads, NEW calls, Start(t, calls), UNCHANGED net,
             calls # <<>>, Name(Head(calls)) \notin {"pin", "toggle"},
             "start" \notin Names(calls),
             "stop" \in Names(calls) \/ "schedule" \in Names(calls) \/ "updateStatus" \in Names(calls),
             \/ window' # "closed" \/ "updateStatus" \in Names(calls)
             \/ window' = window /\ \A name \in {"on", "off", "mState"} \union Flags :
                                        name \notin Names(calls)
      PROVE  Solo'
  <2>1. /\ todo[t] = <<>> /\ todo'[t] = calls /\ UNCHANGED <<widget, net>>
        /\ MayRun(t) /\ todo' = [todo EXCEPT ![t] = todo'[t]]
    BY <1>1 DEF Start, Inv, Handlers
  <2>2. Known(t) => Known(t)'
    BY <1>1, <2>1, StartKnown
  <2>3. QED
    BY <2>1, <2>2, SoloMoves
<1>2. "app" \in Threads /\ "chip" \in Threads
  BY DEF Threads
<1>3. CASE UpdateLedState
  <2>1. Start("app", UpdateState) /\ UNCHANGED <<net, window>>
    BY <1>3 DEF UpdateLedState
  <2>2. UpdateState # <<>> /\ Name(Head(UpdateState)) = "check"
    BY DEF UpdateState, Name
  <2>3. Names(UpdateState) = {"check", "toggle", "schedule"}
    BY NamesOfCalls
  <2>4. QED
    BY <1>1, <1>2, <2>1, <2>2, <2>3 DEF Flags
<1>4. ASSUME NEW next \in Seq(Statements), Start("app", Set(FALSE) \o next), UNCHANGED net,
             "start" \notin Names(next), window' # "closed" \/ "updateStatus" \in Names(next)
      PROVE  Solo'
  <2>1. PICK first \in Seq(Statements) :
            /\ first = Set(FALSE) /\ first # <<>> /\ Name(first[1]) \notin {"pin", "toggle"}
            /\ Names(first) = {"stop", "off", "on", "mState", "pin"}
    BY CallsOrdered, NamesOfCalls DEF Closing
  <2>2. \A b \in Seq(Statements) : Names(first \o b) = Names(first) \union Names(b)
    BY NamesOfBoth
  <2>3. \A b \in Seq(Statements) : first \o b # <<>> /\ Head(first \o b) = first[1]
    BY <2>1, FirstOfBoth
  <2> DEFINE calls == first \o next
  <2>4. /\ Start("app", calls) /\ calls # <<>> /\ Name(Head(calls)) \notin {"pin", "toggle"}
        /\ Names(calls) = {"stop", "off", "on", "mState", "pin"} \union Names(next)
    BY <1>4, <2>1, <2>2, <2>3
  <2> HIDE DEF calls
  <2>5. QED
    BY <1>1, <1>2, <1>4, <2>4
<1>5. CASE OpenCancelWindow
  <2>1. Start("app", Set(FALSE) \o Blink(500, 500)) /\ UNCHANGED net /\ window' = "open"
    BY <1>5 DEF OpenCancelWindow
  <2>2. 500 \in Times
    BY DEF Times
  <2>3. /\ Blink(500, 500) \in Seq(Statements)
        /\ Names(Blink(500, 500)) = {"stop", "on", "off", "check", "toggle", "schedule"}
    BY <2>2, CallsEndWell, NamesOfCalls
  <2>4. QED
    BY <1>4, <2>1, <2>3
<1>6. CASE CancelInWindow
  <2>1. Start("app", Set(FALSE) \o UpdateStatusLED) /\ UNCHANGED net
    BY <1>6 DEF CancelInWindow
  <2>2. UpdateStatusLED \in Seq(Statements) /\ Names(UpdateStatusLED) = {"updateStatus"}
    BY CallsEndWell, NamesOfCalls
  <2>3. QED
    BY <1>4, <2>1, <2>2
<1>7. CASE ChipEventHandler
  <2>1. ASSUME NEW flags \in Seq(Statements), flags # <<>>, Names(flags) \subseteq Flags,
               Name(flags[1]) \in Flags, Start("chip", flags \o UpdateStatusLED)
        PROVE  Solo'
    <3>1. UpdateStatusLED \in Seq(Statements) /\ Names(UpdateStatusLED) = {"updateStatus"}
      BY CallsEndWell, NamesOfCalls
    <3>2. Names(flags \o UpdateStatusLED) = Names(flags) \union {"updateStatus"}
      BY <3>1, NamesOfBoth
    <3>3. flags \o UpdateStatusLED # <<>> /\ Head(flags \o UpdateStatusLED) = flags[1]
      BY <2>1, <3>1, FirstOfBoth
    <3> DEFINE calls == flags \o UpdateStatusLED
    <3>4. /\ Start("chip", calls) /\ calls # <<>> /\ Name(Head(calls)) \in Flags
          /\ Names(calls) \subseteq Flags \union {"updateStatus"} /\ "updateStatus" \in Names(calls)
      BY <2>1, <3>2, <3>3
    <3>5. UNCHANGED net
      BY <1>7 DEF ChipEventHandler
    <3> HIDE DEF calls
    <3>6. QED
      BY <1>1, <1>2, <3>4, <3>5 DEF Flags
  <2>2. ASSUME NEW have \in BOOLEAN, Start("chip", << <<"ble", have>> >> \o UpdateStatusLED)
        PROVE  Solo'
    <3> DEFINE flags == << <<"ble", have>> >>
    <3>1. flags \in Seq(Statements) /\ flags # <<>> /\ Name(flags[1]) \in Flags
      BY DEF Statements, Name, Flags
    <3>2. Names(flags) \subseteq Flags
      BY NamesOfFew DEF Name, Flags
    <3> HIDE DEF flags
    <3>3. QED
      BY <2>1, <2>2, <3>1, <3>2 DEF flags
  <2>3. ASSUME NEW provisioned \in BOOLEAN, NEW enabled \in BOOLEAN,
               Start("chip", << <<"provisioned", provisioned>>, <<"enabled", enabled>> >>
                             \o UpdateStatusLED)
        PROVE  Solo'
    <3> DEFINE flags == << <<"provisioned", provisioned>>, <<"enabled", enabled>> >>
    <3>1. flags \in Seq(Statements) /\ flags # <<>> /\ Name(flags[1]) \in Flags
      BY DEF Statements, Name, Flags
    <3>2. Names(flags) \subseteq Flags
      BY NamesOfFew DEF Name, Flags
    <3> HIDE DEF flags
    <3>3. QED
      BY <2>1, <2>3, <3>1, <3>2 DEF flags
  <2>4. QED
    BY <1>7, <2>2, <2>3 DEF ChipEventHandler
<1>8. CASE ScheduleFactoryReset
  <2>1. todo["app"] = <<>> /\ todo' = [todo EXCEPT !["app"] = <<>>] /\ MayRun("app")
        /\ UNCHANGED <<widget, net>> /\ window' = "over"
    BY <1>8 DEF ScheduleFactoryReset, Start
  <2>2. todo'["app"] = <<>>
    BY <1>2, <2>1 DEF Inv, Handlers
  <2>3. Known("app") => Known("app")'
    <3>1. Names(<<>>) = {}
      BY NamesOfFew
    <3>2. UNCHANGED <<mBlinkOnTimeMS, mBlinkOffTimeMS, mState, mLedTimer, pin>>
      BY <2>1 DEF widget
    <3>3. PinKnown("app") => PinKnown("app")'
      BY <2>1, <2>2, <3>2 DEF PinKnown
    <3>4. PeriodKnown("app") => PeriodKnown("app")'
      BY <2>1, <2>2, <3>2 DEF PeriodKnown, Period, Blinking
    <3>5. PatternKnown("app")' /\ LitKnown("app")'
      BY <2>1, <2>2 DEF PatternKnown, LitKnown, Final
    <3>6. QED
      BY <3>3, <3>4, <3>5 DEF Known
  <2>4. QED
    BY <1>2, <2>1, <2>2, <2>3, SoloMoves
<1>9. QED
  BY <1>3, <1>5, <1>6, <1>7, <1>8 DEF Handler

LEMMA SoloInit == Init => Solo
<1> SUFFICES ASSUME Init PROVE Solo
  OBVIOUS
<1>1. ASSUME NEW t \in Threads PROVE Alone(t) /\ Known(t)
  <2>1. todo[t] = <<>> /\ \A u \in Threads : todo[u] = <<>>
    BY DEF Init
  <2>2. Names(todo[t]) = {}
    BY <2>1, NamesOfFew
  <2>3. \A name, value : Only(todo[t], name, value)
    BY <2>2, OnlyUnnamed
  <2>4. ~Connected /\ OnTime = 50 /\ OffTime = 950 /\ Period = 50
    BY DEF Init, Connected, OnTime, OffTime, Period
  <2>5. PinKnown(t) /\ LitKnown(t)
    BY <2>1, <2>4 DEF Init, PinKnown, LitKnown
  <2>6. PeriodKnown(t)
    BY <2>2, <2>3, <2>4 DEF Init, PeriodKnown
  <2>7. PatternKnown(t)
    BY <2>2, <2>3, <2>4 DEF Init, PatternKnown
  <2>8. QED
    BY <2>1, <2>5, <2>6, <2>7 DEF Alone, Known
<1>2. QED
  BY <1>1 DEF Solo, Threads

\* The timer may run out at any moment of a handler.
LEMMA StaysKnown ==
    ASSUME NEW t \in Threads, Known(t), UNCHANGED mLedTimer \/ mLedTimer' = Stopped,
           UNCHANGED <<mBlinkOnTimeMS, mBlinkOffTimeMS, mState, pin, net, window, todo>>
    PROVE  Known(t)'
<1>1. PinKnown(t)'
  BY DEF Known, PinKnown
<1>2. Period' = Period /\ Blinking' = Blinking /\ Final(t)' = Final(t)
  BY DEF Period, Blinking, Final
<1>3. Connected' = Connected
  BY DEF Connected
<1>4. OnTime' = OnTime /\ OffTime' = OffTime
  BY <1>3 DEF OnTime, OffTime
<1>5. PeriodKnown(t)'
  BY <1>2 DEF Known, PeriodKnown
<1>6. PatternKnown(t)'
  BY <1>2, <1>4 DEF Known, PatternKnown
<1>7. LitKnown(t)'
  BY <1>2, <1>3 DEF Known, LitKnown
<1>8. QED
  BY <1>1, <1>5, <1>6, <1>7 DEF Known

LEMMA SoloStep == Inv /\ Types /\ Solo /\ [Next]_vars => Solo'
<1> SUFFICES ASSUME Inv, Types, Solo, [Next]_vars PROVE Solo'
  OBVIOUS
<1>1. CASE UNCHANGED vars
  <2>1. UNCHANGED <<mBlinkOnTimeMS, mBlinkOffTimeMS, mState, mLedTimer, pin, net, window, todo, raced>>
    BY <1>1 DEF vars, widget
  <2>2. ASSUME NEW t \in Threads, Known(t) PROVE Known(t)'
    BY <2>1, <2>2, StaysKnown
  <2>3. QED
    BY <2>1, <2>2 DEF Solo, Alone
<1>2. CASE LedStateTimerHandler
  <2>1. /\ mLedTimer' = Stopped
        /\ UNCHANGED <<mBlinkOnTimeMS, mBlinkOffTimeMS, mState, pin, net, window, todo, raced>>
    BY <1>2 DEF LedStateTimerHandler
  <2>2. ASSUME NEW t \in Threads, Known(t) PROVE Known(t)'
    BY <2>1, <2>2, StaysKnown
  <2>3. QED
    BY <2>1, <2>2 DEF Solo, Alone
<1>3. QED
  BY <1>1, <1>2, HandlerSolo, StatementSolo DEF Next, Handler

LEMMA SoloHolds == Spec => [](Inv /\ Types /\ Solo)
<1>1. QED
  BY InitInv, StepInv, TypesInit, TypesStep, SoloInit, SoloStep, PTL DEF Spec

\* Between two handlers, what Solo says of any thread.
LEMMA QuietKnown ==
    ASSUME Solo, ~raced, Quiet
    PROVE  /\ pin = mState
           /\ mLedTimer = Stopped \/ (Blinking => mLedTimer = Period)
           /\ window = "closed" =>
                  /\ mBlinkOnTimeMS = OnTime /\ mBlinkOffTimeMS = OffTime
                  /\ Connected => mState = TRUE
<1>1. Known("app") /\ todo["app"] = <<>>
  BY DEF Solo, Quiet, Alone, Threads
<1>2. Names(todo["app"]) = {}
  BY <1>1, NamesOfFew
<1>3. QED
  BY <1>1, <1>2 DEF Known, PinKnown, PeriodKnown, PatternKnown, LitKnown, Final

\* In a run no handler of which is interrupted by the other thread, a running
\* timer of a blinking widget has the period of the state it is in
\* (ScheduleStateChange).
THEOREM PeriodFollowsStateHolds == Spec => []PeriodFollowsState
<1>1. Solo => PeriodFollowsState
  BY QuietKnown DEF PeriodFollowsState, Period
<1>2. QED
  BY <1>1, SoloHolds, PTL

\* In such a run the LED shows what UpdateStatusLED derives from the flags, however
\* window, cancellation, reset request and connectivity events alternate, except
\* while a window is open and, since the request leaves the signal on the LED,
\* from a reset request on until a later window is cancelled (FunctionHandler,
\* FunctionTimerEventHandler, ChipEventHandler).
THEOREM ShowsConnectivityHolds == Spec => []ShowsConnectivity
<1>1. Solo => ShowsConnectivity
  BY QuietKnown DEF ShowsConnectivity, OnTime, OffTime, Connected
<1>2. QED
  BY <1>1, SoloHolds, PTL

\* README.md:150, "Solid On: the device is fully provisioned", which the run
\* led_preempted refutes: with no window open and no signal left by a reset
\* request, the interruption of one handler by the other thread is the one thing
\* that breaks it.
THEOREM SolidUnlessInterrupted == Spec => [](~raced => SolidOnWhenProvisioned)
<1>1. Solo => (~raced => SolidOnWhenProvisioned)
  BY QuietKnown DEF SolidOnWhenProvisioned, Settled, Connected
<1>2. QED
  BY <1>1, SoloHolds, PTL
=============================================================================
