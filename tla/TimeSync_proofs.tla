-------------------------- MODULE TimeSync_proofs --------------------------
(***************************************************************************)
(* Proofs about TimeSync, for integers of any width: type correctness,     *)
(* that no copy of the time has wrapped around, and that a subscriber is   *)
(* told of every change but that of TimeSource.                            *)
(***************************************************************************)
EXTENDS TimeSync, TLAPS

\* Modulo does nothing to a number that is small enough.  (A cast that fits.)
LEMMA ModSmall == ASSUME NEW n \in Nat, NEW m \in Nat, n <= m
                  PROVE  n % (m + 1) = n
  OBVIOUS

\* Modulo subtracts the modulus once from a number less than twice as large.
LEMMA ModOnce == ASSUME NEW n \in Nat, NEW m \in Nat, n > m, n <= 2 * m + 1
                 PROVE  n % (m + 1) = n - (m + 1)
  OBVIOUS

\* Division by a positive number stays at or below the dividend's range.
LEMMA DivNat == ASSUME NEW n \in Nat, NEW d \in Nat \ {0}
                PROVE  n \div d \in Nat
  OBVIOUS

\* ChipEpochToUnixEpochMicros: a time that converts does so without wrapping.
\* (HandleSetUtcTimeCommand relies on it for the clock.)
LEMMA ConvertsExactly ==
    ASSUME NEW t \in Times, Converts(t)
    PROVE  /\ UnixMicros(t) = t + EpochOffset
           /\ UnixMicros(t) \in 0..MaxMicros
  <1>1. /\ MaxMicros \in Nat /\ EpochOffset \in 1..MaxMicros /\ t \in 0..MaxMicros
    BY WidthAssumption, TimesAssumption
  <1>2. CASE t + EpochOffset <= MaxMicros
    <2>1. t + EpochOffset \in Nat
      BY <1>1
    <2>2. (t + EpochOffset) % (MaxMicros + 1) = t + EpochOffset
      BY ONLY <1>1, <1>2, <2>1, ModSmall
    <2> QED BY <1>1, <1>2, <2>2 DEF UnixMicros
  <1>3. CASE t + EpochOffset > MaxMicros
    <2>1. UnixMicros(t) = t + EpochOffset - (MaxMicros + 1)
      BY <1>1, <1>3, ModOnce DEF UnixMicros
    <2>2. UnixMicros(t) < EpochOffset
      BY <1>1, <2>1
    <2> QED BY <1>1, <2>1, <2>2 DEF Converts
  <1> QED BY <1>1, <1>2, <1>3

\* The seconds that are stored are the seconds of the time.
LEMMA StoresExactly ==
    ASSUME NEW t \in Times, t \div MicrosPerSecond <= MaxSeconds
    PROVE  /\ (t \div MicrosPerSecond) % (MaxSeconds + 1) = t \div MicrosPerSecond
           /\ t \div MicrosPerSecond \in 0..MaxSeconds
  <1>1. /\ MaxSeconds \in Nat /\ MicrosPerSecond \in Nat \ {0} /\ t \in Nat
    BY WidthAssumption, TimesAssumption
  <1>2. t \div MicrosPerSecond \in Nat
    BY <1>1, DivNat
  <1> QED BY <1>1, <1>2, ModSmall

Inv == TypeOK /\ TimesAreExact

LEMMA InitInv == Init => Inv
  BY TimesAssumption DEF Init, Inv, TypeOK, TimesAreExact, Attributes, AttributeList

\* Every step keeps the types and the exactness of the three copies.
LEMMA StepInv == Inv /\ [Next]_vars => Inv'
  <1> SUFFICES ASSUME Inv, [Next]_vars PROVE Inv'
    OBVIOUS
  <1> USE DEF Inv
  <1>1. ASSUME NEW t \in Times, NEW source \in TimeSources \union {Absent}, SetUTCTime(t, source)
        PROVE  Inv'
    <2>1. mTimeSource' \in TimeSources \union {kNone}
      BY <1>1 DEF SetUTCTime
    <2>2. lastKnownGood' \in 0..MaxSeconds \union {NoTime} /\ lkgFrom' \in Times \union {NoTime}
      BY <1>1, StoresExactly DEF SetUTCTime, StoreLastKnownGood, TypeOK
    <2>3. lastKnownGood' # NoTime =>
              lkgFrom' \in Times /\ lastKnownGood' = lkgFrom' \div MicrosPerSecond
      BY <1>1, StoresExactly DEF SetUTCTime, StoreLastKnownGood, TimesAreExact
    <2>4. clock' \in 0..MaxMicros \union {NoTime} /\ clockFrom' \in Times \union {NoTime}
      BY <1>1, ConvertsExactly DEF SetUTCTime, SetClock, TypeOK
    <2>5. clock' # NoTime => clockFrom' \in Times /\ clock' = clockFrom' + EpochOffset
      BY <1>1, ConvertsExactly DEF SetUTCTime, SetClock, TimesAreExact
    <2>6. mUtcTime' = t /\ mUtcTime' + EpochOffset <= MaxMicros
      BY <1>1, ConvertsExactly, WidthAssumption DEF SetUTCTime
    <2>7. dirty' \subseteq AttributeList
      BY <1>1 DEF SetUTCTime, SetDirty, TypeOK, AttributeList
    <2>8. status' \in {"none", "Success", "InvalidCommand"} /\ subscribed' \in BOOLEAN
          /\ DOMAIN seen' = Attributes
      BY <1>1 DEF SetUTCTime, TypeOK
    <2> QED BY <2>1, <2>2, <2>3, <2>4, <2>5, <2>6, <2>7, <2>8 DEF TypeOK, TimesAreExact
  <1>2. ASSUME NEW t \in Times, RefuseUTCTime(t) PROVE Inv'
    BY <1>2 DEF RefuseUTCTime, TypeOK, TimesAreExact, times
  <1>3. CASE Subscribe
    BY <1>3 DEF Subscribe, TypeOK, TimesAreExact, times
  <1>4. CASE Report
    BY <1>4 DEF Report, TypeOK, TimesAreExact, times
  <1>5. CASE EndSubscription
    BY <1>5 DEF EndSubscription, TypeOK, TimesAreExact, times
  <1>6. CASE Reboot
    BY <1>6 DEF Reboot, TypeOK, TimesAreExact
  <1>7. CASE UNCHANGED vars
    BY <1>7 DEF vars, TypeOK, TimesAreExact
  <1> QED BY <1>1, <1>2, <1>3, <1>4, <1>5, <1>6, <1>7 DEF Next

\* TimeSync is type correct: every value fits its width.
THEOREM TypeCorrect == Spec => []TypeOK
  <1>1. Inv => TypeOK
    BY DEF Inv
  <1> QED BY InitInv, StepInv, <1>1, PTL DEF Spec

\* No copy of the time has wrapped around (HandleSetUtcTimeCommand), whatever
\* the widths are and whatever times clients send.
THEOREM TimesAreExactHolds == Spec => []TimesAreExact
  <1>1. Inv => TimesAreExact
    BY DEF Inv
  <1> QED BY InitInv, StepInv, <1>1, PTL DEF Spec

\* What Read serves, but for the time and its source, never changes: only the
\* two values SetUTCTime stores decide it.  (TimeSyncDelegate::Read.)
LEMMA ReadDependsOn ==
    ASSUME NEW a \in AttributeList \ {"TimeSource"}, a # "UTCTime" \/ mUtcTime' = mUtcTime
    PROVE  Read(a)' = Read(a)
  <1>1. a = "UTCTime" \/ a = "Granularity" \/ a \in Globals
    BY DEF AttributeList
  <1>2. "UTCTime" \notin Globals /\ "TimeSource" \notin Globals /\ "Granularity" \notin Globals
    BY DEF Globals
  <1> QED BY <1>1, <1>2 DEF Read

\* Every step keeps a subscriber current: a command marks what it changes, and a
\* priming or a report reads what is served.
LEMMA StepCurrent == SubscriberIsCurrent /\ [Next]_vars => SubscriberIsCurrent'
  <1> SUFFICES ASSUME SubscriberIsCurrent, [Next]_vars, subscribed',
                      NEW a \in AttributeList \ {"TimeSource"}, a \notin dirty'
               PROVE  seen'[a] = Read(a)'
    BY DEF SubscriberIsCurrent
  <1>0. a \in Attributes
    BY DEF AttributeList, Attributes
  <1>1. ASSUME NEW t \in Times, NEW source \in TimeSources \union {Absent}, SetUTCTime(t, source)
        PROVE  seen'[a] = Read(a)'
    <2>1. a # "UTCTime" /\ a \notin dirty /\ subscribed /\ seen' = seen
      BY <1>1 DEF SetUTCTime, SetDirty
    <2> QED BY <2>1, ReadDependsOn DEF SubscriberIsCurrent
  <1>2. ASSUME NEW t \in Times, RefuseUTCTime(t) PROVE seen'[a] = Read(a)'
    BY <1>2, ReadDependsOn DEF RefuseUTCTime, SubscriberIsCurrent
  <1>3. CASE Subscribe
    BY <1>0, <1>3, ReadDependsOn DEF Subscribe
  <1>4. CASE Report
    <2>1. mUtcTime' = mUtcTime /\ subscribed
      BY <1>4 DEF Report
    <2>2. seen'[a] = IF a \in dirty THEN Read(a) ELSE seen[a]
      BY <1>0, <1>4 DEF Report
    <2> QED BY <2>1, <2>2, ReadDependsOn DEF SubscriberIsCurrent
  <1>5. CASE EndSubscription
    BY <1>5 DEF EndSubscription
  <1>6. CASE Reboot
    BY <1>6 DEF Reboot
  <1>7. CASE UNCHANGED vars
    BY <1>7, ReadDependsOn DEF vars, SubscriberIsCurrent
  <1> QED BY <1>1, <1>2, <1>3, <1>4, <1>5, <1>6, <1>7 DEF Next

\* What a subscriber knows is what Read serves or is about to be reported
\* (HandleSetUtcTimeCommand, Read), for every attribute but TimeSource.
THEOREM SubscriberIsCurrentHolds == Spec => []SubscriberIsCurrent
  <1>1. Init => SubscriberIsCurrent
    BY DEF Init, SubscriberIsCurrent
  <1> QED BY <1>1, StepCurrent, PTL DEF Spec
=============================================================================
