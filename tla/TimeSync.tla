------------------------------ MODULE TimeSync ------------------------------
(***************************************************************************)
(* TimeSyncDelegate (main/src/matter/ep0_timesync_delegate.cpp): the       *)
(* SetUTCTime command on the CHIP event loop, the copies of the time it    *)
(* leaves in the delegate, in the Last Known Good Time and in the          *)
(* real-time clock, and a subscriber that is told of changes only through  *)
(* the attributes the handler marks dirty.                                 *)
(*                                                                         *)
(* Integers have the widths of the code, as constants: microseconds go up  *)
(* to MaxMicros (2^64 - 1), seconds up to MaxSeconds (UINT32_MAX).         *)
(***************************************************************************)
EXTENDS Integers

CONSTANTS
    MaxMicros,        \* the largest uint64_t
    MaxSeconds,       \* UINT32_MAX
    MicrosPerSecond,  \* kMicrosecondsPerSecond
    EpochOffset,      \* from the Unix to the CHIP epoch, in microseconds
    Times,            \* the UTCTime arguments a client sends
    TimeSources,      \* the TimeSourceEnum arguments a client sends
    kNone,            \* TimeSourceEnum::kNone
    Absent,           \* the optional argument is left out
    NoTime            \* no value yet

ASSUME WidthAssumption ==
    /\ MaxMicros \in Nat /\ MaxSeconds \in Nat /\ MicrosPerSecond \in Nat \ {0}
    /\ EpochOffset \in 1..MaxMicros
ASSUME TimesAssumption == Times \subseteq 0..MaxMicros /\ NoTime \notin Int
ASSUME SourceAssumption == Absent \notin TimeSources

VARIABLES
    mUtcTime,       \* CHIP-epoch microseconds, or NoTime
    mTimeSource,
    lastKnownGood,  \* Last Known Good Time in CHIP-epoch seconds, persistent; NoTime: the build's
    clock,          \* the real-time clock, set to Unix microseconds; NoTime: counting from boot
    status,         \* of the last SetUTCTime
    subscribed,
    seen,           \* what the subscriber was told, by attribute
    dirty,          \* attributes the reporting engine has still to report
    lkgFrom,        \* history: the accepted time lastKnownGood was set from
    clockFrom       \* history: the accepted time clock was set from

vars == <<mUtcTime, mTimeSource, lastKnownGood, clock, status, subscribed, seen, dirty,
          lkgFrom, clockFrom>>

times == <<lastKnownGood, clock, lkgFrom, clockFrom>>

(***************************************************************************)
(* Read.                                                                   *)
(***************************************************************************)
Globals == {"FeatureMap", "ClusterRevision", "AttributeList", "AcceptedCommandList",
            "GeneratedCommandList"}

Attributes == {"UTCTime", "Granularity", "TimeSource", "TimeZone", "DSTOffset"} \union Globals

\* No value is encoded.
UnsupportedAttribute == <<>>

AttributeList == {"UTCTime", "Granularity", "TimeSource"} \union Globals

Read(attribute) ==
    CASE attribute = "UTCTime"     -> <<mUtcTime>>
      [] attribute = "TimeSource"  -> <<mTimeSource>>
      [] attribute = "Granularity" -> <<"NoTimeGranularity">>
      [] attribute \in Globals     -> <<"constant">>
      [] OTHER                     -> UnsupportedAttribute

Init ==
    /\ mUtcTime = NoTime /\ mTimeSource = kNone
    /\ lastKnownGood = NoTime /\ clock = NoTime
    /\ status = "none"
    /\ subscribed = FALSE /\ seen = [a \in Attributes |-> UnsupportedAttribute] /\ dirty = {}
    /\ lkgFrom = NoTime /\ clockFrom = NoTime

(***************************************************************************)
(* HandleSetUtcTimeCommand.                                                *)
(***************************************************************************)
\* ChipEpochToUnixEpochMicros: 64-bit addition, refused when it wraps around.
\* (Mutated form: the sum does not wrap, so the test never refuses.)
UnixMicrosWide(t) == t + EpochOffset

UnixMicros(t) == (t + EpochOffset) % (MaxMicros + 1)
Converts(t)   == UnixMicros(t) >= EpochOffset

\* Mutated form: the seconds are cast without the test of their width.
StoreTruncated(t) ==
    /\ lastKnownGood' = (t \div MicrosPerSecond) % (MaxSeconds + 1)
    /\ lkgFrom' = t

\* SetLastKnownGoodChipEpochTime, when the seconds fit; the storage may refuse it.
StoreLastKnownGood(t) ==
    IF t \div MicrosPerSecond <= MaxSeconds
    THEN \/ /\ lastKnownGood' = (t \div MicrosPerSecond) % (MaxSeconds + 1)
            /\ lkgFrom' = t
         \/ UNCHANGED <<lastKnownGood, lkgFrom>>
    ELSE UNCHANGED <<lastKnownGood, lkgFrom>>

\* Mutated form: nothing is marked dirty.
NothingDirty == UNCHANGED dirty

SetDirty == dirty' = dirty \union {"UTCTime"}

\* SetClock_RealTime may fail or be unsupported.
SetClock(t) ==
    \/ clock' = UnixMicros(t) /\ clockFrom' = t
    \/ UNCHANGED <<clock, clockFrom>>

\* The time is stored, then copied.
SetUTCTime(t, source) ==
    /\ Converts(t)
    /\ status' = "Success"
    /\ mUtcTime' = t
    /\ mTimeSource' = IF source = Absent THEN kNone ELSE source
    /\ StoreLastKnownGood(t)
    /\ SetClock(t)
    /\ SetDirty
    /\ UNCHANGED <<subscribed, seen>>

RefuseUTCTime(t) ==
    /\ ~Converts(t)
    /\ status' = "InvalidCommand"
    /\ UNCHANGED <<mUtcTime, mTimeSource, times, subscribed, seen, dirty>>

(***************************************************************************)
(* The stack around the delegate.                                          *)
(***************************************************************************)
\* A subscription is primed with every listed attribute.
Subscribe ==
    /\ ~subscribed
    /\ subscribed' = TRUE
    /\ seen' = [a \in Attributes |-> IF a \in AttributeList THEN Read(a) ELSE UnsupportedAttribute]
    /\ dirty' = {}
    /\ UNCHANGED <<mUtcTime, mTimeSource, times, status>>

\* The reporting engine reads the dirty attributes and reports them.
Report ==
    /\ subscribed /\ dirty # {}
    /\ seen' = [a \in Attributes |-> IF a \in dirty THEN Read(a) ELSE seen[a]]
    /\ dirty' = {}
    /\ UNCHANGED <<mUtcTime, mTimeSource, times, status, subscribed>>

\* A report or its answer is lost: the subscription ends.
EndSubscription ==
    /\ subscribed
    /\ subscribed' = FALSE
    /\ UNCHANGED <<mUtcTime, mTimeSource, times, status, seen, dirty>>

\* Reset and boot: main sets the clock to the monotonic time.
Reboot ==
    /\ mUtcTime' = NoTime /\ mTimeSource' = kNone
    /\ clock' = NoTime /\ clockFrom' = NoTime /\ status' = "none"
    /\ subscribed' = FALSE /\ dirty' = {}
    /\ UNCHANGED <<lastKnownGood, lkgFrom, seen>>

Next ==
    \/ \E t \in Times, source \in TimeSources \union {Absent} : SetUTCTime(t, source)
    \/ \E t \in Times : RefuseUTCTime(t)
    \/ Subscribe \/ Report \/ EndSubscription \/ Reboot

Spec == Init /\ [][Next]_vars

(***************************************************************************)
(* Properties.                                                             *)
(***************************************************************************)
TypeOK ==
    /\ mUtcTime \in Times \union {NoTime}
    /\ mTimeSource \in TimeSources \union {kNone}
    /\ lastKnownGood \in 0..MaxSeconds \union {NoTime}
    /\ clock \in 0..MaxMicros \union {NoTime}
    /\ status \in {"none", "Success", "InvalidCommand"}
    /\ subscribed \in BOOLEAN
    /\ DOMAIN seen = Attributes
    /\ dirty \subseteq AttributeList
    /\ {lkgFrom, clockFrom} \subseteq Times \union {NoTime}

\* The time served can be converted, and the Last Known Good Time and the clock
\* are the accepted times they were set from, in their own units: no addition and
\* no cast has wrapped around, for any 64-bit argument.  (HandleSetUtcTimeCommand.)
TimesAreExact ==
    /\ mUtcTime # NoTime => mUtcTime + EpochOffset <= MaxMicros
    /\ lastKnownGood # NoTime =>
           /\ lkgFrom \in Times
           /\ lastKnownGood = lkgFrom \div MicrosPerSecond
    /\ clock # NoTime => clockFrom \in Times /\ clock = clockFrom + EpochOffset

\* What a subscriber was told is what Read serves, or is about to be reported.
\* TimeSource is the exception: HandleSetUtcTimeCommand changes it without
\* marking it dirty.
SubscriberIsCurrent ==
    subscribed =>
        \A a \in AttributeList \ {"TimeSource"} : a \in dirty \/ seen[a] = Read(a)
=============================================================================
