----------------------------- MODULE MatterWipe -----------------------------
(***************************************************************************)
(* The factory reset itself: FactoryResetEventHandler on the CHIP event    *)
(* loop, DoFullMatterWipe step by step with the steps that can fail, the   *)
(* reset of the MCU, power loss between any two steps, and the next boot   *)
(* as far as it decides whether the device can be commissioned again       *)
(* (main/src/app/factory_reset.cpp, main/src/matter/access_manager.cpp).   *)
(*                                                                         *)
(* store is the non-volatile memory; everything else is lost at a reset.   *)
(* The handler runs on the event loop and never returns, so no other work  *)
(* of the loop runs between its steps: neither a second kFactoryReset nor  *)
(* the settings_save the wipe schedules.                                   *)
(***************************************************************************)
EXTENDS Naturals, Sequences, FiniteSets

CONSTANTS
    Fabrics,        \* fabric indices
    NoFabric,       \* the loop is at no fabric
    MaxPowerLoss    \* bound: power losses in a behaviour

ASSUME FabricAssumption == IsFiniteSet(Fabrics) /\ NoFabric \notin Fabrics
ASSUME PowerAssumption  == MaxPowerLoss \in Nat

\* What is stored per fabric.
Kinds == {"fabric", "acl", "groups", "resumption"}

\* The ways a removal ends: done (or nothing to remove), not implemented by the
\* storage (left, and not an error for sessions and groups), failed (left).
Results == {"ok", "notImplemented", "error"}

VARIABLES
    store,                  \* [Kinds -> SUBSET Fabrics], persistent
    table,                  \* the fabric table in RAM
    window,                 \* the commissioning window is open
    posted,                 \* a kFactoryReset event is in the event loop's queue
    sFactoryResetScheduled,
    saveWork,               \* settings_save is in the event loop's queue
    pc,                     \* where the handler (or the boot) is
    fabricsToDelete,        \* fabrics not yet taken by the loop
    fabricIndex,            \* the fabric the loop is at
    firstError,             \* DoFullMatterWipe's result so far
    powerLosses,
    h                       \* history (see History)

vars == <<store, table, window, posted, sFactoryResetScheduled, saveWork, pc,
          fabricsToDelete, fabricIndex, firstError, powerLosses, h>>

Steps == {"off", "stopped", "loop", "begin", "collect", "next", "resumption", "groups", "delete", "acl",
          "resetAcl", "shutdown", "kvs", "teardown", "reset"}

\* History of the current wipe, and of the fabrics no wipe has finished with.
History ==
    [errors      : Seq({"resumption", "groups", "fabric", "kvs"}), \* failures, in order
     kvsFailed   : BOOLEAN,        \* the last wipe's DoFactoryReset of the KVS failed
     cut         : BOOLEAN,        \* the last wipe was cut by a power loss
     unopened    : BOOLEAN,        \* since the last wipe a boot failed to open the window
     undeleted   : SUBSET Fabrics, \* in the store because fabricTable.Delete failed
     excused     : SUBSET Fabrics] \* a step failed on it, or power was lost at it

Init ==
    /\ store = [k \in Kinds |-> {}]
    /\ table = {} /\ window = FALSE
    /\ posted = FALSE /\ sFactoryResetScheduled = FALSE /\ saveWork = FALSE
    /\ pc = "off"
    /\ fabricsToDelete = {} /\ fabricIndex = NoFabric /\ firstError = "none"
    /\ powerLosses = 0
    /\ h = [errors |-> <<>>, kvsFailed |-> FALSE, cut |-> FALSE, unopened |-> FALSE,
            undeleted |-> {}, excused |-> {}]

(***************************************************************************)
(* Boot.  The server loads the fabric table and, when it is empty,         *)
(* OpenCommissioningWindowIfNeeded opens the window; that this failed is   *)
(* logged only.  Then the event loop runs; but main returns, dies or goes  *)
(* on without the loop when another of its calls fails (see module Boot).  *)
(***************************************************************************)
\* Mutated form: the test of FabricCount is inverted.
OpenWindowIfFabrics ==
    /\ window' \in {FALSE, table' # {}}
    /\ h' = [h EXCEPT !.unopened = table' # {} /\ ~window']

OpenWindowIfNeeded ==
    /\ window' \in {FALSE, table' = {}}
    /\ h' = [h EXCEPT !.unopened = table' = {} /\ ~window']

Boot ==
    /\ pc = "off"
    /\ \/ /\ pc' = "loop"
          /\ table' = store["fabric"]
          /\ OpenWindowIfNeeded
       \/ /\ pc' = "stopped"
          /\ UNCHANGED <<table, window, h>>
    /\ UNCHANGED <<store, posted, sFactoryResetScheduled, saveWork, fabricsToDelete, fabricIndex,
                   firstError, powerLosses>>

\* The commissioner, through the stack: adds a fabric while the window is open.
Commission(f) ==
    /\ pc = "loop" /\ window /\ f \notin table
    /\ store' = [k \in Kinds |-> store[k] \union {f}]
    /\ table' = table \union {f}
    /\ window' = FALSE
    /\ h' = [h EXCEPT !.undeleted = @ \ {f}, !.excused = @ \ {f}]
    /\ UNCHANGED <<posted, sFactoryResetScheduled, saveWork, pc, fabricsToDelete, fabricIndex,
                   firstError, powerLosses>>

\* A commissioned device opens another window on an administrator's request,
\* and a window ends after 15 minutes.
ToggleWindow ==
    /\ pc = "loop"
    /\ table # {} \/ window
    /\ window' = ~window
    /\ UNCHANGED <<store, table, posted, sFactoryResetScheduled, saveWork, pc, fabricsToDelete,
                   fabricIndex, firstError, powerLosses, h>>

\* The stack answers ScheduleFactoryReset with a kFactoryReset event.
PostFactoryReset ==
    /\ pc = "loop" /\ ~posted
    /\ posted' = TRUE
    /\ UNCHANGED <<store, table, window, sFactoryResetScheduled, saveWork, pc, fabricsToDelete,
                   fabricIndex, firstError, powerLosses, h>>

(***************************************************************************)
(* FactoryResetEventHandler, DoFactoryResetLikeNordic.                     *)
(***************************************************************************)
DoFactoryResetLikeNordic ==
    /\ pc = "loop" /\ posted
    /\ posted' = FALSE
    /\ pc' = IF sFactoryResetScheduled THEN "loop" ELSE "begin"
    /\ sFactoryResetScheduled' = TRUE
    /\ h' = [h EXCEPT !.errors = <<>>, !.kvsFailed = FALSE, !.cut = FALSE, !.unopened = FALSE]
    /\ UNCHANGED <<store, table, window, saveWork, fabricsToDelete, fabricIndex, firstError,
                   powerLosses>>

\* A step of DoFullMatterWipe that only moves on.
Go(from, to) == pc = from /\ pc' = to

\* Variables no step between begin and reset writes.
OutsideWipe == <<posted, sFactoryResetScheduled, powerLosses>>

\* The fail-safe expires, the window closes, every session is released.
BeginWipe ==
    /\ Go("begin", "collect")
    /\ window' = FALSE
    /\ firstError' = "none"
    /\ UNCHANGED <<store, table, saveWork, fabricsToDelete, fabricIndex, h, OutsideWipe>>

\* Mutated form: entries that are not initialised are collected as well.
CollectEveryEntry ==
    /\ Go("collect", "next")
    /\ fabricsToDelete' = table \union {NoFabric}
    /\ UNCHANGED <<store, table, window, saveWork, fabricIndex, firstError, h, OutsideWipe>>

CollectFabrics ==
    /\ Go("collect", "next")
    /\ fabricsToDelete' = table
    /\ UNCHANGED <<store, table, window, saveWork, fabricIndex, firstError, h, OutsideWipe>>

NextFabric ==
    /\ pc = "next"
    /\ IF fabricsToDelete = {}
       THEN /\ pc' = "resetAcl"
            /\ UNCHANGED <<fabricsToDelete, fabricIndex>>
       ELSE \E f \in fabricsToDelete :
                /\ pc' = "resumption"
                /\ fabricIndex' = f
                /\ fabricsToDelete' = fabricsToDelete \ {f}
    /\ UNCHANGED <<store, table, window, saveWork, firstError, h, OutsideWipe>>

\* The first error is the one that is returned.
\* (Mutated form: the last error is.)
KeepLast(source) == firstError' = source

KeepFirst(source) == firstError' = IF firstError = "none" THEN source ELSE firstError

Remove(kind) == [store EXCEPT ![kind] = @ \ {fabricIndex}]

Failed(source) ==
    [h EXCEPT !.errors = Append(@, source), !.excused = @ \union {fabricIndex}]

\* resumption->DeleteAll and groupProvider->RemoveFabric.
RemoveStored(from, to) ==
    /\ Go(from, to)
    /\ \E result \in Results :
        \/ /\ result = "ok"
           /\ store' = Remove(from)
           /\ UNCHANGED <<firstError, h>>
        \/ /\ result = "notImplemented"
           /\ h' = [h EXCEPT !.excused = @ \union {fabricIndex}]
           /\ UNCHANGED <<store, firstError>>
        \/ /\ result = "error"
           /\ KeepFirst(from)
           /\ h' = Failed(from)
           /\ UNCHANGED store
    /\ UNCHANGED <<table, window, saveWork, fabricsToDelete, fabricIndex, OutsideWipe>>

\* Mutated form: the access-control entries go before the fabric does.
RemoveGroupsAndAcl ==
    /\ Go("groups", "delete")
    /\ store' = [Remove("groups") EXCEPT !["acl"] = @ \ {fabricIndex}]
    /\ UNCHANGED <<table, window, saveWork, fabricsToDelete, fabricIndex, firstError, h,
                   OutsideWipe>>

DeleteResumption == RemoveStored("resumption", "groups")
RemoveGroups     == RemoveStored("groups", "delete")

\* fabricTable.Delete.
DeleteFabric ==
    /\ Go("delete", "acl")
    /\ \/ /\ store' = Remove("fabric")
          /\ table' = table \ {fabricIndex}
          /\ h' = [h EXCEPT !.undeleted = @ \ {fabricIndex}]
          /\ UNCHANGED firstError
       \/ /\ KeepFirst("fabric")
          /\ h' = [Failed("fabric") EXCEPT !.undeleted = @ \union {fabricIndex}]
          /\ UNCHANGED <<store, table>>
    /\ UNCHANGED <<window, saveWork, fabricsToDelete, fabricIndex, OutsideWipe>>

\* Mutated form: the access-control entries are forgotten.
DeleteAclForgotten ==
    /\ Go("acl", "next")
    /\ fabricIndex' = NoFabric
    /\ UNCHANGED <<store, table, window, saveWork, fabricsToDelete, firstError, h, OutsideWipe>>

\* DeleteAllEntriesForFabric: its result is ignored.
DeleteAcl ==
    /\ Go("acl", "next")
    /\ fabricIndex' = NoFabric
    /\ \/ store' = Remove("acl") /\ UNCHANGED h
       \/ UNCHANGED store /\ h' = [h EXCEPT !.excused = @ \union {fabricIndex}]
    /\ UNCHANGED <<table, window, saveWork, fabricsToDelete, firstError, OutsideWipe>>

\* ResetAccessControlToDefault, NotifyAclChanged: nothing that is stored.
ResetAcl ==
    /\ Go("resetAcl", "shutdown")
    /\ UNCHANGED <<store, table, window, saveWork, fabricsToDelete, fabricIndex, firstError, h,
                   OutsideWipe>>

ShutdownServer ==
    /\ Go("shutdown", "kvs")
    /\ table' = {}
    /\ UNCHANGED <<store, window, saveWork, fabricsToDelete, fabricIndex, firstError, h,
                   OutsideWipe>>

\* KeyValueStoreMgrImpl().DoFactoryReset.
ResetKvs ==
    /\ Go("kvs", "teardown")
    /\ \/ /\ store' = [k \in Kinds |-> {}]
          /\ h' = [h EXCEPT !.undeleted = {}, !.excused = {}]
          /\ UNCHANGED firstError
       \/ /\ KeepFirst("kvs")
          /\ h' = [h EXCEPT !.errors = Append(@, "kvs"), !.kvsFailed = TRUE]
          /\ UNCHANGED store
    /\ UNCHANGED <<table, window, saveWork, fabricsToDelete, fabricIndex, OutsideWipe>>

\* DestroyEventManagement, DisarmFailSafe, ScheduleWork(settings_save), return.
Teardown ==
    /\ Go("teardown", "reset")
    /\ saveWork' = TRUE
    /\ UNCHANGED <<store, table, window, fabricsToDelete, fabricIndex, firstError, h, OutsideWipe>>

\* Everything in RAM is gone.
LoseRam ==
    /\ pc' = "off"
    /\ table' = {} /\ window' = FALSE
    /\ posted' = FALSE /\ sFactoryResetScheduled' = FALSE /\ saveWork' = FALSE
    /\ fabricsToDelete' = {} /\ fabricIndex' = NoFabric /\ firstError' = "none"
    /\ UNCHANGED store

\* Mutated form: the MCU is reset only after a wipe without error.
SystemResetOnSuccess ==
    /\ pc = "reset" /\ firstError = "none"
    /\ LoseRam
    /\ UNCHANGED <<powerLosses, h>>

\* NVIC_SystemReset, whatever DoFullMatterWipe returned.
SystemReset ==
    /\ pc = "reset"
    /\ LoseRam
    /\ UNCHANGED <<powerLosses, h>>

PowerLoss ==
    /\ pc \notin {"off", "stopped"}
    /\ powerLosses < MaxPowerLoss
    /\ powerLosses' = powerLosses + 1
    /\ h' = [h EXCEPT !.cut = @ \/ pc # "loop",
                      !.excused = IF fabricIndex = NoFabric THEN @ ELSE @ \union {fabricIndex}]
    /\ LoseRam

\* The power of a device whose boot has stopped goes.
PowerCycle ==
    /\ pc = "stopped"
    /\ LoseRam
    /\ UNCHANGED <<powerLosses, h>>

WipeStep ==
    \/ BeginWipe \/ CollectFabrics \/ NextFabric
    \/ DeleteResumption \/ RemoveGroups \/ DeleteFabric \/ DeleteAcl
    \/ ResetAcl \/ ShutdownServer \/ ResetKvs \/ Teardown \/ SystemReset

Next ==
    \/ Boot \/ ToggleWindow \/ PostFactoryReset \/ DoFactoryResetLikeNordic
    \/ \E f \in Fabrics : Commission(f)
    \/ WipeStep \/ PowerLoss \/ PowerCycle

Spec == Init /\ [][Next]_vars

\* The event loop takes posted events and runs its handler on; a device that is
\* off is powered again.
Fairness == WF_vars(Boot) /\ WF_vars(DoFactoryResetLikeNordic) /\ WF_vars(WipeStep)

FairSpec == Spec /\ Fairness

(***************************************************************************)
(* Properties.                                                             *)
(***************************************************************************)
TypeOK ==
    /\ store \in [Kinds -> SUBSET Fabrics]
    /\ table \subseteq Fabrics
    /\ {window, posted, sFactoryResetScheduled, saveWork} \subseteq BOOLEAN
    /\ pc \in Steps
    /\ fabricsToDelete \subseteq Fabrics
    /\ fabricIndex \in Fabrics \union {NoFabric}
    /\ firstError \in {"none", "resumption", "groups", "fabric", "kvs"}
    /\ powerLosses \in 0..MaxPowerLoss
    /\ h \in History

Empty == \A k \in Kinds : store[k] = {}

\* DoFullMatterWipe returns the first error any reporting step met, and no error
\* only over an empty store, although removals before it were skipped or ignored.
ResultIsHonest ==
    pc = "reset" =>
        /\ firstError = IF h.errors = <<>> THEN "none" ELSE Head(h.errors)
        /\ firstError = "none" => Empty

\* A fabric is stored whole or not at all, except the one the loop is at and
\* those a step failed on or power was lost at: one power loss damages at most
\* one fabric.
Whole(f) == \/ \A k \in Kinds : f \in store[k]
            \/ \A k \in Kinds : f \notin store[k]

OneFabricAtATime == \A f \in Fabrics : Whole(f) \/ f = fabricIndex \/ f \in h.excused

\* A fabric that is still in the fabric table has lost its access-control
\* entries only if its deletion failed: power loss alone never leaves the
\* device with a fabric nobody may administer (Delete comes before
\* DeleteAllEntriesForFabric).
NoFabricWithoutAcl == \A f \in store["fabric"] : f \in store["acl"] \/ f \in h.undeleted

\* A wipe that starts ends in a boot that opens the commissioning window on a
\* device without fabrics, unless power was lost in the wipe, both the deletion of
\* a fabric and the reset of the key-value store failed, that boot stopped before
\* its event loop, or it could not open the window.  (DoFullMatterWipe,
\* OpenCommissioningWindowIfNeeded.  The window is opened without a button being
\* pressed, which README.md:63-65 does not expect: see Boot.AdvertisingIsManual.)
WipeEndsCommissionable ==
    pc = "begin" ~> \/ pc = "loop" /\ window /\ store["fabric"] = {}
                    \/ h.cut
                    \/ h.kvsFailed /\ h.undeleted # {}
                    \/ pc = "stopped"
                    \/ h.unopened

\* The wipe, its failures and the power losses keep the promise of FactoryReset:
\* from the moment the handler takes over nothing is commissioned, no window
\* opens, fabrics only go, and the way out is the reset, which comes whatever
\* fails.  (The loop serves no one once the handler runs: the window counts as
\* closed from there on.)
Phase == CASE pc = "off" -> "off" [] pc = "loop" -> "running" [] pc = "stopped" -> "stopped"
           [] OTHER -> "wiping"

Promise == INSTANCE FactoryReset WITH
    phase <- Phase, commissioned <- store["fabric"] # {}, window <- window /\ pc # "begin"

KeepsResetPromise == Promise!FairSpec
=============================================================================
