-------------------------- MODULE MatterWipe_proofs --------------------------
(***************************************************************************)
(* Proofs about MatterWipe, for any set of fabrics and any number of power *)
(* losses: type correctness, that the result of the wipe is honest, that   *)
(* it damages one fabric at a time and leaves none without its access-     *)
(* control entries, and that the wipe implements FactoryReset.             *)
(*                                                                         *)
(* None of the three safety invariants is inductive alone: they speak of   *)
(* the end of a fabric or of the wipe, and what holds there was decided by *)
(* the steps before.  Removed and FirstKept carry it along.                *)
(***************************************************************************)
EXTENDS MatterWipe, TLAPS

\* The steps at a fabric.
AtFabric == {"resumption", "groups", "delete", "acl"}

\* The loop is at a fabric exactly in these steps.  (DoFullMatterWipe)
IndexKnown == IF pc \in AtFabric THEN fabricIndex \in Fabrics ELSE fabricIndex = NoFabric

\* What the steps at the fabric have removed, unless one of them failed.
Removed ==
    /\ fabricIndex \in h.excused \/
           /\ pc \in {"groups", "delete", "acl"} => fabricIndex \notin store["resumption"]
           /\ pc \in {"delete", "acl"} => fabricIndex \notin store["groups"]
           /\ pc = "acl" => fabricIndex \notin store["fabric"]
    /\ pc = "acl" => fabricIndex \notin store["fabric"] \/ fabricIndex \in h.undeleted

\* firstError is the first of the errors of this wipe, and the store is empty
\* once the key-value store was reset without error.
FirstKept ==
    /\ pc = "begin" => h.errors = <<>>
    /\ pc \notin {"off", "stopped", "loop", "begin"} =>
           firstError = IF h.errors = <<>> THEN "none" ELSE Head(h.errors)
    /\ pc \in {"teardown", "reset"} /\ firstError = "none" => Empty

\* The loop serves from the fabrics that are stored; a wipe has closed the window.
LoopServes ==
    /\ pc = "loop" => table = store["fabric"]
    /\ pc \notin {"loop", "begin"} => ~window

Inv == /\ TypeOK /\ IndexKnown /\ Removed /\ FirstKept /\ LoopServes
       /\ OneFabricAtATime /\ NoFabricWithoutAcl

(***************************************************************************)
(* The history and the first error.                                        *)
(***************************************************************************)
Sources == {"resumption", "groups", "fabric", "kvs"}

\* The first element of a sequence stays when one is appended.  (h.errors)
LEMMA FirstOfAppend ==
    ASSUME NEW S, NEW q \in Seq(S), NEW e \in S
    PROVE  /\ Append(q, e) \in Seq(S) /\ Append(q, e) # <<>>
           /\ Head(Append(q, e)) = IF q = <<>> THEN e ELSE Head(q)
           /\ q # <<>> => Head(q) \in S
<1>1. CASE q = <<>>
  BY <1>1
<1>2. CASE q # <<>>
  BY <1>2
<1>3. QED
  BY <1>1, <1>2

\* KeepFirst adds an error to those of this wipe: the first one stays.
LEMMA FirstStays ==
    ASSUME NEW source \in Sources, KeepFirst(source), h.errors \in Seq(Sources),
           firstError = IF h.errors = <<>> THEN "none" ELSE Head(h.errors)
    PROVE  /\ firstError' = Head(Append(h.errors, source))
           /\ firstError' \in Sources
<1>1. CASE h.errors = <<>>
  BY <1>1, FirstOfAppend DEF KeepFirst
<1>2. CASE h.errors # <<>>
  <2>1. Head(h.errors) \in Sources /\ Head(Append(h.errors, source)) = Head(h.errors)
    BY <1>2, FirstOfAppend
  <2>2. Head(h.errors) # "none"
    BY <2>1 DEF Sources
  <2>3. QED
    BY <1>2, <2>1, <2>2 DEF KeepFirst
<1>3. QED
  BY <1>1, <1>2

\* What Failed records.  (DoFullMatterWipe)
LEMMA FailedIs ==
    ASSUME TypeOK, fabricIndex \in Fabrics, NEW source \in Sources
    PROVE  /\ Failed(source) \in History
           /\ Failed(source).errors = Append(h.errors, source)
           /\ Failed(source).excused = h.excused \union {fabricIndex}
           /\ Failed(source).undeleted = h.undeleted
<1>1. h \in History
  BY DEF TypeOK
<1>2. Append(h.errors, source) \in Seq(Sources)
  BY <1>1, FirstOfAppend DEF History, Sources
<1>3. QED
  BY <1>1, <1>2 DEF Failed, History, Sources

\* A step that leaves the history alone but for the damaged fabrics keeps its type.
LEMMA HistoryKept ==
    ASSUME TypeOK, NEW cut \in BOOLEAN, NEW excused \in SUBSET Fabrics
    PROVE  [h EXCEPT !.cut = cut, !.excused = excused] \in History
  BY DEF TypeOK, History

(***************************************************************************)
(* The invariant is kept.                                                  *)
(***************************************************************************)
LEMMA InitInv == Init => Inv
<1> SUFFICES ASSUME Init PROVE Inv
  OBVIOUS
<1>1. h \in History
  BY DEF Init, History
<1>2. powerLosses \in 0..MaxPowerLoss
  BY PowerAssumption DEF Init
<1>3. QED
  BY <1>1, <1>2
     DEF Init, Inv, TypeOK, Steps, Kinds, IndexKnown, AtFabric, Removed, FirstKept, Empty, LoopServes,
         OneFabricAtATime, Whole, NoFabricWithoutAcl

\* The steps that remove nothing and record no error.
LEMMA QuietStep ==
    ASSUME Inv,
           \/ Boot \/ ToggleWindow \/ PostFactoryReset
           \/ BeginWipe \/ CollectFabrics \/ ResetAcl \/ ShutdownServer \/ Teardown
           \/ SystemReset \/ PowerCycle
    PROVE  Inv'
<1> USE FabricAssumption
    DEF Inv, TypeOK, Steps, Kinds, IndexKnown, AtFabric, Removed, FirstKept, Empty, LoopServes,
        OneFabricAtATime, Whole, NoFabricWithoutAcl, Go, OutsideWipe
<1>1. CASE Boot
  <2>1. CASE pc' = "loop"
    <3>1. h' \in History /\ window' \in BOOLEAN /\ h'.errors = h.errors
          /\ h'.undeleted = h.undeleted /\ h'.excused = h.excused
      BY <1>1, <2>1 DEF Boot, OpenWindowIfNeeded, History
    <3>2. QED
      BY <1>1, <2>1, <3>1 DEF Boot
  <2>2. CASE pc' = "stopped"
    BY <1>1, <2>2 DEF Boot
  <2>3. QED
    BY <1>1, <2>1, <2>2 DEF Boot
<1>2. CASE ToggleWindow
  BY <1>2 DEF ToggleWindow
<1>3. CASE PostFactoryReset
  BY <1>3 DEF PostFactoryReset
<1>4. CASE BeginWipe
  BY <1>4 DEF BeginWipe
<1>5. CASE CollectFabrics
  BY <1>5 DEF CollectFabrics
<1>6. CASE ResetAcl
  BY <1>6 DEF ResetAcl
<1>7. CASE ShutdownServer
  BY <1>7 DEF ShutdownServer
<1>8. CASE Teardown
  BY <1>8 DEF Teardown
<1>9. CASE SystemReset
  BY <1>9 DEF SystemReset, LoseRam
<1>10. CASE PowerCycle
  BY <1>10 DEF PowerCycle, LoseRam
<1>11. QED
  BY <1>1, <1>2, <1>3, <1>4, <1>5, <1>6, <1>7, <1>8, <1>9, <1>10

\* The device is commissioned: the fabric is stored whole, and is in the table.
LEMMA CommissionStep == ASSUME Inv, NEW f \in Fabrics, Commission(f) PROVE Inv'
<1> USE DEF Inv, Commission
<1>1. h' \in History /\ h'.errors = h.errors
      /\ h'.undeleted = h.undeleted \ {f} /\ h'.excused = h.excused \ {f}
  BY DEF TypeOK, History
<1>2. \A k \in Kinds : store'[k] = store[k] \union {f}
  BY DEF TypeOK
<1>3. pc' = "loop" /\ pc = "loop"
  OBVIOUS
<1>4. TypeOK'
  BY <1>1, <1>2 DEF TypeOK
<1>5. IndexKnown' /\ LoopServes'
  BY <1>2, <1>3 DEF IndexKnown, AtFabric, LoopServes, Kinds
<1>6. Removed'
  BY <1>1, <1>3 DEF Removed
<1>7. FirstKept'
  BY <1>1, <1>3 DEF FirstKept
<1>8. OneFabricAtATime'
  <2> SUFFICES ASSUME NEW g \in Fabrics PROVE Whole(g)' \/ g = fabricIndex' \/ g \in h'.excused
    BY DEF OneFabricAtATime
  <2>1. CASE g = f
    BY <1>2, <2>1 DEF Whole
  <2>2. CASE g # f
    BY <1>1, <1>2, <2>2 DEF Whole, OneFabricAtATime
  <2>3. QED
    BY <2>1, <2>2
<1>9. NoFabricWithoutAcl'
  BY <1>1, <1>2 DEF NoFabricWithoutAcl, Kinds
<1>10. QED
  BY <1>4, <1>5, <1>6, <1>7, <1>8, <1>9

\* The event starts a wipe, or is dropped because one was scheduled.
LEMMA EventStep == ASSUME Inv, DoFactoryResetLikeNordic PROVE Inv'
<1> USE DEF Inv, DoFactoryResetLikeNordic
<1>1. h' \in History /\ h'.errors = <<>>
      /\ h'.undeleted = h.undeleted /\ h'.excused = h.excused
  <2>1. h \in History /\ <<>> \in Seq({"resumption", "groups", "fabric", "kvs"})
    BY DEF TypeOK
  <2>2. QED
    BY <2>1 DEF History
<1>2. pc = "loop" /\ pc' \in {"loop", "begin"}
  OBVIOUS
<1>3. TypeOK'
  BY <1>1, <1>2 DEF TypeOK, Steps
<1>4. IndexKnown' /\ LoopServes'
  BY <1>2 DEF IndexKnown, AtFabric, LoopServes
<1>5. Removed' /\ FirstKept'
  BY <1>1, <1>2 DEF Removed, FirstKept
<1>6. OneFabricAtATime' /\ NoFabricWithoutAcl'
  BY <1>1 DEF OneFabricAtATime, NoFabricWithoutAcl, Whole
<1>7. QED
  BY <1>3, <1>4, <1>5, <1>6

\* The loop takes the next fabric, of which nothing is removed yet, or ends.
LEMMA NextFabricStep == ASSUME Inv, NextFabric PROVE Inv'
<1> USE DEF Inv, NextFabric, OutsideWipe
<1>1. pc = "next" /\ pc' \in {"resumption", "resetAcl"} /\ fabricIndex = NoFabric
  BY DEF IndexKnown, AtFabric
<1>2. IF pc' = "resumption" THEN fabricIndex' \in Fabrics ELSE fabricIndex' = NoFabric
  BY <1>1 DEF TypeOK
<1>3. fabricsToDelete' \subseteq Fabrics
  BY DEF TypeOK
<1>4. TypeOK'
  BY <1>1, <1>2, <1>3 DEF TypeOK, Steps
<1>5. IndexKnown' /\ LoopServes' /\ Removed' /\ FirstKept'
  BY <1>1, <1>2 DEF IndexKnown, AtFabric, LoopServes, Removed, FirstKept
<1>6. OneFabricAtATime' /\ NoFabricWithoutAcl'
  BY <1>1, FabricAssumption DEF OneFabricAtATime, NoFabricWithoutAcl, Whole
<1>7. QED
  BY <1>4, <1>5, <1>6

\* resumption->DeleteAll and groupProvider->RemoveFabric, done, skipped or failed.
LEMMA RemoveStoredStep ==
    ASSUME Inv, DeleteResumption \/ RemoveGroups
    PROVE  Inv'
<1> DEFINE From == IF pc = "resumption" THEN "resumption" ELSE "groups"
           To   == IF pc = "resumption" THEN "groups" ELSE "delete"
<1>1. pc = From /\ pc' = To /\ fabricIndex' = fabricIndex /\ fabricIndex \in Fabrics
      /\ UNCHANGED <<table, window, saveWork, fabricsToDelete, OutsideWipe>>
  BY DEF Inv, IndexKnown, AtFabric, DeleteResumption, RemoveGroups, RemoveStored, Go
<1>2. \/ store' = Remove(From) /\ UNCHANGED <<firstError, h>>
      \/ h' = [h EXCEPT !.excused = @ \union {fabricIndex}] /\ UNCHANGED <<store, firstError>>
      \/ KeepFirst(From) /\ h' = Failed(From) /\ UNCHANGED store
  BY DEF DeleteResumption, RemoveGroups, RemoveStored, Go
<1>3. From \in {"resumption", "groups"} /\ From \in Sources
      /\ firstError = IF h.errors = <<>> THEN "none" ELSE Head(h.errors)
  BY <1>1 DEF Sources, Inv, FirstKept
<1>4. CASE store' = Remove(From) /\ UNCHANGED <<firstError, h>>
  <2>1. /\ store' \in [Kinds -> SUBSET Fabrics]
        /\ \A k \in Kinds : store'[k] = IF k = From THEN store[k] \ {fabricIndex} ELSE store[k]
    BY <1>4 DEF Remove, Inv, TypeOK
  <2>2. TypeOK'
    BY <1>1, <1>4, <2>1 DEF Inv, TypeOK, Steps, OutsideWipe
  <2>3. IndexKnown' /\ LoopServes' /\ FirstKept'
    BY <1>1, <1>4 DEF Inv, IndexKnown, AtFabric, LoopServes, FirstKept
  <2>4. Removed'
    BY <1>1, <1>4, <2>1 DEF Inv, Removed, Kinds
  <2>5. OneFabricAtATime'
    BY <1>1, <1>4, <2>1 DEF Inv, OneFabricAtATime, Whole
  <2>6. NoFabricWithoutAcl'
    BY <1>3, <1>4, <2>1 DEF Inv, NoFabricWithoutAcl, Kinds
  <2>7. QED
    BY <2>2, <2>3, <2>4, <2>5, <2>6 DEF Inv
<1>5. CASE /\ UNCHANGED store
           /\ \/ h' = [h EXCEPT !.excused = @ \union {fabricIndex}] /\ UNCHANGED firstError
              \/ KeepFirst(From) /\ h' = Failed(From)
  <2>1. /\ h' \in History /\ h'.undeleted = h.undeleted
        /\ h'.excused = h.excused \union {fabricIndex}
        /\ firstError' \in {"none"} \union Sources
        /\ firstError' = IF h'.errors = <<>> THEN "none" ELSE Head(h'.errors)
    <3>1. CASE KeepFirst(From) /\ h' = Failed(From)
      <4>1. h.errors \in Seq(Sources)
        BY DEF Inv, TypeOK, History, Sources
      <4>2. Append(h.errors, From) # <<>>
        BY <1>3, <4>1, FirstOfAppend
      <4>3. QED
        BY <1>1, <1>3, <3>1, <4>1, <4>2, FirstStays, FailedIs DEF Inv
    <3>2. CASE h' = [h EXCEPT !.excused = @ \union {fabricIndex}] /\ UNCHANGED firstError
      <4>1. h \in History /\ firstError \in {"none"} \union Sources
        BY DEF Inv, TypeOK, Sources
      <4>2. h' \in History /\ h'.undeleted = h.undeleted /\ h'.errors = h.errors
            /\ h'.excused = h.excused \union {fabricIndex}
        BY <1>1, <3>2, <4>1 DEF History
      <4>3. QED
        BY <1>3, <3>2, <4>1, <4>2
    <3>3. QED
      BY <1>5, <3>1, <3>2
  <2>2. TypeOK'
    BY <1>1, <1>5, <2>1 DEF Inv, TypeOK, Steps, OutsideWipe, Sources
  <2>3. IndexKnown' /\ LoopServes' /\ FirstKept'
    BY <1>1, <2>1 DEF Inv, IndexKnown, AtFabric, LoopServes, FirstKept
  <2>4. Removed'
    BY <1>1, <2>1 DEF Removed
  <2>5. OneFabricAtATime' /\ NoFabricWithoutAcl'
    BY <1>1, <1>5, <2>1 DEF Inv, OneFabricAtATime, NoFabricWithoutAcl, Whole
  <2>6. QED
    BY <2>2, <2>3, <2>4, <2>5 DEF Inv
<1>6. QED
  BY <1>2, <1>4, <1>5

\* fabricTable.Delete, done or failed.
LEMMA DeleteFabricStep == ASSUME Inv, DeleteFabric PROVE Inv'
<1>1. pc = "delete" /\ pc' = "acl" /\ fabricIndex' = fabricIndex /\ fabricIndex \in Fabrics
      /\ UNCHANGED <<window, saveWork, fabricsToDelete, OutsideWipe>>
  BY DEF Inv, IndexKnown, AtFabric, DeleteFabric, Go
<1>2. h \in History /\ h.errors \in Seq(Sources) /\ "fabric" \in Sources
      /\ firstError = IF h.errors = <<>> THEN "none" ELSE Head(h.errors)
  BY <1>1 DEF Inv, TypeOK, FirstKept, History, Sources
<1>3. CASE /\ store' = Remove("fabric") /\ table' = table \ {fabricIndex}
           /\ h' = [h EXCEPT !.undeleted = @ \ {fabricIndex}] /\ UNCHANGED firstError
  <2>1. /\ store' \in [Kinds -> SUBSET Fabrics]
        /\ \A k \in Kinds : store'[k] = IF k = "fabric" THEN store[k] \ {fabricIndex} ELSE store[k]
    BY <1>3 DEF Remove, Inv, TypeOK
  <2>2. h' \in History /\ h'.errors = h.errors /\ h'.excused = h.excused
        /\ h'.undeleted = h.undeleted \ {fabricIndex}
    BY <1>2, <1>3 DEF History
  <2>3. TypeOK'
    BY <1>1, <1>3, <2>1, <2>2 DEF Inv, TypeOK, Steps, OutsideWipe
  <2>4. IndexKnown' /\ LoopServes' /\ FirstKept'
    BY <1>1, <1>2, <1>3, <2>2 DEF Inv, IndexKnown, AtFabric, LoopServes, FirstKept
  <2>5. Removed'
    BY <1>1, <2>1, <2>2 DEF Inv, Removed, Kinds
  <2>6. OneFabricAtATime'
    BY <1>1, <2>1, <2>2 DEF Inv, OneFabricAtATime, Whole
  <2>7. NoFabricWithoutAcl'
    BY <2>1, <2>2 DEF Inv, NoFabricWithoutAcl, Kinds
  <2>8. QED
    BY <2>3, <2>4, <2>5, <2>6, <2>7 DEF Inv
<1>4. CASE /\ KeepFirst("fabric") /\ UNCHANGED <<store, table>>
           /\ h' = [Failed("fabric") EXCEPT !.undeleted = @ \union {fabricIndex}]
  <2>1. h' \in History /\ h'.errors = Append(h.errors, "fabric")
        /\ h'.excused = h.excused \union {fabricIndex}
        /\ h'.undeleted = h.undeleted \union {fabricIndex}
    <3>1. /\ Failed("fabric") \in History
          /\ Failed("fabric").errors = Append(h.errors, "fabric")
          /\ Failed("fabric").excused = h.excused \union {fabricIndex}
          /\ Failed("fabric").undeleted = h.undeleted
      BY <1>1, <1>2, FailedIs DEF Inv
    <3>2. QED
      BY <1>1, <1>4, <3>1 DEF History
  <2>2. firstError' \in Sources /\ firstError' = Head(h'.errors) /\ h'.errors # <<>>
    BY <1>2, <1>4, <2>1, FirstStays, FirstOfAppend
  <2>3. TypeOK'
    BY <1>1, <1>4, <2>1, <2>2 DEF Inv, TypeOK, Steps, OutsideWipe, Sources
  <2>4. IndexKnown' /\ LoopServes' /\ FirstKept'
    BY <1>1, <2>2 DEF Inv, IndexKnown, AtFabric, LoopServes, FirstKept
  <2>5. Removed'
    BY <1>1, <2>1 DEF Removed
  <2>6. OneFabricAtATime' /\ NoFabricWithoutAcl'
    BY <1>1, <1>4, <2>1 DEF Inv, OneFabricAtATime, NoFabricWithoutAcl, Whole
  <2>7. QED
    BY <2>3, <2>4, <2>5, <2>6 DEF Inv
<1>5. QED
  BY <1>3, <1>4 DEF DeleteFabric

\* DeleteAllEntriesForFabric, done or failed: the loop leaves the fabric.
LEMMA DeleteAclStep == ASSUME Inv, DeleteAcl PROVE Inv'
<1>1. pc = "acl" /\ pc' = "next" /\ fabricIndex' = NoFabric /\ fabricIndex \in Fabrics
      /\ UNCHANGED <<table, window, saveWork, fabricsToDelete, firstError, OutsideWipe>>
  BY DEF Inv, IndexKnown, AtFabric, DeleteAcl, Go
<1>2. h' \in History /\ h'.errors = h.errors /\ h'.undeleted = h.undeleted
      /\ h.excused \subseteq h'.excused
  BY <1>1 DEF Inv, TypeOK, History, DeleteAcl
<1>3. \/ store' = Remove("acl") /\ UNCHANGED h
      \/ UNCHANGED store /\ fabricIndex \in h'.excused
  BY <1>1 DEF Inv, TypeOK, History, DeleteAcl
<1>4. /\ store' \in [Kinds -> SUBSET Fabrics]
      /\ \A k \in Kinds : \A f \in Fabrics \ {fabricIndex} : f \in store'[k] <=> f \in store[k]
      /\ \A k \in Kinds \ {"acl"} : store'[k] = store[k]
  BY <1>3 DEF Inv, TypeOK, Remove
<1>5. TypeOK'
  BY <1>1, <1>2, <1>4 DEF Inv, TypeOK, Steps, OutsideWipe
<1>6. IndexKnown' /\ LoopServes' /\ Removed' /\ FirstKept'
  BY <1>1, <1>2 DEF Inv, IndexKnown, AtFabric, LoopServes, Removed, FirstKept
<1>7. OneFabricAtATime'
  <2> SUFFICES ASSUME NEW f \in Fabrics PROVE Whole(f)' \/ f = fabricIndex' \/ f \in h'.excused
    BY DEF OneFabricAtATime
  <2>1. CASE f # fabricIndex
    BY <1>2, <1>4, <2>1 DEF Inv, OneFabricAtATime, Whole
  <2>2. CASE f = fabricIndex /\ UNCHANGED store /\ fabricIndex \in h'.excused
    BY <2>2
  <2>3. CASE f = fabricIndex /\ store' = Remove("acl") /\ fabricIndex \notin h.excused
    <3>1. \A k \in Kinds : f \notin store'[k]
      BY <1>1, <2>3 DEF Inv, TypeOK, Removed, Remove, Kinds
    <3>2. QED
      BY <3>1 DEF Whole
  <2>4. QED
    BY <1>2, <1>3, <2>1, <2>2, <2>3
<1>8. NoFabricWithoutAcl'
  <2> SUFFICES ASSUME NEW f \in store'["fabric"] PROVE f \in store'["acl"] \/ f \in h'.undeleted
    BY DEF NoFabricWithoutAcl
  <2>1. f \in store["fabric"] /\ f \in Fabrics
    BY <1>4 DEF Inv, TypeOK, Kinds
  <2>2. CASE f = fabricIndex
    BY <1>1, <1>2, <2>1, <2>2 DEF Inv, Removed
  <2>3. CASE f # fabricIndex
    BY <1>2, <1>4, <2>1, <2>3 DEF Inv, NoFabricWithoutAcl, Kinds
  <2>4. QED
    BY <2>2, <2>3
<1>9. QED
  BY <1>5, <1>6, <1>7, <1>8 DEF Inv

\* KeyValueStoreMgrImpl().DoFactoryReset empties the store, or fails.
LEMMA ResetKvsStep == ASSUME Inv, ResetKvs PROVE Inv'
<1>1. pc = "kvs" /\ pc' = "teardown" /\ fabricIndex = NoFabric /\ fabricIndex' = NoFabric
      /\ UNCHANGED <<table, window, saveWork, fabricsToDelete, OutsideWipe>>
  BY DEF Inv, IndexKnown, AtFabric, ResetKvs, Go
<1>2. h \in History /\ h.errors \in Seq(Sources) /\ "kvs" \in Sources
      /\ firstError = IF h.errors = <<>> THEN "none" ELSE Head(h.errors)
  BY <1>1 DEF Inv, TypeOK, FirstKept, History, Sources
<1>3. IndexKnown' /\ LoopServes' /\ Removed'
  <2>1. NoFabric \in h'.excused \/ pc' \notin AtFabric
    BY <1>1 DEF AtFabric
  <2>2. QED
    BY <1>1, <2>1 DEF Inv, IndexKnown, AtFabric, LoopServes, Removed
<1>4. CASE /\ store' = [k \in Kinds |-> {}] /\ UNCHANGED firstError
           /\ h' = [h EXCEPT !.undeleted = {}, !.excused = {}]
  <2>1. h' \in History /\ h'.errors = h.errors
    BY <1>2, <1>4 DEF History
  <2>2. TypeOK'
    BY <1>1, <1>4, <2>1 DEF Inv, TypeOK, Steps, OutsideWipe
  <2>3. FirstKept'
    BY <1>1, <1>2, <1>4, <2>1 DEF FirstKept, Empty
  <2>4. OneFabricAtATime' /\ NoFabricWithoutAcl'
    BY <1>4 DEF OneFabricAtATime, NoFabricWithoutAcl, Whole, Kinds
  <2>5. QED
    BY <1>3, <2>2, <2>3, <2>4 DEF Inv
<1>5. CASE /\ KeepFirst("kvs") /\ UNCHANGED store
           /\ h' = [h EXCEPT !.errors = Append(@, "kvs"), !.kvsFailed = TRUE]
  <2>1. Append(h.errors, "kvs") \in Seq(Sources) /\ Append(h.errors, "kvs") # <<>>
    BY <1>2, FirstOfAppend
  <2>2. h' \in History /\ h'.errors = Append(h.errors, "kvs")
        /\ h'.excused = h.excused /\ h'.undeleted = h.undeleted
    BY <1>2, <1>5, <2>1 DEF History, Sources
  <2>3. firstError' \in Sources /\ firstError' = Head(h'.errors) /\ h'.errors # <<>>
    BY <1>2, <1>5, <2>1, <2>2, FirstStays
  <2>4. TypeOK'
    BY <1>1, <1>5, <2>2, <2>3 DEF Inv, TypeOK, Steps, OutsideWipe, Sources
  <2>5. FirstKept'
    <3>1. firstError' # "none"
      BY <2>3 DEF Sources
    <3>2. QED
      BY <1>1, <2>3, <3>1 DEF FirstKept
  <2>6. OneFabricAtATime' /\ NoFabricWithoutAcl'
    BY <1>1, <1>5, <2>2 DEF Inv, OneFabricAtATime, NoFabricWithoutAcl, Whole
  <2>7. QED
    BY <1>3, <2>4, <2>5, <2>6 DEF Inv
<1>6. QED
  BY <1>4, <1>5 DEF ResetKvs

\* Power loss: the fabric the loop is at may stay damaged, and is excused.
LEMMA PowerLossStep == ASSUME Inv, PowerLoss PROVE Inv'
<1>1. pc' = "off" /\ fabricIndex' = NoFabric /\ store' = store
      /\ table' = {} /\ ~window' /\ firstError' = "none"
  BY DEF PowerLoss, LoseRam
<1>2. h' \in History /\ h'.undeleted = h.undeleted /\ h.excused \subseteq h'.excused
      /\ (fabricIndex = NoFabric \/ fabricIndex \in h'.excused)
  BY DEF PowerLoss, Inv, TypeOK, History
<1>3. powerLosses' \in 0..MaxPowerLoss
  BY PowerAssumption DEF PowerLoss, Inv, TypeOK
<1>4. TypeOK'
  BY <1>1, <1>2, <1>3 DEF Inv, TypeOK, Steps, PowerLoss, LoseRam
<1>5. IndexKnown' /\ LoopServes' /\ Removed' /\ FirstKept'
  BY <1>1 DEF IndexKnown, AtFabric, LoopServes, Removed, FirstKept
<1>6. OneFabricAtATime' /\ NoFabricWithoutAcl'
  BY <1>1, <1>2, FabricAssumption DEF Inv, OneFabricAtATime, NoFabricWithoutAcl, Whole
<1>7. QED
  BY <1>4, <1>5, <1>6 DEF Inv

LEMMA StepInv == Inv /\ [Next]_vars => Inv'
<1> SUFFICES ASSUME Inv, [Next]_vars PROVE Inv'
  OBVIOUS
<1>1. CASE UNCHANGED vars
  BY <1>1 DEF vars, Inv, TypeOK, IndexKnown, AtFabric, Removed, FirstKept, Empty, LoopServes,
              OneFabricAtATime, Whole, NoFabricWithoutAcl
<1>2. CASE Next
  BY <1>2, QuietStep, CommissionStep, EventStep, NextFabricStep, RemoveStoredStep,
     DeleteFabricStep, DeleteAclStep, ResetKvsStep, PowerLossStep DEF Next, WipeStep
<1>3. QED
  BY <1>1, <1>2

LEMMA InvHolds == Spec => []Inv
<1>1. QED
  BY InitInv, StepInv, PTL DEF Spec

(***************************************************************************)
(* The theorems.                                                           *)
(***************************************************************************)
\* Type correctness.
THEOREM TypeCorrect == Spec => []TypeOK
<1>1. Inv => TypeOK
  BY DEF Inv
<1>2. QED
  BY <1>1, InvHolds, PTL

\* DoFullMatterWipe returns the first error it met, and none only over an empty
\* store: whichever removals failed or were skipped, and however many fabrics
\* there were.
THEOREM ResultHonest == Spec => []ResultIsHonest
<1>1. Inv => ResultIsHonest
  BY DEF Inv, FirstKept, ResultIsHonest
<1>2. QED
  BY <1>1, InvHolds, PTL

\* The wipe and its power losses leave every fabric whole but the one it is at
\* and those a step failed on or power was lost at.
THEOREM OneFabric == Spec => []OneFabricAtATime
<1>1. Inv => OneFabricAtATime
  BY DEF Inv
<1>2. QED
  BY <1>1, InvHolds, PTL

\* A stored fabric keeps its access-control entries unless its deletion failed.
THEOREM AclKept == Spec => []NoFabricWithoutAcl
<1>1. Inv => NoFabricWithoutAcl
  BY DEF Inv
<1>2. QED
  BY <1>1, InvHolds, PTL

(***************************************************************************)
(* The wipe implements FactoryReset.                                       *)
(***************************************************************************)
\* The handler between its start and the reset only forgets.
LEMMA PromiseWipeStep ==
    ASSUME Inv, pc \notin {"off", "stopped", "loop"}, pc' \notin {"off", "stopped", "loop"},
           ~window', pc # "begin" => ~window,
           store' = store \/ store'["fabric"] \subseteq store["fabric"]
    PROVE  [Promise!Next]_(Promise!vars)
<1>1. Phase = "wiping" /\ Phase' = "wiping"
  BY DEF Phase
<1>2. (window /\ pc # "begin") = FALSE /\ (window' /\ pc' # "begin") = FALSE
  OBVIOUS
<1>3. CASE (store["fabric"] # {}) = (store'["fabric"] # {})
  BY <1>1, <1>2, <1>3 DEF Promise!vars
<1>4. CASE (store["fabric"] # {}) # (store'["fabric"] # {})
  <2>1. store["fabric"] # {} /\ store'["fabric"] = {}
    BY <1>4
  <2>2. Promise!Forget
    BY <1>1, <1>2, <2>1 DEF Promise!Forget
  <2>3. QED
    BY <2>2 DEF Promise!Next
<1>5. QED
  BY <1>3, <1>4

LEMMA PromiseStep == Inv /\ [Next]_vars => [Promise!Next]_(Promise!vars)
<1> SUFFICES ASSUME Inv, [Next]_vars PROVE [Promise!Next]_(Promise!vars)
  OBVIOUS
<1>1. window \in BOOLEAN /\ (pc = "loop" => table = store["fabric"])
      /\ (pc \notin {"loop", "begin"} => ~window)
  BY DEF Inv, TypeOK, LoopServes
<1>2. window' \in BOOLEAN /\ (pc' \notin {"loop", "begin"} => ~window')
  BY StepInv DEF Inv, TypeOK, LoopServes
<1>3. CASE UNCHANGED vars
  BY <1>3 DEF vars, Phase, Promise!vars
<1>4. CASE Boot
  <2>1. CASE pc' = "loop"
    <3>1. Promise!PowerUp
      BY <1>4, <2>1 DEF Boot, OpenWindowIfNeeded, Phase, Promise!PowerUp
    <3>2. QED
      BY <3>1 DEF Promise!Next
  <2>2. CASE pc' = "stopped"
    <3>1. Promise!BootFails
      BY <1>4, <2>2 DEF Boot, Phase, Promise!BootFails
    <3>2. QED
      BY <3>1 DEF Promise!Next
  <2>3. QED
    BY <1>4, <2>1, <2>2 DEF Boot
<1>5. ASSUME NEW f \in Fabrics, Commission(f) PROVE [Promise!Next]_(Promise!vars)
  <2>1. store'["fabric"] # {}
    BY <1>5 DEF Commission, Kinds
  <2>2. Promise!Commission
    BY <1>5, <2>1 DEF Commission, Phase, Promise!Commission
  <2>3. QED
    BY <2>2 DEF Promise!Next
<1>6. CASE ToggleWindow
  <2>1. Promise!ToggleWindow
    BY <1>1, <1>6 DEF ToggleWindow, Phase, Promise!ToggleWindow
  <2>2. QED
    BY <2>1 DEF Promise!Next
<1>7. CASE PostFactoryReset
  BY <1>7 DEF PostFactoryReset, Phase, Promise!vars
<1>8. CASE DoFactoryResetLikeNordic
  <2>1. pc = "loop" /\ store' = store /\ window' = window /\ pc' \in {"loop", "begin"}
    BY <1>8 DEF DoFactoryResetLikeNordic
  <2>2. CASE pc' = "loop"
    BY <2>1, <2>2 DEF Phase, Promise!vars
  <2>3. CASE pc' = "begin"
    <3>1. Promise!Wipe
      BY <2>1, <2>3 DEF Phase, Promise!Wipe
    <3>2. QED
      BY <3>1 DEF Promise!Next
  <2>4. QED
    BY <2>1, <2>2, <2>3
<1>9. CASE WipeStep /\ ~SystemReset
  <2>1. pc \notin {"off", "stopped", "loop"} /\ pc' \notin {"off", "stopped", "loop", "begin"}
    BY <1>9 DEF WipeStep, BeginWipe, CollectFabrics, NextFabric, DeleteResumption, RemoveGroups,
                RemoveStored, DeleteFabric, DeleteAcl, ResetAcl, ShutdownServer, ResetKvs,
                Teardown, Go
  <2>2. store' = store \/ store'["fabric"] \subseteq store["fabric"]
    <3>1. ASSUME NEW kind \in Kinds PROVE Remove(kind)["fabric"] \subseteq store["fabric"]
      BY DEF Inv, TypeOK, Remove, Kinds
    <3>2. QED
      BY <1>9, <3>1
         DEF WipeStep, BeginWipe, CollectFabrics, NextFabric, DeleteResumption, RemoveGroups,
             RemoveStored, DeleteFabric, DeleteAcl, ResetAcl, ShutdownServer, ResetKvs, Teardown,
             Kinds
  <2>3. QED
    BY <1>1, <1>2, <2>1, <2>2, PromiseWipeStep
<1>10. CASE SystemReset
  <2>1. Promise!Reset
    BY <1>1, <1>10 DEF SystemReset, LoseRam, Phase, Promise!Reset
  <2>2. QED
    BY <2>1 DEF Promise!Next
<1>11. CASE PowerLoss \/ PowerCycle
  <2>1. Promise!PowerLoss
    BY <1>11 DEF PowerLoss, PowerCycle, LoseRam, Phase, Promise!PowerLoss
  <2>2. QED
    BY <2>1 DEF Promise!Next
<1>12. QED
  BY <1>3, <1>4, <1>5, <1>6, <1>7, <1>8, <1>9, <1>10, <1>11 DEF Next

\* The wipe, with its failures and power losses, implements FactoryReset: nothing
\* is commissioned and no window opens between the start of the handler and the
\* reset.  (The fair part of the promise, that the reset comes, is checked by TLC.)
THEOREM Refinement == Spec => Promise!Spec
<1>1. Init => Promise!Init
  BY DEF Init, Phase, Promise!Init
<1>2. QED
  BY <1>1, PromiseStep, InvHolds, PTL DEF Spec, Promise!Spec
=============================================================================
