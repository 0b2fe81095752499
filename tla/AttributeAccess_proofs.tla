----------------------- MODULE AttributeAccess_proofs -----------------------
(***************************************************************************)
(* Proofs about AttributeAccess, for integers of any width: type           *)
(* correctness, that the registrations and the event loop run the time     *)
(* synchronization delegate as TimeSync describes it (so that what is      *)
(* proved of TimeSync holds here), that changes of access-control entries  *)
(* are reported, and that the revision guard compares what is served.      *)
(*                                                                         *)
(* Once the loop runs every interface is registered, and their paths are   *)
(* different: a path is answered by one of them and the data model, or by  *)
(* the data model alone.  So every attribute list is exact, and the list   *)
(* of the sanity check is wrong about two clusters, after every boot.      *)
(***************************************************************************)
EXTENDS AttributeAccess, TimeSync_proofs

(***************************************************************************)
(* The time synchronization delegate inside the device.                    *)
(***************************************************************************)
\* Registering interfaces and changing access control leave the delegate alone;
\* the loop and a reset take its steps.
LEMMA DelegateStep == [AccessNext]_allVars => [Next]_vars
<1> SUFFICES ASSUME [AccessNext]_allVars PROVE [Next]_vars
  OBVIOUS
<1>1. CASE Boot \/ ChangeEntry \/ ReportAcl \/ UNCHANGED allVars
  BY <1>1 DEF Boot, RegisterInterface, RegisterGkmRevisionOverride, Register, RevisionSanityCheck,
              AccessControlReady, InitializeFabricHandlers, ChangeEntry, ReportAcl, allVars
<1>2. CASE SubscribeAll \/ Loop \/ ResetDevice
  BY <1>2 DEF SubscribeAll, Loop, ResetDevice, Next
<1>3. QED
  BY <1>1, <1>2 DEF AccessNext

\* AttributeAccess implements TimeSync.
THEOREM RunsTimeSync == AccessSpec => Spec
<1>1. AccessInit => Init
  BY DEF AccessInit
<1>2. QED
  BY <1>1, DelegateStep, PTL DEF AccessSpec, Spec

\* No copy of the time has wrapped around, whatever else the device serves.
THEOREM TimesExact == AccessSpec => []TimesAreExact
<1>1. QED
  BY RunsTimeSync, TimesAreExactHolds, PTL

\* A subscriber is told of every change but that of TimeSource, whatever else
\* the device serves.
THEOREM SubscriberCurrent == AccessSpec => []SubscriberIsCurrent
<1>1. QED
  BY RunsTimeSync, SubscriberIsCurrentHolds, PTL

(***************************************************************************)
(* Types and the access-control entries.                                   *)
(***************************************************************************)
\* The listener is in place before the loop runs: it is the last of Calls.
ListenerInPlace == LoopRuns => listener

AccessInv == AccessTypeOK /\ ListenerInPlace /\ AclIsReported

LEMMA AccessInitInv == AccessInit => AccessInv
<1> SUFFICES ASSUME AccessInit PROVE AccessInv
  OBVIOUS
<1>1. TypeOK
  BY InitInv DEF AccessInit, Inv
<1>2. call \in 1..Len(Calls) + 1
  BY DEF AccessInit, Calls
<1>3. guard \in [DOMAIN Expected -> {"none", "unread", "expected", "mismatch"}]
  BY DEF AccessInit
<1>4. AccessTypeOK
  BY <1>1, <1>2, <1>3 DEF AccessInit, AccessTypeOK
<1>5. ListenerInPlace
  BY <1>2 DEF AccessInit, ListenerInPlace, LoopRuns, Calls
<1>6. AclIsReported
  BY DEF AccessInit, Init, AclIsReported
<1>7. QED
  BY <1>4, <1>5, <1>6 DEF AccessInv

\* The listener is registered by the last of Calls, and by no other.
LEMMA ListenerIsLast ==
    /\ Len(Calls) = 11 /\ Calls[11] = "FabricHandlers"
    /\ \A i \in 1..10 : Calls[i] # "FabricHandlers"
  BY DEF Calls

LEMMA AccessStepInv == AccessInv /\ Inv' /\ [AccessNext]_allVars => AccessInv'
<1> SUFFICES ASSUME AccessInv, Inv', [AccessNext]_allVars PROVE AccessInv'
  OBVIOUS
<1> USE DEF AccessInv
<1>1. TypeOK'
  BY DEF Inv
<1>2. Len(Calls) = 11
  BY ListenerIsLast
<1>3. ASSUME NEW name, At(name)
      PROVE  call' \in 1..Len(Calls) + 1 /\ (name # "FabricHandlers" => ~LoopRuns')
  <2>1. call \in 1..11 /\ Calls[call] = name /\ call' = call + 1
    BY <1>2, <1>3 DEF At, AccessTypeOK
  <2>2. name # "FabricHandlers" => call \in 1..10
    BY <2>1, ListenerIsLast
  <2>3. QED
    BY <1>2, <2>1, <2>2 DEF LoopRuns
<1>4. ASSUME NEW c \in DOMAIN Expected
      PROVE  LogClusterRevision(c) \in {"none", "unread", "expected", "mismatch"}
  BY DEF LogClusterRevision
<1>5. ASSUME NEW name \in DOMAIN Interfaces, Register(name), seeded' \in BOOLEAN
      PROVE  AccessInv'
  <2>1. registry' \subseteq DOMAIN Interfaces
    BY <1>5 DEF Register, AccessTypeOK
  <2>2. call' \in 1..Len(Calls) + 1 /\ ~LoopRuns'
    BY <1>3, <1>5 DEF Register, Interfaces
  <2>3. UNCHANGED <<subscribed, guard, listener, aclSeen, aclDirty>>
    BY <1>5 DEF Register, access, vars
  <2>4. QED
    BY <1>1, <1>5, <2>1, <2>2, <2>3 DEF AccessTypeOK, ListenerInPlace, AclIsReported
<1>6. CASE Boot
  <2>1. CASE \E name \in DOMAIN Interfaces \ {"GkmClusterRevisionOverride"} :
                 RegisterInterface(name)
    BY <1>5, <2>1 DEF RegisterInterface, AccessTypeOK
  <2>2. CASE RegisterGkmRevisionOverride
    BY <1>5, <2>2 DEF RegisterGkmRevisionOverride, Interfaces
  <2>3. CASE RevisionSanityCheck
    BY <1>1, <1>3, <1>4, <2>3
       DEF RevisionSanityCheck, AccessTypeOK, ListenerInPlace, AclIsReported, vars, access
  <2>4. CASE AccessControlReady
    BY <1>1, <1>3, <2>4
       DEF AccessControlReady, NotifyAclChanged, AccessTypeOK, ListenerInPlace, AclIsReported, vars
  <2>5. CASE InitializeFabricHandlers
    <3>1. listener' = TRUE
      BY <2>5 DEF InitializeFabricHandlers, AddListener, AccessTypeOK
    <3>2. call' \in 1..Len(Calls) + 1
      BY <1>3, <2>5 DEF InitializeFabricHandlers
    <3>3. UNCHANGED <<registry, seeded, guard, subscribed, aclSeen, aclDirty>>
      BY <2>5 DEF InitializeFabricHandlers, vars, access
    <3>4. QED
      BY <1>1, <3>1, <3>2, <3>3 DEF AccessTypeOK, ListenerInPlace, AclIsReported
  <2>6. QED
    BY <1>6, <2>1, <2>2, <2>3, <2>4, <2>5 DEF Boot
<1>7. CASE ChangeEntry
  <2>1. UNCHANGED <<call, registry, seeded, guard, listener>>
    BY <1>7 DEF ChangeEntry, boot
  <2>2. aclDirty' = TRUE /\ aclSeen' = FALSE
    BY <1>7 DEF ChangeEntry, NotifyAclChanged, ListenerInPlace
  <2>3. QED
    BY <1>1, <2>1, <2>2 DEF AccessTypeOK, ListenerInPlace, LoopRuns, AclIsReported
<1>8. CASE SubscribeAll
  <2>1. UNCHANGED <<call, registry, seeded, guard, listener>>
    BY <1>8 DEF SubscribeAll, boot
  <2>2. aclDirty' = FALSE /\ aclSeen' = TRUE
    BY <1>8 DEF SubscribeAll
  <2>3. QED
    BY <1>1, <2>1, <2>2 DEF AccessTypeOK, ListenerInPlace, LoopRuns, AclIsReported
<1>9. CASE ReportAcl
  <2>1. UNCHANGED <<call, registry, seeded, guard, listener>>
    BY <1>9 DEF ReportAcl, boot
  <2>2. aclDirty' = FALSE /\ aclSeen' = TRUE
    BY <1>9 DEF ReportAcl
  <2>3. QED
    BY <1>1, <2>1, <2>2 DEF AccessTypeOK, ListenerInPlace, LoopRuns, AclIsReported
<1>10. CASE Loop
  <2>1. subscribed' => subscribed
    BY <1>10 DEF Loop, SetUTCTime, RefuseUTCTime, Report, EndSubscription
  <2>2. UNCHANGED <<call, registry, seeded, guard, listener, aclSeen, aclDirty>>
    BY <1>10 DEF Loop, boot, access
  <2>3. AccessTypeOK'
    BY <1>1, <2>2 DEF AccessTypeOK
  <2>4. AclIsReported' /\ ListenerInPlace'
    BY <2>1, <2>2 DEF AclIsReported, ListenerInPlace, LoopRuns
  <2>5. QED
    BY <2>3, <2>4
<1>11. CASE ResetDevice
  <2>1. call' = 1 /\ 1 \in 1..Len(Calls) + 1
    BY <1>2, <1>11 DEF ResetDevice
  <2>2. guard' \in [DOMAIN Expected -> {"none", "unread", "expected", "mismatch"}]
    BY <1>11 DEF ResetDevice
  <2>3. AccessTypeOK'
    BY <1>1, <1>11, <2>1, <2>2 DEF ResetDevice, AccessTypeOK
  <2>4. AclIsReported' /\ ListenerInPlace'
    BY <1>2, <1>11, <2>1 DEF ResetDevice, Reboot, AclIsReported, ListenerInPlace, LoopRuns
  <2>5. QED
    BY <2>3, <2>4
<1>12. CASE UNCHANGED allVars
  BY <1>1, <1>12 
     DEF allVars, vars, boot, access, AccessTypeOK, ListenerInPlace, LoopRuns, AclIsReported
<1>13. QED
  BY <1>6, <1>7, <1>8, <1>9, <1>10, <1>11, <1>12 DEF AccessNext

LEMMA AccessInvHolds == AccessSpec => []AccessInv
<1>1. Spec => []Inv
  BY InitInv, StepInv, PTL DEF Spec
<1>2. QED
  BY <1>1, RunsTimeSync, AccessInitInv, AccessStepInv, PTL DEF AccessSpec

\* Type correctness.
THEOREM AccessTypeCorrect == AccessSpec => []AccessTypeOK
<1>1. AccessInv => AccessTypeOK
  BY DEF AccessInv
<1>2. QED
  BY <1>1, AccessInvHolds, PTL

\* A subscriber knows the access-control entries or is about to be told: the
\* listener that marks them is registered before the loop takes the first change.
THEOREM AclReported == AccessSpec => []AclIsReported
<1>1. AccessInv => AclIsReported
  BY DEF AccessInv
<1>2. QED
  BY <1>1, AccessInvHolds, PTL

(***************************************************************************)
(* The registrations and the revision guard.                               *)
(***************************************************************************)
Registered == {Calls[i] : i \in {j \in 1..8 : j < call}}

\* The interfaces are registered in the order of Calls, and what the guard found
\* as expected is still what the table holds.
GuardInv ==
    /\ registry = Registered
    /\ \A c \in DOMAIN Expected :
           guard[c] = "expected" => call > 9 /\ emberAfReadAttribute(c) = <<Expected[c]>>

Names == {"TimeSyncDelegate", "GenDiagAttrAccess", "sBasicInfo", "sDescriptor", "sDescriptorSoil",
          "sIcd", "IdentifyRevisionOverride", "GkmClusterRevisionOverride"}

\* The interfaces by name, each with a path of its own.
LEMMA InterfacesAre ==
    /\ DOMAIN Interfaces = Names
    /\ Interfaces["TimeSyncDelegate"].path = EP0("TimeSynchronization")
    /\ Interfaces["GenDiagAttrAccess"].path = EP0("GeneralDiagnostics")
    /\ Interfaces["sBasicInfo"].path = EP0("BasicInformation")
    /\ Interfaces["sDescriptor"].path = EP0("Descriptor")
    /\ Interfaces["sDescriptorSoil"].path = EP1("Descriptor")
    /\ Interfaces["sIcd"].path = EP0("ICDManagement")
    /\ Interfaces["IdentifyRevisionOverride"].path = EP1("Identify")
    /\ Interfaces["GkmClusterRevisionOverride"].path = EP0("GroupKeyManagement")
  BY DEF Interfaces, Names, Interface, TimeSyncDelegate, GenDiagAttrAccess, BasicInfo, Descriptor,
         Icd, IdentifyRevisionOverride, GkmClusterRevisionOverride

LEMMA PathsDiffer ==
    ASSUME NEW i \in Names, NEW j \in Names, i # j
    PROVE  Interfaces[i].path # Interfaces[j].path
<1>1. ASSUME NEW a, NEW b, NEW e \in {0, 1}, NEW f \in {0, 1}
      PROVE  <<e, a>> = <<f, b>> => e = f /\ a = b
  OBVIOUS
<1>2. QED
  BY <1>1, InterfacesAre DEF Names, EP0, EP1

\* The calls before the ninth are the registrations.
LEMMA CallsRegister ==
    /\ Len(Calls) = 11 /\ Calls[9] = "RevisionSanityCheck" /\ Calls[10] = "AccessControl"
    /\ Calls[11] = "FabricHandlers"
    /\ \A i \in 1..8 : Calls[i] \in Names
    /\ \A i \in 1..8 : \A j \in 1..8 : i # j => Calls[i] # Calls[j]
    /\ {Calls[i] : i \in 1..8} = Names
<1>1. /\ Len(Calls) = 11 /\ Calls[9] = "RevisionSanityCheck" /\ Calls[10] = "AccessControl"
      /\ Calls[11] = "FabricHandlers"
      /\ \A i \in 1..8 : Calls[i] \in Names
  BY DEF Calls, Names
<1>2. \A i \in 1..8 : \A j \in 1..8 : i # j => Calls[i] # Calls[j]
  BY DEF Calls
<1>3. \A n \in Names : \E i \in 1..8 : n = Calls[i]
  BY DEF Calls, Names
<1>4. QED
  BY <1>1, <1>2, <1>3

\* A registration is never refused.
LEMMA RegisterStep ==
    ASSUME AccessTypeOK, GuardInv, NEW name \in Names, Register(name)
    PROVE  registry' = Registered' /\ call \in 1..8 /\ call' = call + 1
<1>1. call \in 1..8 /\ Calls[call] = name /\ call' = call + 1
  <2>1. call \in 1..11 /\ Calls[call] = name /\ call' = call + 1
    BY CallsRegister DEF Register, At, AccessTypeOK
  <2>2. call \notin 9..11
    BY <2>1, CallsRegister DEF Names
  <2>3. QED
    BY <2>1, <2>2
<1>2. \A j \in registry : j \in Names /\ j # name
  BY <1>1, CallsRegister DEF GuardInv, Registered
<1>3. registry' = registry \union {name}
  BY <1>2, PathsDiffer DEF Register
<1>4. Registered' = Registered \union {name}
  BY <1>1 DEF Registered
<1>5. QED
  BY <1>1, <1>3, <1>4 DEF GuardInv

LEMMA GuardStep == AccessTypeOK /\ GuardInv /\ [AccessNext]_allVars => GuardInv'
<1> SUFFICES ASSUME AccessTypeOK, GuardInv, [AccessNext]_allVars PROVE GuardInv'
  OBVIOUS
<1>1. ASSUME NEW name \in Names, Register(name) PROVE GuardInv'
  <2>1. \A c \in DOMAIN Expected : guard'[c] # "expected"
    BY <1>1, RegisterStep DEF Register, GuardInv
  <2>2. QED
    BY <1>1, <2>1, RegisterStep DEF GuardInv
<1>2. CASE (\E name \in DOMAIN Interfaces \ {"GkmClusterRevisionOverride"} : RegisterInterface(name))
           \/ RegisterGkmRevisionOverride
  <2>1. PICK name \in Names : Register(name)
    BY <1>2, InterfacesAre DEF RegisterInterface, RegisterGkmRevisionOverride, Names
  <2>2. QED
    BY <1>1, <2>1
<1>3. CASE RevisionSanityCheck
  <2>1. call = 9 /\ call' = 10
    <3>1. call \in 1..11 /\ Calls[call] = "RevisionSanityCheck" /\ call' = call + 1
      BY <1>3, CallsRegister DEF RevisionSanityCheck, At, AccessTypeOK
    <3>2. call \notin 1..8 /\ call # 10 /\ call # 11
      BY <3>1, CallsRegister DEF Names
    <3>3. QED
      BY <3>1, <3>2
  <2>2. registry' = Registered'
    BY <1>3, <2>1 DEF RevisionSanityCheck, GuardInv, Registered
  <2>3. ASSUME NEW c \in DOMAIN Expected, guard'[c] = "expected"
        PROVE  emberAfReadAttribute(c)' = <<Expected[c]>>
    BY <1>3, <2>3 DEF RevisionSanityCheck, LogClusterRevision, emberAfReadAttribute
  <2>4. QED
    BY <2>1, <2>2, <2>3 DEF GuardInv
<1>4. CASE AccessControlReady
  <2>1. call = 10 /\ call' = 11 /\ UNCHANGED <<registry, seeded, guard>>
    <3>1. call \in 1..11 /\ Calls[call] = "AccessControl" /\ call' = call + 1
      BY <1>4, CallsRegister DEF AccessControlReady, At, AccessTypeOK
    <3>2. call \notin 1..8 /\ call # 9 /\ call # 11
      BY <3>1, CallsRegister DEF Names
    <3>3. QED
      BY <1>4, <3>1, <3>2 DEF AccessControlReady
  <2>2. registry' = Registered'
    BY <2>1 DEF GuardInv, Registered
  <2>3. QED
    BY <2>1, <2>2 DEF GuardInv, emberAfReadAttribute
<1>5. CASE InitializeFabricHandlers
  <2>1. call = 11 /\ call' = 12 /\ UNCHANGED <<registry, seeded, guard>>
    <3>1. call \in 1..11 /\ Calls[call] = "FabricHandlers" /\ call' = call + 1
      BY <1>5, CallsRegister DEF InitializeFabricHandlers, At, AccessTypeOK
    <3>2. call \notin 1..10
      BY <3>1, ListenerIsLast
    <3>3. QED
      BY <1>5, <3>1, <3>2 DEF InitializeFabricHandlers
  <2>2. registry' = Registered'
    BY <2>1 DEF GuardInv, Registered
  <2>3. QED
    BY <2>1, <2>2 DEF GuardInv, emberAfReadAttribute
<1>6. CASE ResetDevice
  <2>1. registry' = Registered'
    BY <1>6 DEF ResetDevice, Registered
  <2>2. \A c \in DOMAIN Expected : guard'[c] # "expected"
    BY <1>6 DEF ResetDevice
  <2>3. QED
    BY <2>1, <2>2 DEF GuardInv
<1>7. CASE UNCHANGED boot
  BY <1>7 DEF boot, GuardInv, Registered, emberAfReadAttribute
<1>8. ChangeEntry \/ SubscribeAll \/ ReportAcl \/ Loop \/ UNCHANGED allVars => UNCHANGED boot
  BY DEF ChangeEntry, SubscribeAll, ReportAcl, Loop, allVars, boot
<1>9. QED
  BY <1>2, <1>3, <1>4, <1>5, <1>6, <1>7, <1>8 DEF AccessNext, Boot

\* The interfaces that encode a revision of the sanity list: the sanitizer of the
\* Descriptor cluster and the TimeSyncDelegate, next to the filter.
LEMMA EncodersAre ==
    ASSUME registry = Names
    PROVE  /\ Encoders(EP0("TimeSynchronization"), "ClusterRevision") = {"TimeSyncDelegate"}
           /\ Encoders(EP0("Descriptor"), "ClusterRevision") = {"sDescriptor"}
           /\ \A c \in {"BasicInformation", "LocalizationConfiguration", "GeneralCommissioning",
                        "NetworkCommissioning", "AdministratorCommissioning",
                        "OperationalCredentials", "AccessControl", "GeneralDiagnostics"} :
                  Encoders(EP0(c), "ClusterRevision") = {}
<1>1. ASSUME NEW a, NEW b, NEW e \in {0, 1}, NEW f \in {0, 1}
      PROVE  <<e, a>> = <<f, b>> => e = f /\ a = b
  OBVIOUS
<1>2. "ClusterRevision" \in Interfaces["TimeSyncDelegate"].encodes
      /\ "ClusterRevision" \in Interfaces["sDescriptor"].encodes
      /\ "ClusterRevision" \notin Interfaces["sBasicInfo"].encodes
      /\ "ClusterRevision" \notin Interfaces["GenDiagAttrAccess"].encodes
  BY DEF Interfaces, Interface, TimeSyncDelegate, BasicInfo, Descriptor, GenDiagAttrAccess,
         Attributes, DescriptorAttributes, Globals
<1>3. ASSUME NEW i \in Names, NEW c, Interfaces[i].path = EP0(c)
      PROVE  /\ c = "TimeSynchronization" => i = "TimeSyncDelegate"
             /\ c = "Descriptor" => i = "sDescriptor"
             /\ c = "BasicInformation" => i = "sBasicInfo"
             /\ c = "GeneralDiagnostics" => i = "GenDiagAttrAccess"
             /\ c \in {"TimeSynchronization", "GeneralDiagnostics", "BasicInformation",
                       "Descriptor", "ICDManagement", "GroupKeyManagement"}
  BY <1>1, <1>3, InterfacesAre DEF Names, EP0, EP1
<1>4. QED
  BY <1>2, <1>3, InterfacesAre DEF Encoders, Names

\* Once the event loop runs, every interface is in the registry.
LEMMA LoopRegistered == ASSUME AccessTypeOK, GuardInv, LoopRuns PROVE registry = Names
<1>1. call = 12
  BY CallsRegister DEF LoopRuns, AccessTypeOK
<1>2. Registered = {Calls[i] : i \in 1..8}
  BY <1>1 DEF Registered
<1>3. QED
  BY <1>2, CallsRegister DEF GuardInv

LEMMA GuardInvSuffices == AccessTypeOK /\ GuardInv => GuardSeesServed
<1> SUFFICES ASSUME AccessTypeOK, GuardInv, LoopRuns PROVE GuardSeesServed
  BY DEF GuardSeesServed
<1>1. registry = Names
  BY LoopRegistered
<1>2. \A c : FilterRevision(EP0(c)) = IF c = "GroupKeyManagement" THEN <<2>> ELSE NotHeld
  BY DEF FilterRevision, EP0
<1>3. <<2>> # NotHeld
  BY DEF NotHeld
<1>4. Revision(EP0("GroupKeyManagement")) = <<2>> /\ Expected.GroupKeyManagement = 2
  BY <1>2, <1>3 DEF Revision, Expected
<1>5. ASSUME NEW c \in DOMAIN Expected, guard[c] = "expected"
      PROVE  Revision(EP0(c)) = <<Expected[c]>>
  <2>1. emberAfReadAttribute(c) = <<Expected[c]>> /\ <<Expected[c]>> # NotHeld
    BY <1>5 DEF GuardInv, NotHeld
  <2>2. c = "GroupKeyManagement" \/ c \in DOMAIN TableRevision
    BY <2>1 DEF emberAfReadAttribute
  <2>3. CASE c = "GroupKeyManagement"
    BY <1>4, <2>3
  <2>4. CASE c = "TimeSynchronization"
    <3>1. Interfaces["TimeSyncDelegate"].revision = 2 /\ Expected[c] = 2
      BY <2>4 DEF Interfaces, Interface, TimeSyncDelegate, Expected
    <3>2. QED
      BY <1>1, <1>2, <2>4, <3>1, EncodersAre DEF Revision
  <2>5. CASE c \in {"BasicInformation", "LocalizationConfiguration", "GeneralCommissioning",
                    "NetworkCommissioning", "AdministratorCommissioning",
                    "OperationalCredentials"}
    <3>1. Revision(EP0(c)) = emberAfReadAttribute(EP0(c)[2])
      BY <1>1, <1>2, <2>5, EncodersAre DEF Revision
    <3>2. QED
      BY <2>1, <3>1 DEF EP0
  <2>6. QED
    BY <2>2, <2>3, <2>4, <2>5 DEF TableRevision, Expected
<1>6. QED
  BY <1>1, <1>4, <1>5, InterfacesAre DEF GuardSeesServed, AccessTypeOK

LEMMA GuardInvHolds == AccessSpec => [](AccessTypeOK /\ GuardInv)
<1>1. AccessInit => GuardInv
  BY DEF AccessInit, GuardInv, Registered
<1>2. QED
  BY <1>1, AccessTypeCorrect, GuardStep, PTL DEF AccessSpec

\* No registration is refused, and a revision the guard found as expected is the
\* one a client is served.
THEOREM GuardSees == AccessSpec => []GuardSeesServed
<1>1. QED
  BY GuardInvHolds, GuardInvSuffices, PTL

\* ep0_revision_guard.cpp:39, the "EP0 sanity list", which the run revision_guard
\* refutes: it is wrong about the Descriptor and the GeneralCommissioning cluster
\* after every boot, and about no other cluster whose revision is served.
THEOREM SanityListFrontier ==
    AccessSpec =>
        [](LoopRuns =>
               \A c \in DOMAIN Expected :
                   Revision(EP0(c)) \in {NotHeld, <<Expected[c]>>}
                       <=> c \notin {"Descriptor", "GeneralCommissioning"})
<1>1. ASSUME registry = Names, NEW c \in DOMAIN Expected
      PROVE  Revision(EP0(c)) \in {NotHeld, <<Expected[c]>>}
                 <=> c \notin {"Descriptor", "GeneralCommissioning"}
  <2>1. \A n \in Nat : <<n>> # NotHeld
    BY DEF NotHeld
  <2>2. \A m, n \in Nat : <<m>> = <<n>> => m = n
    OBVIOUS
  <2>3. FilterRevision(EP0(c)) = IF c = "GroupKeyManagement" THEN <<2>> ELSE NotHeld
    BY DEF FilterRevision, EP0
  <2>4. EP0(c)[2] = c
    BY DEF EP0
  <2>5. CASE c = "GroupKeyManagement"
    <3>1. Revision(EP0(c)) = <<2>> /\ Expected[c] = 2
      BY <2>1, <2>3, <2>5 DEF Revision, Expected
    <3>2. QED
      BY <2>5, <3>1
  <2>6. CASE c = "TimeSynchronization"
    <3>1. Interfaces["TimeSyncDelegate"].revision = 2 /\ Expected[c] = 2
      BY <2>6 DEF Interfaces, Interface, TimeSyncDelegate, Expected
    <3>2. Revision(EP0(c)) = <<2>>
      BY <1>1, <2>3, <2>6, <3>1, EncodersAre DEF Revision
    <3>3. QED
      BY <2>6, <3>1, <3>2
  <2>7. CASE c = "Descriptor"
    <3>1. Interfaces["sDescriptor"].revision = 2 /\ Expected[c] = 3
      BY <2>7 DEF Interfaces, Interface, Descriptor, Expected
    <3>2. Revision(EP0(c)) = <<2>>
      BY <1>1, <2>3, <2>7, <3>1, EncodersAre DEF Revision
    <3>3. QED
      BY <2>1, <2>2, <2>7, <3>1, <3>2
  <2>8. CASE c \in {"BasicInformation", "LocalizationConfiguration", "GeneralCommissioning",
                    "NetworkCommissioning", "AdministratorCommissioning",
                    "OperationalCredentials", "AccessControl", "GeneralDiagnostics"}
    <3>1. Revision(EP0(c)) = emberAfReadAttribute(c)
      BY <1>1, <2>3, <2>4, <2>8, EncodersAre DEF Revision
    <3>2. CASE c \in {"AccessControl", "GeneralDiagnostics"}
      <4>1. emberAfReadAttribute(c) = NotHeld
        BY <3>2 DEF emberAfReadAttribute, TableRevision
      <4>2. QED
        BY <3>1, <3>2, <4>1
    <3>3. CASE c = "GeneralCommissioning"
      <4>1. emberAfReadAttribute(c) = <<1>> /\ Expected[c] = 2
        BY <3>3 DEF emberAfReadAttribute, TableRevision, Expected
      <4>2. QED
        BY <2>1, <2>2, <3>1, <3>3, <4>1
    <3>4. CASE c \notin {"AccessControl", "GeneralDiagnostics", "GeneralCommissioning"}
      <4>1. emberAfReadAttribute(c) = <<Expected[c]>>
        BY <2>8, <3>4 DEF emberAfReadAttribute, TableRevision, Expected
      <4>2. QED
        BY <2>8, <3>1, <3>4, <4>1
    <3>5. QED
      BY <3>2, <3>3, <3>4
  <2>9. QED
    BY <2>5, <2>6, <2>7, <2>8 DEF Expected
<1>2. AccessTypeOK /\ GuardInv =>
          (LoopRuns =>
               \A c \in DOMAIN Expected :
                   Revision(EP0(c)) \in {NotHeld, <<Expected[c]>>}
                       <=> c \notin {"Descriptor", "GeneralCommissioning"})
  BY <1>1, LoopRegistered
<1>3. QED
  BY <1>2, GuardInvHolds, PTL

(***************************************************************************)
(* What is served and what is listed.                                      *)
(***************************************************************************)
\* The paths of an endpoint and a cluster.
LEMMA PathsAre ==
    /\ \A a : EP0(a)[2] = a /\ EP1(a)[2] = a
    /\ \A a, b : EP0(a) # EP1(b)
    /\ \A a, b : EP0(a) = EP0(b) => a = b
<1>1. ASSUME NEW a, NEW b, NEW e \in {0, 1}, NEW f \in {0, 1}
      PROVE  <<e, a>>[2] = a /\ (<<e, a>> = <<f, b>> => e = f /\ a = b)
  OBVIOUS
<1>2. QED
  BY <1>1 DEF EP0, EP1

\* The path of an interface is answered by it and by the data model.
LEMMA OneAnswers ==
    ASSUME registry = Names, NEW i \in Names, NEW path, path = Interfaces[i].path
    PROVE  /\ Served(path) = Interfaces[i].encodes \union (Metadata(path) \ Interfaces[i].refuses)
           /\ Listed(path) = IF "AttributeList" \in Interfaces[i].encodes THEN Interfaces[i].list
                             ELSE Metadata(path)
<1>1. {j \in registry : Interfaces[j].path = path} = {i}
  BY PathsDiffer
<1>2. Refused(path) = Interfaces[i].refuses
  BY <1>1 DEF Refused
<1>3. Served(path) = Interfaces[i].encodes \union (Metadata(path) \ Interfaces[i].refuses)
  BY <1>1, <1>2 DEF Served
<1>4. CASE "AttributeList" \in Interfaces[i].encodes
  <2>1. Encoders(path, "AttributeList") = {i}
    BY <1>1, <1>4 DEF Encoders
  <2>2. QED
    BY <1>3, <1>4, <2>1 DEF Listed
<1>5. CASE "AttributeList" \notin Interfaces[i].encodes
  <2>1. Encoders(path, "AttributeList") = {}
    BY <1>1, <1>5 DEF Encoders
  <2>2. QED
    BY <1>3, <1>5, <2>1 DEF Listed
<1>6. QED
  BY <1>4, <1>5

\* Any other path is answered by the data model.
LEMMA NoneAnswers ==
    ASSUME registry = Names, NEW path, \A i \in Names : Interfaces[i].path # path
    PROVE  Served(path) = Metadata(path) /\ Listed(path) = Metadata(path)
<1>1. {j \in registry : Interfaces[j].path = path} = {}
  OBVIOUS
<1>2. Encoders(path, "AttributeList") = {}
  BY <1>1 DEF Encoders
<1>3. Refused(path) = {}
  BY <1>1 DEF Refused
<1>4. Served(path) = Metadata(path)
  BY <1>1, <1>3 DEF Served
<1>5. Listed(path) = Metadata(path)
  BY <1>2 DEF Listed
<1>6. QED
  BY <1>4, <1>5

\* A list is exact but for what Unlisted names.
Exact(path) == Listed(path) \subseteq Served(path) /\ Served(path) \ Listed(path) = Unlisted(path)

\* Sanitizer and data model agree on the attributes of the Descriptor clusters.
LEMMA DescriptorExact ==
    ASSUME registry = Names PROVE Exact(EP0("Descriptor")) /\ Exact(EP1("Descriptor"))
<1>1. ASSUME NEW path \in {EP0("Descriptor"), EP1("Descriptor")}, NEW i \in Names,
             Interfaces[i] = Descriptor(path)
      PROVE  Exact(path)
  <2>1. /\ Interfaces[i].path = path /\ Interfaces[i].encodes = DescriptorAttributes
        /\ Interfaces[i].refuses = {} /\ Interfaces[i].list = DescriptorAttributes
    BY <1>1 DEF Descriptor, Interface
  <2>2. Metadata(path) = DescriptorAttributes
    <3>1. path[2] = "Descriptor"
      BY PathsAre
    <3>2. QED
      BY <3>1 DEF Metadata, ShouldFilter, DataModel, DescriptorAttributes
  <2>3. "AttributeList" \in DescriptorAttributes
    BY DEF DescriptorAttributes, Globals
  <2>4. Served(path) = DescriptorAttributes /\ Listed(path) = DescriptorAttributes
    BY <2>1, <2>2, <2>3, OneAnswers
  <2>5. Unlisted(path) = {}
    BY PathsAre DEF Unlisted
  <2>6. QED
    BY <2>4, <2>5 DEF Exact
<1>2. QED
  BY <1>1 DEF Interfaces, Names

\* The sanitizer of ICDManagement: what it refuses is not in the data model.
LEMMA IcdExact ==
    ASSUME registry = Names
    PROVE  Exact(EP0("ICDManagement")) /\ Listed(EP0("ICDManagement")) = IcdAttributes
<1> DEFINE path == EP0("ICDManagement")
<1>1. /\ Interfaces["sIcd"].path = path /\ Interfaces["sIcd"].encodes = IcdAttributes
      /\ Interfaces["sIcd"].refuses = {"RegisteredClients", "ICDCounter"}
      /\ Interfaces["sIcd"].list = IcdAttributes
  BY DEF Interfaces, Icd, Interface, IcdList
<1>2. Metadata(path) = IcdAttributes
  <2>1. path[2] = "ICDManagement"
    BY PathsAre
  <2>2. QED
    BY <2>1 DEF Metadata, ShouldFilter, DataModel, IcdAttributes
<1>3. "AttributeList" \in IcdAttributes
  BY DEF IcdAttributes, Globals
<1>4. Served(path) = IcdAttributes \union (IcdAttributes \ {"RegisteredClients", "ICDCounter"})
      /\ Listed(path) = IcdAttributes
  BY <1>1, <1>2, <1>3, OneAnswers DEF Names
<1>5. Unlisted(path) = {}
  BY PathsAre DEF Unlisted
<1>6. QED
  BY <1>4, <1>5 DEF Exact

\* The delegate lists what it encodes, and refuses the two attributes it names
\* and does not list.
LEMMA TimeSyncExact ==
    ASSUME registry = Names
    PROVE  /\ Exact(EP0("TimeSynchronization"))
           /\ Listed(EP0("TimeSynchronization")) = AttributeList
<1> DEFINE path == EP0("TimeSynchronization")
           i    == "TimeSyncDelegate"
<1>1. /\ Interfaces[i].path = path /\ Interfaces[i].encodes = Attributes \ {"TimeZone", "DSTOffset"}
      /\ Interfaces[i].refuses = {"TimeZone", "DSTOffset"} /\ Interfaces[i].list = AttributeList
  BY DEF Interfaces, TimeSyncDelegate, Interface
<1>2. Metadata(path) = AttributeList
  <2>1. path[2] = "TimeSynchronization"
    BY PathsAre
  <2>2. QED
    BY <2>1 DEF Metadata, ShouldFilter, DataModel, AttributeList
<1>3. Attributes \ {"TimeZone", "DSTOffset"} = AttributeList /\ "AttributeList" \in AttributeList
  BY DEF Attributes, AttributeList, Globals
<1>4. Served(path) = AttributeList \union (AttributeList \ {"TimeZone", "DSTOffset"})
      /\ Listed(path) = AttributeList
  BY <1>1, <1>2, <1>3, OneAnswers DEF Names
<1>5. Unlisted(path) = {}
  BY PathsAre DEF Unlisted
<1>6. QED
  BY <1>4, <1>5 DEF Exact

\* The sanitizer of BasicInformation leaves the feature map and the attributes
\* ConfigureBasicInformation enables out of its list.
LEMMA BasicInfoExact == ASSUME registry = Names PROVE Exact(EP0("BasicInformation"))
<1> DEFINE path == EP0("BasicInformation")
           i    == "sBasicInfo"
<1>1. /\ Interfaces[i].path = path
      /\ Interfaces[i].encodes = {"UniqueID", "ConfigurationVersion", "AttributeList"}
      /\ Interfaces[i].refuses = {} /\ Interfaces[i].list = BasicInfoList
  BY DEF Interfaces, BasicInfo, Interface
<1>2. Metadata(path) = Globals \union {"Other", "UniqueID"} \union OptionalAttributes
  <2>1. path[2] = "BasicInformation"
    BY PathsAre
  <2>2. QED
    BY <2>1 DEF Metadata, ShouldFilter, DataModel
<1>3. /\ Listed(path) = BasicInfoList
      /\ Served(path) = {"UniqueID", "ConfigurationVersion", "AttributeList"}
                           \union Globals \union {"Other", "UniqueID"} \union OptionalAttributes
  BY <1>1, <1>2, OneAnswers DEF Names
<1>4. Unlisted(path) = OptionalAttributes \union {"FeatureMap"}
  BY DEF Unlisted
<1>5. QED
  BY <1>3, <1>4 DEF Exact, BasicInfoList, OptionalAttributes, Globals

\* An interface that encodes attributes of the data model and not the list.
LEMMA OverrideExact ==
    ASSUME registry = Names, NEW i \in Names, NEW path, path = Interfaces[i].path,
           Interfaces[i].refuses = {}, Interfaces[i].encodes \subseteq Metadata(path),
           "AttributeList" \notin Interfaces[i].encodes, path # EP0("BasicInformation")
    PROVE  Exact(path)
<1>1. Served(path) = Metadata(path) /\ Listed(path) = Metadata(path)
  BY OneAnswers
<1>2. QED
  BY <1>1 DEF Exact, Unlisted

LEMMA OthersExact ==
    ASSUME registry = Names
    PROVE  /\ Exact(EP0("GeneralDiagnostics")) /\ Exact(EP0("GroupKeyManagement"))
           /\ Exact(EP1("Identify")) /\ Exact(EP0("GeneralCommissioning"))
<1>1. ASSUME NEW path PROVE Globals \subseteq Metadata(path) /\ Metadata(path) = DataModel(path)
  BY DEF Metadata, ShouldFilter, DataModel
<1>2. "ClusterRevision" \in Globals
  BY DEF Globals
<1>3. Exact(EP0("GroupKeyManagement"))
  <2>1. /\ Interfaces["GkmClusterRevisionOverride"].path = EP0("GroupKeyManagement")
        /\ Interfaces["GkmClusterRevisionOverride"].encodes = {"ClusterRevision"}
        /\ Interfaces["GkmClusterRevisionOverride"].refuses = {}
    BY DEF Interfaces, GkmClusterRevisionOverride, Interface
  <2>2. EP0("GroupKeyManagement") # EP0("BasicInformation")
    BY PathsAre
  <2>3. QED
    BY <1>1, <1>2, <2>1, <2>2, OverrideExact DEF Names
<1>4. Exact(EP1("Identify"))
  <2>1. /\ Interfaces["IdentifyRevisionOverride"].path = EP1("Identify")
        /\ Interfaces["IdentifyRevisionOverride"].encodes = {"ClusterRevision"}
        /\ Interfaces["IdentifyRevisionOverride"].refuses = {}
    BY DEF Interfaces, IdentifyRevisionOverride, Interface
  <2>2. EP1("Identify") # EP0("BasicInformation")
    BY PathsAre
  <2>3. QED
    BY <1>1, <1>2, <2>1, <2>2, OverrideExact DEF Names
<1>5. Exact(EP0("GeneralDiagnostics"))
  <2>1. /\ Interfaces["GenDiagAttrAccess"].path = EP0("GeneralDiagnostics")
        /\ Interfaces["GenDiagAttrAccess"].encodes = {"BootReason", "ActiveHardwareFaults"}
        /\ Interfaces["GenDiagAttrAccess"].refuses = {}
    BY DEF Interfaces, GenDiagAttrAccess, Interface
  <2>2. EP0("GeneralDiagnostics")[2] = "GeneralDiagnostics"
    BY PathsAre
  <2>3. {"BootReason", "ActiveHardwareFaults"} \subseteq Metadata(EP0("GeneralDiagnostics"))
    BY <1>1, <2>2 DEF DataModel
  <2>4. EP0("GeneralDiagnostics") # EP0("BasicInformation")
    BY PathsAre
  <2>5. QED
    BY <2>1, <2>3, <2>4, OverrideExact DEF Names
<1>6. Exact(EP0("GeneralCommissioning"))
  <2>1. \A i \in Names : Interfaces[i].path # EP0("GeneralCommissioning")
    BY InterfacesAre, PathsAre DEF Names
  <2>2. EP0("GeneralCommissioning") # EP0("BasicInformation")
    BY PathsAre
  <2>3. QED
    BY <2>1, <2>2, NoneAnswers DEF Exact, Unlisted
<1>7. QED
  BY <1>3, <1>4, <1>5, <1>6

\* What a client reads in an AttributeList is what it can read, on every path and
\* after every boot: the lists of the sanitizers, what the interfaces encode and
\* refuse, the filter and the data model agree.
THEOREM ListsExact == AccessSpec => []ListsAreExact
<1>1. AccessTypeOK /\ GuardInv => ListsAreExact
  <2> SUFFICES ASSUME AccessTypeOK, GuardInv, LoopRuns PROVE ListsAreExact
    BY DEF ListsAreExact
  <2>1. registry = Names
    BY LoopRegistered
  <2>2. \A path \in Paths : Exact(path)
    BY <2>1, DescriptorExact, IcdExact, TimeSyncExact, BasicInfoExact, OthersExact DEF Paths
  <2>3. {"UTCTime", "Granularity", "TimeSource"} \subseteq Listed(EP0("TimeSynchronization"))
    BY <2>1, TimeSyncExact DEF AttributeList
  <2>4. {"IdleModeDuration", "ActiveModeDuration", "ActiveModeThreshold"}
            \subseteq Listed(EP0("ICDManagement"))
    BY <2>1, IcdExact DEF IcdAttributes
  <2>5. QED
    BY <2>2, <2>3, <2>4 DEF ListsAreExact, Exact
<1>2. QED
  BY <1>1, GuardInvHolds, PTL
=============================================================================
