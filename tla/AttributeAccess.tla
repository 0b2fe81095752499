--------------------------- MODULE AttributeAccess ---------------------------
(***************************************************************************)
(* Who answers when a client reads an attribute.  Every read meets the     *)
(* MetadataFilter first, then the interface registered for the cluster     *)
(* (the AttrListSanitizers, the revision overrides, the diagnostics        *)
(* interface, the TimeSyncDelegate of module TimeSync), which encodes the  *)
(* attribute, refuses it or leaves it to the data model generated from     *)
(* soil-sensor-app.zap.  main registers the interfaces one by one, checks  *)
(* the revisions (ep0_revision_guard.cpp) and starts the event loop, which *)
(* serves the reads and the subscriptions.                                 *)
(*                                                                         *)
(* A path is <<endpoint, cluster>>.  The attributes of a cluster that no   *)
(* interface touches are the one attribute "Other".                        *)
(***************************************************************************)
EXTENDS TimeSync, Sequences

VARIABLES
    call,      \* the next of Calls; beyond the last one the event loop runs
    registry,  \* AttributeAccessInterfaceRegistry: names of interfaces
    seeded,    \* the data model took the GroupKeyManagement revision
    guard,     \* what LogClusterRevision found, by cluster
    listener,  \* sAclListenerRegistered: gAccessControlEntryListener is called on changes
    aclSeen,   \* the subscriber was told the access-control entries there are
    aclDirty   \* the AccessControl attributes are marked dirty

boot == <<call, registry, seeded, guard, listener>>
access == <<aclSeen, aclDirty>>
allVars == <<vars, boot, access>>

(***************************************************************************)
(* The data model: soil-sensor-app.zap and ConfigureBasicInformation.      *)
(***************************************************************************)
DescriptorAttributes == {"DeviceTypeList", "ServerList", "ClientList", "PartsList"} \union Globals

IcdAttributes == {"IdleModeDuration", "ActiveModeDuration", "ActiveModeThreshold"} \union Globals

OptionalAttributes == {"ManufacturingDate", "PartNumber", "ProductURL", "ProductLabel",
                       "SerialNumber", "ProductAppearance"}

EP0(cluster) == <<0, cluster>>
EP1(cluster) == <<1, cluster>>

Paths == {EP0("Descriptor"), EP1("Descriptor"), EP0("BasicInformation"), EP0("ICDManagement"),
          EP0("GeneralDiagnostics"), EP0("GroupKeyManagement"), EP1("Identify"),
          EP0("TimeSynchronization"), EP0("GeneralCommissioning")}

DataModel(path) ==
    Globals \union
    CASE path[2] = "Descriptor"            -> DescriptorAttributes
      [] path[2] = "ICDManagement"         -> IcdAttributes
      [] path[2] = "TimeSynchronization"   -> {"UTCTime", "Granularity", "TimeSource"}
      [] path[2] = "BasicInformation"      -> {"Other", "UniqueID"} \union OptionalAttributes
      [] path[2] = "GeneralDiagnostics"    -> {"Other", "BootReason", "ActiveHardwareFaults"}
      [] OTHER                             -> {"Other"}

\* MetadataFilter::Attributes asks ShouldFilter of every attribute of Basic
\* Information and appends the others to the list it took from the provider.
ShouldFilter(path, attribute) == FALSE

Metadata(path) == {a \in DataModel(path) : ~ShouldFilter(path, a)}

\* The cluster revisions of endpoint 0 that the attribute table holds; the
\* other clusters keep theirs outside of it.
TableRevision ==
    [BasicInformation |-> 5, LocalizationConfiguration |-> 1, GeneralCommissioning |-> 1,
     NetworkCommissioning |-> 2, AdministratorCommissioning |-> 1, OperationalCredentials |-> 2,
     TimeSynchronization |-> 2, ICDManagement |-> 3]

NotHeld == <<>>

emberAfReadAttribute(cluster) ==
    IF cluster = "GroupKeyManagement" /\ seeded THEN <<2>>
    ELSE IF cluster \in DOMAIN TableRevision THEN <<TableRevision[cluster]>> ELSE NotHeld

(***************************************************************************)
(* The interfaces: the path they are registered for, what they encode,     *)
(* what they refuse, the AttributeList they give, if they give one, and    *)
(* the ClusterRevision, if they encode it.                                 *)
(***************************************************************************)
Interface(path, encodes, refuses, list, revision) ==
    [path |-> path, encodes |-> encodes, refuses |-> refuses, list |-> list,
     revision |-> revision]

\* Mutated form: the list gives an attribute that Read refuses.
IcdListWithClients == IcdAttributes \union {"RegisteredClients"}

IcdList == IcdAttributes

BasicInfoList ==
    {"Other", "UniqueID", "ConfigurationVersion"} \union (Globals \ {"FeatureMap"})

\* AttrListSanitizer of the Descriptor cluster of an endpoint.
Descriptor(path) ==
    Interface(path, DescriptorAttributes, {}, DescriptorAttributes, 2)

TimeSyncDelegate ==
    Interface(EP0("TimeSynchronization"), Attributes \ {"TimeZone", "DSTOffset"},
              {"TimeZone", "DSTOffset"}, AttributeList, 2)

GenDiagAttrAccess ==
    Interface(EP0("GeneralDiagnostics"), {"BootReason", "ActiveHardwareFaults"}, {}, {}, 0)

BasicInfo ==
    Interface(EP0("BasicInformation"), {"UniqueID", "ConfigurationVersion", "AttributeList"}, {},
              BasicInfoList, 0)

Icd ==
    Interface(EP0("ICDManagement"), IcdAttributes, {"RegisteredClients", "ICDCounter"}, IcdList, 3)

IdentifyRevisionOverride == Interface(EP1("Identify"), {"ClusterRevision"}, {}, {}, 6)

GkmClusterRevisionOverride ==
    Interface(EP0("GroupKeyManagement"), {"ClusterRevision"}, {}, {}, 2)

Interfaces ==
    [TimeSyncDelegate           |-> TimeSyncDelegate,
     GenDiagAttrAccess          |-> GenDiagAttrAccess,
     sBasicInfo                 |-> BasicInfo,
     sDescriptor                |-> Descriptor(EP0("Descriptor")),
     sDescriptorSoil            |-> Descriptor(EP1("Descriptor")),
     sIcd                       |-> Icd,
     IdentifyRevisionOverride   |-> IdentifyRevisionOverride,
     GkmClusterRevisionOverride |-> GkmClusterRevisionOverride]

\* The interfaces that encode an attribute of a path.
Encoders(path, attribute) ==
    {i \in registry : Interfaces[i].path = path /\ attribute \in Interfaces[i].encodes}

Refused(path) == UNION {Interfaces[i].refuses : i \in {j \in registry : Interfaces[j].path = path}}

(***************************************************************************)
(* What a client is served.                                                *)
(***************************************************************************)
\* Its reads are answered with a value.
Served(path) ==
    (UNION {Interfaces[i].encodes : i \in {j \in registry : Interfaces[j].path = path}})
    \union (Metadata(path) \ Refused(path))

\* The AttributeList.
Listed(path) ==
    LET lists == {Interfaces[i].list : i \in Encoders(path, "AttributeList")}
    IN IF lists = {} THEN Metadata(path) ELSE UNION lists

\* MetadataFilter::ReadAttribute answers for GroupKeyManagement itself.
\* (Mutated form: with another revision than the other copies.)
FilterRevisionThree(path) == IF path = EP0("GroupKeyManagement") THEN <<3>> ELSE NotHeld

FilterRevision(path) == IF path = EP0("GroupKeyManagement") THEN <<2>> ELSE NotHeld

\* The ClusterRevision: of the filter, of an interface, or of the table; some
\* clusters answer with one the repository does not hold.
Revision(path) ==
    LET encoders == Encoders(path, "ClusterRevision")
    IN IF FilterRevision(path) # NotHeld THEN FilterRevision(path)
       ELSE IF encoders # {} THEN <<Interfaces[CHOOSE i \in encoders : TRUE].revision>>
       ELSE emberAfReadAttribute(path[2])

(***************************************************************************)
(* main, from RegisterTimeSyncDelegate to StartEventLoopTask.              *)
(***************************************************************************)
Calls == <<"TimeSyncDelegate", "GenDiagAttrAccess", "sBasicInfo", "sDescriptor", "sDescriptorSoil",
           "sIcd", "IdentifyRevisionOverride", "GkmClusterRevisionOverride",
           "RevisionSanityCheck", "AccessControl", "FabricHandlers">>

LoopRuns == call > Len(Calls)

At(name) == call <= Len(Calls) /\ Calls[call] = name /\ call' = call + 1

\* The sanity list.
Expected ==
    [GroupKeyManagement |-> 2, AccessControl |-> 2, Descriptor |-> 3, BasicInformation |-> 5,
     AdministratorCommissioning |-> 1, OperationalCredentials |-> 2, NetworkCommissioning |-> 2,
     GeneralDiagnostics |-> 2, GeneralCommissioning |-> 2, LocalizationConfiguration |-> 1,
     TimeSynchronization |-> 2]

AccessInit ==
    /\ Init
    /\ call = 1 /\ registry = {} /\ seeded = FALSE
    /\ guard = [c \in DOMAIN Expected |-> "none"]
    /\ listener = FALSE /\ aclSeen = FALSE /\ aclDirty = FALSE

\* The registry refuses a second interface for a path.
Register(name) ==
    /\ At(name)
    /\ registry' = registry \union
           {i \in {name} : \A j \in registry : Interfaces[j].path # Interfaces[i].path}
    /\ UNCHANGED <<vars, guard, listener, access>>

RegisterInterface(name) == Register(name) /\ UNCHANGED seeded

\* The revision is also written into the data model, which may refuse it.
RegisterGkmRevisionOverride ==
    /\ Register("GkmClusterRevisionOverride")
    /\ seeded' \in IF "GkmClusterRevisionOverride" \in registry' THEN BOOLEAN ELSE {FALSE}

LogClusterRevision(cluster) ==
    LET rev == emberAfReadAttribute(cluster)
    IN IF rev = NotHeld THEN "unread"
       ELSE IF rev = <<Expected[cluster]>> THEN "expected" ELSE "mismatch"

\* What LogClusterRevision returns is ignored.
RevisionSanityCheck ==
    /\ At("RevisionSanityCheck")
    /\ guard' = [c \in DOMAIN Expected |-> LogClusterRevision(c)]
    /\ UNCHANGED <<vars, registry, seeded, listener, access>>

\* NotifyAclChanged marks the AccessControl attributes dirty.
NotifyAclChanged == aclDirty' = TRUE

\* AssertRootAccessControlReady.
AccessControlReady ==
    /\ At("AccessControl")
    /\ NotifyAclChanged
    /\ UNCHANGED <<vars, registry, seeded, guard, listener, aclSeen>>

\* Mutated form: the test of sAclListenerRegistered is inverted.
AddListenerAgain == IF listener THEN listener' = TRUE ELSE UNCHANGED listener

\* InitializeFabricHandlers adds the listener once.
AddListener == IF ~listener THEN listener' = TRUE ELSE UNCHANGED listener

InitializeFabricHandlers ==
    /\ At("FabricHandlers")
    /\ AddListener
    /\ UNCHANGED <<vars, registry, seeded, guard, access>>

Boot ==
    \/ \E name \in DOMAIN Interfaces \ {"GkmClusterRevisionOverride"} : RegisterInterface(name)
    \/ RegisterGkmRevisionOverride \/ RevisionSanityCheck \/ AccessControlReady
    \/ InitializeFabricHandlers

(***************************************************************************)
(* The event loop, and the reset of the device.                            *)
(***************************************************************************)
\* An administrator creates, changes or deletes an entry: AccessControl calls the
\* listeners it has, OnEntryChanged.
ChangeEntry ==
    /\ LoopRuns
    /\ aclSeen' = FALSE
    /\ IF listener THEN NotifyAclChanged ELSE UNCHANGED aclDirty
    /\ UNCHANGED <<vars, boot>>

SubscribeAll ==
    /\ LoopRuns /\ Subscribe
    /\ aclSeen' = TRUE /\ aclDirty' = FALSE
    /\ UNCHANGED boot

ReportAcl ==
    /\ LoopRuns /\ subscribed /\ aclDirty
    /\ aclSeen' = TRUE /\ aclDirty' = FALSE
    /\ UNCHANGED <<vars, boot>>

Loop ==
    /\ LoopRuns
    /\ \/ \E t \in Times, source \in TimeSources \union {Absent} : SetUTCTime(t, source)
       \/ \E t \in Times : RefuseUTCTime(t)
       \/ Report \/ EndSubscription
    /\ UNCHANGED <<boot, access>>

ResetDevice ==
    /\ Reboot
    /\ call' = 1 /\ registry' = {} /\ seeded' = FALSE
    /\ guard' = [c \in DOMAIN Expected |-> "none"]
    /\ listener' = FALSE /\ aclSeen' = FALSE /\ aclDirty' = FALSE

AccessNext == Boot \/ ChangeEntry \/ SubscribeAll \/ ReportAcl \/ Loop \/ ResetDevice

AccessSpec == AccessInit /\ [][AccessNext]_allVars

(***************************************************************************)
(* Properties.                                                             *)
(***************************************************************************)
AccessTypeOK ==
    /\ TypeOK
    /\ call \in 1..Len(Calls) + 1
    /\ registry \subseteq DOMAIN Interfaces
    /\ seeded \in BOOLEAN
    /\ guard \in [DOMAIN Expected -> {"none", "unread", "expected", "mismatch"}]
    /\ {listener, aclSeen, aclDirty} \subseteq BOOLEAN

\* Attributes that are served but not listed: ConfigureBasicInformation enables
\* the optional ones and the data model has the feature map, the AttributeList
\* of the sanitizer has neither.
Unlisted(path) ==
    IF path = EP0("BasicInformation") THEN OptionalAttributes \union {"FeatureMap"} ELSE {}

\* What a client reads in an AttributeList is what it can read: filter, interface
\* and data model together answer every listed attribute, and every attribute
\* they answer is listed, but for those of Unlisted.  The attributes claimed in
\* docs/pics/soil_sensor_base.json are among them.
ListsAreExact ==
    LoopRuns =>
        /\ \A path \in Paths :
               Listed(path) \subseteq Served(path) /\ Served(path) \ Listed(path) = Unlisted(path)
        /\ {"UTCTime", "Granularity", "TimeSource"} \subseteq Listed(EP0("TimeSynchronization"))
        /\ {"IdleModeDuration", "ActiveModeDuration", "ActiveModeThreshold"}
               \subseteq Listed(EP0("ICDManagement"))

\* No registration was refused, and a revision the guard found as expected in the
\* table is the one a client is served through filter and interfaces: the copies
\* of a revision (table, interface, filter, sanity list) agree wherever the guard
\* can compare, whether or not the GroupKeyManagement revision could be seeded.
GuardSeesServed ==
    LoopRuns =>
        /\ registry = DOMAIN Interfaces
        /\ \A c \in DOMAIN guard :
               guard[c] = "expected" => Revision(EP0(c)) = <<Expected[c]>>
        /\ Revision(EP0("GroupKeyManagement")) = <<Expected.GroupKeyManagement>>

\* A subscriber knows the access-control entries, or they are about to be
\* reported: however early after a boot an entry changes, the listener that marks
\* the attributes is in place.  (NotifyAclChanged, AccessControlEntryListener,
\* InitializeFabricHandlers.)
AclIsReported == subscribed => aclDirty \/ aclSeen

(***************************************************************************)
(* A statement of the repository the code does not keep.                   *)
(***************************************************************************)
\* ep0_revision_guard.cpp:39: the "EP0 sanity list" gives the revisions of the
\* clusters of endpoint 0.
SanityListHolds ==
    LoopRuns =>
        \A c \in DOMAIN Expected : Revision(EP0(c)) \in {NotHeld, <<Expected[c]>>}
=============================================================================
