--------------------------- MODULE PeVisualBasic ---------------------------
(***************************************************************************)
(* The Visual Basic header of a PE file: PeFormat::loadVisualBasicHeader   *)
(* and the parsers it calls (pe_format.cpp): parseVisualBasicProjectInfo,  *)
(* parseVisualBasicExternTable, parseVisualBasicObjectTable,               *)
(* parseVisualBasicObjects, parseVisualBasicComRegistrationData and        *)
(* parseVisualBasicComRegistrationInfo.                                    *)
(*                                                                         *)
(* Every structure is reached through an address that getOffsetFromAddress *)
(* may fail to map and is read with getBytes, which may come up short.     *)
(* The model keeps the order of the calls, their early returns and the     *)
(* break/continue of every loop, and abstracts what is read to the        *)
(* outcome of each read: unmapped, unreadable, or the string found         *)
(* (readNullTerminatedAscii), drawn from StrValues.  Fixed-layout fields   *)
(* (LCIDs, CLSIDs, flags, version numbers) are data and left out.  Each    *)
(* structure's outcome is chosen by the step that reads it, so a parse     *)
(* that stops early does not range over what it never reads.               *)
(* VisualBasicInfo is not in the repository: hasProjectName() is taken to *)
(* be "the project name is not empty".                                     *)
(***************************************************************************)
EXTENDS Integers, Sequences, FiniteSets, SequencesExt

CONSTANTS
  StrValues,     \* strings readNullTerminatedAscii can return, "" included
  MaxExterns,    \* most entries of the extern table
  MaxObjects,    \* most public object descriptors
  MaxMethods,    \* most method-name slots of an object
  NoStr          \* a string offset or address that is 0 or cannot be mapped

ASSUME "" \in StrValues /\ NoStr \notin StrValues

\* The address pushed by the first instruction: in a section below 2^31, in
\* a section at or above 2^31, or in no section.
EpAddresses == {"mapped", "mappedHigh", "unmapped"}

(***************************************************************************)
(* bytes[4] << 24 | ... : bytes[4] is promoted to int, so an address with  *)
(* its top bit set becomes a negative int and is sign-extended to a 64-bit *)
(* unsigned long long that no section of a PE32 image contains.            *)
(***************************************************************************)
OffsetFromEpAddress(a) == a = "mapped"

\* A structure whose address cannot be mapped and one getBytes cannot read
\* whole take the same early return: both are "missing".
Reads == {"missing", "ok"}
OptStr == StrValues \cup {NoStr}

(***************************************************************************)
(* One entry of the extern table: short ("unreadable", break); "skipped"  *)
(* for the three checks that continue alike (type not external,           *)
(* importDataAddr unmapped, entry data short); or the module and API names *)
(* read for an external entry ("" when a name address is unmapped).        *)
(***************************************************************************)
ExternEntries ==
  [kind : {"unreadable", "skipped"}, module : {""}, api : {""}]
  \cup [kind : {"external"}, module : StrValues, api : StrValues]

\* One method-name slot: short, its address unmapped, or the name read.
MethodSlots == {"unreadable", "unmapped"} \cup StrValues
MethodTables == [mapped : {FALSE}, slots : {<<>>}]
                  \cup [mapped : {TRUE}, slots : BoundedSeq(MethodSlots, MaxMethods)]

\* One public object descriptor: short, its name unmapped, or read.
ObjectEntries ==
  [kind : {"unreadable", "nameUnmapped"}, name : {""},
   methods : [mapped : {FALSE}, slots : {<<>>}]]
  \cup [kind : {"named"}, name : StrValues, methods : MethodTables]

VARIABLES
  vbImport,        \* isVisualBasic(version)
  epPush,          \* the entry point holds PUSH imm32
  epAddress,
  vbHeader,        \* reading of the VB header: unreadable, bad signature, ok
  headerName,      \* the project name the VB header points at, or NoStr
  projectInfo,     \* the project info structure
  externMapped,    \* externalTableAddr can be mapped
  externTable,     \* the extern table entries
  objectTable,     \* the object table structure
  objectTableName, \* the project name the object table points at, or NoStr
  objectsMapped,   \* objectDescriptorsAddr can be mapped
  objectEntries,   \* the public object descriptors
  comRegData,      \* the COM registration data structure
  comRegInfo,      \* the COM registration info: "none" when its offset is 0
  comObjName,      \* the COM object name it points at, or NoStr
  \* visualBasicInfo, as far as it is modelled
  projectName,
  externs,
  objects,
  comObjectName,
  \* loop state
  i, m, object,
  pc

inputs == <<vbImport, epPush, epAddress, vbHeader, headerName, projectInfo,
            externMapped, externTable, objectTable, objectTableName,
            objectsMapped, objectEntries,
            comRegData, comRegInfo, comObjName>>
projectInputs == <<projectInfo, externMapped, externTable>>
objectInputs == <<objectTable, objectTableName, objectsMapped, objectEntries>>
comInputs == <<comRegData, comRegInfo, comObjName>>
headerInputs == <<vbImport, epPush, epAddress, vbHeader, headerName>>
vars == <<inputs, projectName, externs, objects, comObjectName, i, m, object, pc>>

NoObject == [name |-> "", methods |-> <<>>]

Init ==
  /\ vbImport \in BOOLEAN
  /\ epPush \in BOOLEAN
  /\ epAddress \in EpAddresses
  /\ vbHeader \in {"unreadable", "badSignature", "ok"}
  /\ headerName \in OptStr
  \* not read yet
  /\ projectInfo = "unread" /\ externMapped = FALSE /\ externTable = <<>>
  /\ objectTable = "unread" /\ objectTableName = NoStr
  /\ objectsMapped = FALSE /\ objectEntries = <<>>
  /\ comRegData = "unread" /\ comRegInfo = "none" /\ comObjName = NoStr
  /\ projectName = ""
  /\ externs = <<>>
  /\ objects = <<>>
  /\ comObjectName = ""
  /\ i = 0
  /\ m = 0
  /\ object = NoObject
  /\ pc = "header"

-----------------------------------------------------------------------------
(* loadVisualBasicHeader: the early returns *)

NotVisualBasic ==
  /\ pc = "header"
  /\ ~vbImport
  /\ pc' = "done"
  /\ UNCHANGED <<inputs, projectName, externs, objects, comObjectName, i, m, object>>

\* No PUSH <vbHeaderAddress> at the entry point, or it is not mapped.
NoHeaderAddress ==
  /\ pc = "header"
  /\ vbImport
  /\ ~epPush \/ ~OffsetFromEpAddress(epAddress)
  /\ pc' = "done"
  /\ UNCHANGED <<inputs, projectName, externs, objects, comObjectName, i, m, object>>

\* The header cannot be read whole, or its signature is not "VB5!".
HeaderRejected ==
  /\ pc = "header"
  /\ vbImport /\ epPush /\ OffsetFromEpAddress(epAddress)
  /\ vbHeader /= "ok"
  /\ pc' = "done"
  /\ UNCHANGED <<inputs, projectName, externs, objects, comObjectName, i, m, object>>

\* The strings the header points at; setProjectName when projNameOffset /= 0.
LoadHeader ==
  /\ pc = "header"
  /\ vbImport /\ epPush /\ OffsetFromEpAddress(epAddress)
  /\ vbHeader = "ok"
  /\ projectName' = IF headerName /= NoStr THEN headerName ELSE projectName
  /\ pc' = "projectInfo"
  /\ UNCHANGED <<inputs, externs, objects, comObjectName, i, m, object>>

-----------------------------------------------------------------------------
(* parseVisualBasicProjectInfo *)

\* projectInfoAddr unmapped, or the structure cannot be read whole.
NoProjectInfo ==
  /\ pc = "projectInfo"
  /\ projectInfo' \in Reads \ {"ok"}
  /\ pc' = "comRegData"
  /\ UNCHANGED <<headerInputs, externMapped, externTable, objectInputs, comInputs,
                 projectName, externs, objects, comObjectName, i, m, object>>

\* The extern table is parsed if externalTableAddr can be mapped.
ReadProjectInfo ==
  /\ pc = "projectInfo"
  /\ projectInfo' = "ok"
  /\ externMapped' \in BOOLEAN
  /\ externTable' \in IF externMapped' THEN BoundedSeq(ExternEntries, MaxExterns) ELSE {<<>>}
  /\ i' = 0
  /\ pc' = IF externMapped' THEN "externs" ELSE "objectTable"
  /\ UNCHANGED <<headerInputs, objectInputs, comInputs,
                 projectName, externs, objects, comObjectName, m, object>>

-----------------------------------------------------------------------------
(* parseVisualBasicExternTable: for i < nEntries *)

ExternEntry == externTable[i + 1]

\* An unreadable entry that is skipped instead of ending the loop.
ExternUnreadableContinue ==
  /\ pc = "externs"
  /\ i < Len(externTable)
  /\ ExternEntry.kind = "unreadable"
  /\ i' = i + 1
  /\ UNCHANGED <<inputs, projectName, externs, objects, comObjectName, m, object, pc>>

\* getBytes comes up short: break.
ExternUnreadable ==
  /\ pc = "externs"
  /\ i < Len(externTable)
  /\ ExternEntry.kind = "unreadable"
  /\ pc' = "objectTable"
  /\ UNCHANGED <<inputs, projectName, externs, objects, comObjectName, i, m, object>>

\* Not an external entry, its data unmapped or short, or no name: continue.
ExternSkipped ==
  /\ pc = "externs"
  /\ i < Len(externTable)
  /\ ExternEntry.kind /= "unreadable"
  /\ ExternEntry.module = "" /\ ExternEntry.api = ""
  /\ i' = i + 1
  /\ UNCHANGED <<inputs, projectName, externs, objects, comObjectName, m, object, pc>>

ExternAdded ==
  /\ pc = "externs"
  /\ i < Len(externTable)
  /\ ExternEntry.module /= "" \/ ExternEntry.api /= ""
  /\ externs' = Append(externs, [module |-> ExternEntry.module, api |-> ExternEntry.api])
  /\ i' = i + 1
  /\ UNCHANGED <<inputs, projectName, objects, comObjectName, m, object, pc>>

ExternsDone ==
  /\ pc = "externs"
  /\ i >= Len(externTable)
  /\ pc' = "objectTable"
  /\ UNCHANGED <<inputs, projectName, externs, objects, comObjectName, i, m, object>>

-----------------------------------------------------------------------------
(* parseVisualBasicObjectTable *)

\* objectTableAddr unmapped, or the structure cannot be read whole.
NoObjectTable ==
  /\ pc = "objectTable"
  /\ objectTable' \in Reads \ {"ok"}
  /\ pc' = "comRegData"
  /\ UNCHANGED <<headerInputs, projectInputs, objectTableName, objectsMapped,
                 objectEntries, comInputs,
                 projectName, externs, objects, comObjectName, i, m, object>>

\* The object table as read: its project name and its descriptors.
ObjectTableRead ==
  /\ objectTable' = "ok"
  /\ objectTableName' \in OptStr
  /\ objectsMapped' \in BOOLEAN
  /\ objectEntries' \in IF objectsMapped' THEN BoundedSeq(ObjectEntries, MaxObjects) ELSE {<<>>}

\* An object table that sets the project name whether or not one is set.
ReadObjectTableOverwritingName ==
  /\ pc = "objectTable"
  /\ ObjectTableRead
  /\ projectName' = IF objectTableName' /= NoStr THEN objectTableName' ELSE projectName
  /\ i' = 0
  /\ pc' = IF objectsMapped' THEN "objects" ELSE "comRegData"
  /\ UNCHANGED <<headerInputs, projectInputs, comInputs, externs, objects,
                 comObjectName, m, object>>

\* The project name is taken from the object table only if none is set yet.
ReadObjectTable ==
  /\ pc = "objectTable"
  /\ ObjectTableRead
  /\ projectName' = IF projectName = "" /\ objectTableName' /= NoStr
                      THEN objectTableName' ELSE projectName
  /\ i' = 0
  /\ pc' = IF objectsMapped' THEN "objects" ELSE "comRegData"
  /\ UNCHANGED <<headerInputs, projectInputs, comInputs, externs, objects,
                 comObjectName, m, object>>

-----------------------------------------------------------------------------
(* parseVisualBasicObjects: for i < nObjects, and for mIdx < nMethods *)

ObjectEntry == objectEntries[i + 1]
MethodSlot == ObjectEntry.methods.slots[m + 1]

\* getBytes comes up short: break.
ObjectUnreadable ==
  /\ pc = "objects"
  /\ i < Len(objectEntries)
  /\ ObjectEntry.kind = "unreadable"
  /\ pc' = "comRegData"
  /\ UNCHANGED <<inputs, projectName, externs, objects, comObjectName, i, m, object>>

\* objectNameAddr cannot be mapped: continue.
ObjectNameUnmapped ==
  /\ pc = "objects"
  /\ i < Len(objectEntries)
  /\ ObjectEntry.kind = "nameUnmapped"
  /\ i' = i + 1
  /\ UNCHANGED <<inputs, projectName, externs, objects, comObjectName, m, object, pc>>

\* One VisualBasicObject reused for every descriptor: only its name is set.
StartObjectReusingObject ==
  /\ pc = "objects"
  /\ i < Len(objectEntries)
  /\ ObjectEntry.kind = "named"
  /\ object' = [object EXCEPT !.name = ObjectEntry.name]
  /\ m' = 0
  /\ pc' = IF ObjectEntry.methods.mapped THEN "methods" ELSE "objectEnd"
  /\ UNCHANGED <<inputs, projectName, externs, objects, comObjectName, i>>

\* A new VisualBasicObject named by the string read; its methods follow if
\* methodNamesAddr can be mapped.
StartObject ==
  /\ pc = "objects"
  /\ i < Len(objectEntries)
  /\ ObjectEntry.kind = "named"
  /\ object' = [name |-> ObjectEntry.name, methods |-> <<>>]
  /\ m' = 0
  /\ pc' = IF ObjectEntry.methods.mapped THEN "methods" ELSE "objectEnd"
  /\ UNCHANGED <<inputs, projectName, externs, objects, comObjectName, i>>

\* The method-name slot cannot be read: break.
MethodUnreadable ==
  /\ pc = "methods"
  /\ m < Len(ObjectEntry.methods.slots)
  /\ MethodSlot = "unreadable"
  /\ pc' = "objectEnd"
  /\ UNCHANGED <<inputs, projectName, externs, objects, comObjectName, i, m, object>>

\* An empty method name that is added all the same.
MethodSkippedKeepingEmpty ==
  /\ pc = "methods"
  /\ m < Len(ObjectEntry.methods.slots)
  /\ MethodSlot \in {"unmapped", ""}
  /\ object' = IF MethodSlot = "" THEN [object EXCEPT !.methods = Append(@, "")]
                                  ELSE object
  /\ m' = m + 1
  /\ UNCHANGED <<inputs, projectName, externs, objects, comObjectName, i, pc>>

\* The name address cannot be mapped (continue), or the name is empty.
MethodSkipped ==
  /\ pc = "methods"
  /\ m < Len(ObjectEntry.methods.slots)
  /\ MethodSlot \in {"unmapped", ""}
  /\ m' = m + 1
  /\ UNCHANGED <<inputs, projectName, externs, objects, comObjectName, i, object, pc>>

MethodAdded ==
  /\ pc = "methods"
  /\ m < Len(ObjectEntry.methods.slots)
  /\ MethodSlot \in StrValues \ {""}
  /\ object' = [object EXCEPT !.methods = Append(@, MethodSlot)]
  /\ m' = m + 1
  /\ UNCHANGED <<inputs, projectName, externs, objects, comObjectName, i, pc>>

MethodsDone ==
  /\ pc = "methods"
  /\ m >= Len(ObjectEntry.methods.slots)
  /\ pc' = "objectEnd"
  /\ UNCHANGED <<inputs, projectName, externs, objects, comObjectName, i, m, object>>

\* An object with a name or a method is added to visualBasicInfo.
ObjectAdded ==
  /\ pc = "objectEnd"
  /\ object.name /= "" \/ object.methods /= <<>>
  /\ objects' = Append(objects, object)
  /\ i' = i + 1
  /\ pc' = "objects"
  /\ UNCHANGED <<inputs, projectName, externs, comObjectName, m, object>>

ObjectDropped ==
  /\ pc = "objectEnd"
  /\ object.name = "" /\ object.methods = <<>>
  /\ i' = i + 1
  /\ pc' = "objects"
  /\ UNCHANGED <<inputs, projectName, externs, objects, comObjectName, m, object>>

ObjectsDone ==
  /\ pc = "objects"
  /\ i >= Len(objectEntries)
  /\ pc' = "comRegData"
  /\ UNCHANGED <<inputs, projectName, externs, objects, comObjectName, i, m, object>>

-----------------------------------------------------------------------------
(* parseVisualBasicComRegistrationData and ...ComRegistrationInfo *)

\* COMRegisterDataAddr unmapped, or the structure cannot be read whole.
NoComRegData ==
  /\ pc = "comRegData"
  /\ comRegData' \in Reads \ {"ok"}
  /\ pc' = "done"
  /\ UNCHANGED <<headerInputs, projectInputs, objectInputs, comRegInfo, comObjName,
                 projectName, externs, objects, comObjectName, i, m, object>>

(***************************************************************************)
(* The project name, help file and description are read into locals when  *)
(* visualBasicInfo has none, and never stored: visualBasicInfo is left     *)
(* unchanged.  The registration info follows when regInfoOffset /= 0.      *)
(***************************************************************************)
ReadComRegData ==
  /\ pc = "comRegData"
  /\ comRegData' = "ok"
  /\ comRegInfo' \in {"none", "unreadable", "ok"}
  /\ comObjName' \in IF comRegInfo' = "ok" THEN OptStr ELSE {NoStr}
  /\ pc' = IF comRegInfo' = "none" THEN "done" ELSE "comRegInfo"
  /\ UNCHANGED <<headerInputs, projectInputs, objectInputs,
                 projectName, externs, objects, comObjectName, i, m, object>>

ComRegInfoUnreadable ==
  /\ pc = "comRegInfo"
  /\ comRegInfo = "unreadable"
  /\ pc' = "done"
  /\ UNCHANGED <<inputs, projectName, externs, objects, comObjectName, i, m, object>>

\* setCOMObjectName when objNameOffset /= 0.
ReadComRegInfo ==
  /\ pc = "comRegInfo"
  /\ comRegInfo = "ok"
  /\ comObjectName' = IF comObjName /= NoStr THEN comObjName ELSE comObjectName
  /\ pc' = "done"
  /\ UNCHANGED <<inputs, projectName, externs, objects, i, m, object>>

Terminated == pc = "done" /\ UNCHANGED vars

Next ==
  \/ NotVisualBasic \/ NoHeaderAddress \/ HeaderRejected \/ LoadHeader
  \/ NoProjectInfo \/ ReadProjectInfo
  \/ ExternUnreadable \/ ExternSkipped \/ ExternAdded \/ ExternsDone
  \/ NoObjectTable \/ ReadObjectTable
  \/ ObjectUnreadable \/ ObjectNameUnmapped \/ StartObject
  \/ MethodUnreadable \/ MethodSkipped \/ MethodAdded \/ MethodsDone
  \/ ObjectAdded \/ ObjectDropped \/ ObjectsDone
  \/ NoComRegData \/ ReadComRegData \/ ComRegInfoUnreadable \/ ReadComRegInfo
  \/ Terminated

Spec == Init /\ [][Next]_vars

-----------------------------------------------------------------------------
(* What the parsers are meant to produce, stated over the whole input *)

\* The entries of a table that a loop reaches before getBytes comes up short.
BeforeUnreadable(s, Unreadable(_)) ==
  LET k == SelectInSeq(s, Unreadable) IN IF k = 0 THEN s ELSE SubSeq(s, 1, k - 1)

HeaderParsed == vbImport /\ epPush /\ OffsetFromEpAddress(epAddress) /\ vbHeader = "ok"
ExternsReached == HeaderParsed /\ projectInfo = "ok" /\ externMapped
ObjectTableReached == HeaderParsed /\ projectInfo = "ok" /\ objectTable = "ok"
ObjectsReached == ObjectTableReached /\ objectsMapped

ExpectedExterns ==
  LET named == SelectSeq(BeforeUnreadable(externTable, LAMBDA e : e.kind = "unreadable"),
                         LAMBDA e : e.module /= "" \/ e.api /= "")
  IN [n \in 1..Len(named) |-> [module |-> named[n].module, api |-> named[n].api]]

ExpectedMethods(e) ==
  SelectSeq(BeforeUnreadable(e.methods.slots, LAMBDA s : s = "unreadable"),
            LAMBDA s : s \notin {"unmapped", ""})

ExpectedObjects ==
  LET named == SelectSeq(BeforeUnreadable(objectEntries, LAMBDA e : e.kind = "unreadable"),
                         LAMBDA e : e.kind = "named")
      built == [n \in 1..Len(named) |->
                  [name |-> named[n].name, methods |-> ExpectedMethods(named[n])]]
  IN SelectSeq(built, LAMBDA o : o.name /= "" \/ o.methods /= <<>>)

\* The name the header sets, or "" when it sets none.
HeaderProjectName == IF HeaderParsed /\ headerName /= NoStr THEN headerName ELSE ""

ExpectedProjectName ==
  IF HeaderProjectName = "" /\ ObjectTableReached /\ objectTableName /= NoStr
    THEN objectTableName ELSE HeaderProjectName

-----------------------------------------------------------------------------
(* Properties *)

VbObjects == [name : StrValues, methods : BoundedSeq(StrValues \ {""}, MaxMethods)]

\* Every variable of visualBasicInfo and of the loops holds a value of its type.
TypeOK ==
  /\ projectName \in StrValues
  /\ comObjectName \in StrValues
  /\ externs \in BoundedSeq([module : StrValues, api : StrValues], MaxExterns)
  /\ objects \in BoundedSeq(VbObjects, MaxObjects)
  /\ object \in VbObjects
  /\ i \in 0..Max({MaxExterns, MaxObjects})
  /\ m \in 0..MaxMethods
  /\ pc \in {"header", "projectInfo", "externs", "objectTable", "objects",
             "methods", "objectEnd", "comRegData", "comRegInfo", "done"}

(***************************************************************************)
(* parseVisualBasicExternTable breaks at the first entry getBytes cannot   *)
(* read and skips the others it cannot use: when loading ends, the externs *)
(* of visualBasicInfo are the entries with a module or API name that come  *)
(* before the first unreadable one, in table order, and there are none     *)
(* when the header, the project info or the table cannot be reached.       *)
(***************************************************************************)
ExternsMatchTable ==
  pc = "done" => externs = IF ExternsReached THEN ExpectedExterns ELSE <<>>

(***************************************************************************)
(* parseVisualBasicObjects, with its nested method loop, keeps exactly the *)
(* objects read before the first unreadable descriptor whose name is not   *)
(* empty or which have a method, each with the non-empty method names read *)
(* before its first unreadable slot: an unmapped name address skips one   *)
(* object or one method and ends neither loop.                             *)
(***************************************************************************)
ObjectsMatchTable ==
  pc = "done" => objects = IF ObjectsReached THEN ExpectedObjects ELSE <<>>

(***************************************************************************)
(* The project name comes from the VB header; the object table supplies   *)
(* one only when visualBasicInfo has none yet (hasProjectName), so a name *)
(* the header set survives every later parser, and an empty header name   *)
(* is replaced by the object table's.                                      *)
(***************************************************************************)
ProjectNamePrecedence ==
  pc = "done" => projectName = ExpectedProjectName

====
