--------------------------- MODULE DotnetTypeLib ---------------------------
(***************************************************************************)
(* Detection of the TypeLib id of a .NET module: PeFormat::detectTypeLibId *)
(* (pe_format.cpp).  Three searches run one after the other over the     *)
(* metadata tables:                                                        *)
(*   1. the first TypeRef row named GuidAttribute whose resolution scope   *)
(*      is the AssemblyRef row of mscorlib;                                *)
(*   2. the first MemberRef row whose class refers to that TypeRef;        *)
(*   3. the first CustomAttribute row whose type refers to that MemberRef  *)
(*      and whose value blob holds a GUID string.                          *)
(* The row counts serve as "not found" results of the first two searches. *)
(*                                                                         *)
(* A coded index (ECMA-335 II.24.2.6) is a pair <<table, row>>; the code  *)
(* compares only its row, getIndex().  String heap lookups are abstracted *)
(* to the names they yield, and a value blob to its size, its length byte *)
(* and whether the characters after it form a GUID.                       *)
(***************************************************************************)
EXTENDS Integers, Sequences, FiniteSetsExt

CONSTANTS
  MaxRows,      \* most rows of one metadata table
  ScopeTags,    \* tables a TypeRef resolution scope can refer to
  ClassTags,    \* tables a MemberRef class can refer to
  TypeTags,     \* tables a CustomAttribute type can refer to
  BlobSizes,    \* sizes of a value blob
  Guid,         \* the GUID a well-formed TypeLib attribute holds
  NotGuid,      \* characters that do not match the GUID regex
  Garbled       \* a match read partly from outside the blob

ASSUME MaxRows \in Nat \ {0}

GuidLength == 36   \* [a-z0-9]{8}-[a-z0-9]{4}-[a-z0-9]{4}-[a-z0-9]{4}-[a-z0-9]{12}
NoId == ""         \* typeLibId.clear()

Rows(R) == UNION {[1..n -> R] : n \in 0..MaxRows}
AssemblyRefRows == [name : {"mscorlib", "other"}]
TypeRefRows == [scope : ScopeTags \X (1..MaxRows), typeName : {"GuidAttribute", "other"}]
MemberRefRows == [classType : ClassTags \X (1..MaxRows)]
Blobs == [size : BlobSizes, length : {GuidLength}, chars : {Guid, NotGuid}]
CustomAttributeRows == [type : TypeTags \X (1..MaxRows), value : Blobs]

VARIABLES
  streamsPresent,    \* metadata, #Strings and #Blob streams and the 4 tables
  assemblyRefs, typeRefs, memberRefs, customAttributes,
  guidTypeRef,
  guidMemberRef,
  i,                 \* the loop index of the current search
  typeLibId,
  pc

inputs == <<streamsPresent, assemblyRefs, typeRefs, memberRefs, customAttributes>>
vars == <<inputs, guidTypeRef, guidMemberRef, i, typeLibId, pc>>

\* coded index .getIndex()
GetIndex(codedIndex) == codedIndex[2]

Init ==
  /\ streamsPresent \in BOOLEAN
  /\ assemblyRefs \in Rows(AssemblyRefRows)
  /\ typeRefs \in Rows(TypeRefRows)
  /\ memberRefs \in Rows(MemberRefRows)
  /\ customAttributes \in Rows(CustomAttributeRows)
  /\ guidTypeRef = 0
  /\ guidMemberRef = 0
  /\ i = 0
  /\ typeLibId = NoId
  /\ pc = "start"

\* A stream or one of the four tables is missing: return with no id.
MissingTables ==
  /\ pc = "start"
  /\ ~streamsPresent
  /\ pc' = "done"
  /\ UNCHANGED <<inputs, guidTypeRef, guidMemberRef, i, typeLibId>>

StartTypeRefSearch ==
  /\ pc = "start"
  /\ streamsPresent
  /\ guidTypeRef' = Len(typeRefs)
  /\ i' = 1
  /\ pc' = "typeRef"
  /\ UNCHANGED <<inputs, guidMemberRef, typeLibId>>

(***************************************************************************)
(* TypeRef row i: its resolution scope is looked up in the AssemblyRef    *)
(* table whatever table it names; a missing row or another assembly       *)
(* continues, an mscorlib GuidAttribute ends the search.                   *)
(***************************************************************************)
IsMscorlibGuidAttribute(row) ==
  LET scope == GetIndex(row.scope)
  IN  /\ scope \in DOMAIN assemblyRefs
      /\ assemblyRefs[scope].name = "mscorlib"
      /\ row.typeName = "GuidAttribute"

TypeRefFound ==
  /\ pc = "typeRef"
  /\ i <= Len(typeRefs)
  /\ IsMscorlibGuidAttribute(typeRefs[i])
  /\ guidTypeRef' = i
  /\ pc' = "typeRefDone"
  /\ UNCHANGED <<inputs, guidMemberRef, i, typeLibId>>

TypeRefSkipped ==
  /\ pc = "typeRef"
  /\ i <= Len(typeRefs)
  /\ ~IsMscorlibGuidAttribute(typeRefs[i])
  /\ i' = i + 1
  /\ UNCHANGED <<inputs, guidTypeRef, guidMemberRef, typeLibId, pc>>

TypeRefSearchEnds ==
  /\ pc = "typeRef"
  /\ i > Len(typeRefs)
  /\ pc' = "typeRefDone"
  /\ UNCHANGED <<inputs, guidTypeRef, guidMemberRef, i, typeLibId>>

\* guidTypeRef == typeRefTable->getNumberOfRows(): "no GuidAttribute".
NoGuidTypeRef ==
  /\ pc = "typeRefDone"
  /\ guidTypeRef = Len(typeRefs)
  /\ pc' = "done"
  /\ UNCHANGED <<inputs, guidTypeRef, guidMemberRef, i, typeLibId>>

StartMemberRefSearch ==
  /\ pc = "typeRefDone"
  /\ guidTypeRef /= Len(typeRefs)
  /\ guidMemberRef' = Len(memberRefs)
  /\ i' = 1
  /\ pc' = "memberRef"
  /\ UNCHANGED <<inputs, guidTypeRef, typeLibId>>

\* MemberRef row i: the row of its class is compared, not its table.
MemberRefFound ==
  /\ pc = "memberRef"
  /\ i <= Len(memberRefs)
  /\ GetIndex(memberRefs[i].classType) = guidTypeRef
  /\ guidMemberRef' = i
  /\ pc' = "memberRefDone"
  /\ UNCHANGED <<inputs, guidTypeRef, i, typeLibId>>

MemberRefSkipped ==
  /\ pc = "memberRef"
  /\ i <= Len(memberRefs)
  /\ GetIndex(memberRefs[i].classType) /= guidTypeRef
  /\ i' = i + 1
  /\ UNCHANGED <<inputs, guidTypeRef, guidMemberRef, typeLibId, pc>>

MemberRefSearchEnds ==
  /\ pc = "memberRef"
  /\ i > Len(memberRefs)
  /\ pc' = "memberRefDone"
  /\ UNCHANGED <<inputs, guidTypeRef, guidMemberRef, i, typeLibId>>

\* guidMemberRef == memberRefTable->getNumberOfRows(): "no MemberRef".
NoGuidMemberRef ==
  /\ pc = "memberRefDone"
  /\ guidMemberRef = Len(memberRefs)
  /\ pc' = "done"
  /\ UNCHANGED <<inputs, guidTypeRef, guidMemberRef, i, typeLibId>>

StartAttributeSearch ==
  /\ pc = "memberRefDone"
  /\ guidMemberRef /= Len(memberRefs)
  /\ i' = 1
  /\ pc' = "attribute"
  /\ UNCHANGED <<inputs, guidTypeRef, guidMemberRef, typeLibId>>

(***************************************************************************)
(* The string of typeLibData[2] characters after the 3-byte prefix, read  *)
(* whether or not the blob holds them.  Characters past the end of the    *)
(* blob are whatever the heap holds there: the string may then match the  *)
(* regex with a value that is not in the file.                             *)
(***************************************************************************)
ReadStrings(blob) ==
  IF blob.length <= blob.size - 3 THEN {blob.chars}
  ELSE {NotGuid, Garbled}

\* CustomAttribute row i whose type row is the MemberRef, and its value.
Referring == /\ pc = "attribute"
             /\ i <= Len(customAttributes)
             /\ GetIndex(customAttributes[i].type) = guidMemberRef
Value == customAttributes[i].value

\* typeLibData.size() < 3: continue.
ShortBlob ==
  /\ Referring
  /\ Value.size < 3
  /\ i' = i + 1
  /\ UNCHANGED <<inputs, guidTypeRef, guidMemberRef, typeLibId, pc>>

\* The string does not match the regex: typeLibId.clear(), continue.
NotTypeLib ==
  /\ Referring
  /\ Value.size >= 3
  /\ NotGuid \in ReadStrings(Value)
  /\ typeLibId' = NoId
  /\ i' = i + 1
  /\ UNCHANGED <<inputs, guidTypeRef, guidMemberRef, pc>>

\* The string matches: it is the TypeLib id, break.
TypeLibFound ==
  /\ Referring
  /\ Value.size >= 3
  /\ \E s \in ReadStrings(Value) \ {NotGuid} : typeLibId' = s
  /\ pc' = "done"
  /\ UNCHANGED <<inputs, guidTypeRef, guidMemberRef, i>>

\* Another CustomAttribute row: continue.
SkipAttribute ==
  /\ pc = "attribute"
  /\ i <= Len(customAttributes)
  /\ GetIndex(customAttributes[i].type) /= guidMemberRef
  /\ i' = i + 1
  /\ UNCHANGED <<inputs, guidTypeRef, guidMemberRef, typeLibId, pc>>

AttributeSearchEnds ==
  /\ pc = "attribute"
  /\ i > Len(customAttributes)
  /\ pc' = "done"
  /\ UNCHANGED <<inputs, guidTypeRef, guidMemberRef, i, typeLibId>>

Terminated == pc = "done" /\ UNCHANGED vars

Next ==
  \/ MissingTables
  \/ StartTypeRefSearch
  \/ TypeRefFound
  \/ TypeRefSkipped
  \/ TypeRefSearchEnds
  \/ NoGuidTypeRef
  \/ StartMemberRefSearch
  \/ MemberRefFound
  \/ MemberRefSkipped
  \/ MemberRefSearchEnds
  \/ NoGuidMemberRef
  \/ StartAttributeSearch
  \/ ShortBlob
  \/ NotTypeLib
  \/ TypeLibFound
  \/ SkipAttribute
  \/ AttributeSearchEnds
  \/ Terminated

Spec == Init /\ [][Next]_vars

\* detectTypeLibId is a sequential call whose loops are bounded by the row
\* counts: it keeps running until it returns.
FairSpec == Spec /\ WF_vars(Next)

-----------------------------------------------------------------------------
(***************************************************************************)
(* Reference definitions, with coded indices read as table and row.       *)
(***************************************************************************)
GenuineGuidTypeRef(t) ==
  /\ typeRefs[t].scope[1] = "AssemblyRef"
  /\ typeRefs[t].scope[2] \in DOMAIN assemblyRefs
  /\ assemblyRefs[typeRefs[t].scope[2]].name = "mscorlib"
  /\ typeRefs[t].typeName = "GuidAttribute"

RefersTo(codedIndex, table, rows) == codedIndex[1] = table /\ codedIndex[2] \in rows

\* The value blob holds the GUID within its own bytes.
WellFormedTypeLib(blob) ==
  blob.size >= 3 /\ blob.length <= blob.size - 3 /\ blob.chars = Guid

-----------------------------------------------------------------------------
TypeOK ==
  /\ streamsPresent \in BOOLEAN
  /\ assemblyRefs \in Rows(AssemblyRefRows)
  /\ typeRefs \in Rows(TypeRefRows)
  /\ memberRefs \in Rows(MemberRefRows)
  /\ customAttributes \in Rows(CustomAttributeRows)
  /\ {guidTypeRef, guidMemberRef, i} \subseteq 0..(MaxRows + 1)
  /\ typeLibId \in {NoId, Guid, Garbled}
  /\ pc \in {"start", "typeRef", "typeRefDone", "memberRef", "memberRefDone",
             "attribute", "done"}

(***************************************************************************)
(* detectTypeLibId implements its abstract specification (module         *)
(* DotnetTypeLibSpec) with "done" read as the end of the function: every *)
(* step of the three searches leaves the id alone until the one that      *)
(* returns, the id left then is empty or the GUID of a custom attribute   *)
(* of mscorlib's GuidAttribute, held inside the attribute's blob (each    *)
(* search must start from the row the previous one found, so that the    *)
(* three chain up), and the function returns.                             *)
(***************************************************************************)
TLS == INSTANCE DotnetTypeLibSpec WITH done <- (pc = "done")

TypeLibRefinesSpec == TLS!Spec

(***************************************************************************)
(* "First find the index of GuidAttribute type reference ... Then try to   *)
(* find the MemberRef which refers to this TypeRef": the TypeLib id is the *)
(* GUID held inside the blob of an attribute of the first MemberRef of the *)
(* first mscorlib GuidAttribute TypeRef, in whichever rows of their       *)
(* tables they are, and there is none when no such attribute exists.      *)
(***************************************************************************)
TypeLibExact ==
  pc = "done" =>
    LET T == {t \in DOMAIN typeRefs : GenuineGuidTypeRef(t)}
        M == {m \in DOMAIN memberRefs :
                T /= {} /\ RefersTo(memberRefs[m].classType, "TypeRef", {Min(T)})}
        C == {c \in DOMAIN customAttributes :
                /\ M /= {}
                /\ RefersTo(customAttributes[c].type, "MemberRef", {Min(M)})
                /\ WellFormedTypeLib(customAttributes[c].value)}
    IN  typeLibId = IF streamsPresent /\ C /= {} THEN Guid ELSE NoId

=============================================================================
