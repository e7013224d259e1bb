------------------------- MODULE DotnetTypeLibSpec -------------------------
(***************************************************************************)
(* What PeFormat::detectTypeLibId promises, as one atomic step: detection *)
(* ends, and the TypeLib id it leaves is either empty or the GUID that a  *)
(* custom attribute of mscorlib's GuidAttribute carries inside its value  *)
(* blob.  Which such attribute, and whether one is found at all, is left  *)
(* open: the first-match order of the code is not part of the promise.    *)
(*                                                                         *)
(* The metadata tables are inputs that the step leaves alone; a coded     *)
(* index is a pair <<table, row>>, a value blob a record of its size, its *)
(* length byte and its characters.                                        *)
(***************************************************************************)
EXTENDS Integers

CONSTANTS
  NoId,   \* the empty id
  Guid    \* characters that form a GUID

VARIABLES
  streamsPresent, assemblyRefs, typeRefs, memberRefs, customAttributes,
  typeLibId,
  done

inputs == <<streamsPresent, assemblyRefs, typeRefs, memberRefs, customAttributes>>
vars == <<inputs, typeLibId, done>>

\* The coded index names a row that exists in the table it names.
Resolves(codedIndex, table, rows) ==
  codedIndex[1] = table /\ codedIndex[2] \in DOMAIN rows

\* Attribute c is constructed by a member of mscorlib's GuidAttribute.
IsGuidAttributeOfMscorlib(c) ==
  LET type == customAttributes[c].type
      class == memberRefs[type[2]].classType
      scope == typeRefs[class[2]].scope
  IN  /\ Resolves(type, "MemberRef", memberRefs)
      /\ Resolves(class, "TypeRef", typeRefs)
      /\ Resolves(scope, "AssemblyRef", assemblyRefs)
      /\ assemblyRefs[scope[2]].name = "mscorlib"
      /\ typeRefs[class[2]].typeName = "GuidAttribute"

\* The value blob holds a GUID string within its own bytes, after the
\* 2-byte prolog and the length byte.
HoldsGuid(blob) ==
  blob.size >= 3 /\ blob.length <= blob.size - 3 /\ blob.chars = Guid

TypeLibIds ==
  {NoId} \cup
  {customAttributes[c].value.chars :
     c \in {c \in DOMAIN customAttributes :
              /\ streamsPresent
              /\ IsGuidAttributeOfMscorlib(c)
              /\ HoldsGuid(customAttributes[c].value)}}

Init ==
  /\ typeLibId = NoId
  /\ ~done

Detect ==
  /\ ~done
  /\ done' = TRUE
  /\ typeLibId' \in TypeLibIds
  /\ UNCHANGED inputs

\* Detection is a call that returns: it is taken once it can be.
Spec == Init /\ [][Detect]_vars /\ WF_vars(Detect)

=============================================================================
