------------------------- MODULE MC_DotnetTypeLib -------------------------
EXTENDS DotnetTypeLib

\* Two rows per table: a match can be on the first or on the last row, and
\* be preceded by a row that does not match.
MCMaxRows == 2
\* Coded indices that refer to the tables detectTypeLibId expects.
MCScopeTags == {"AssemblyRef"}
MCClassTags == {"TypeRef"}
MCTypeTags == {"MemberRef"}
\* A CustomAttributeType may also refer to a MethodDef, the other table
\* ECMA-335 allows it (II.24.2.6).
MCTypeTagsAll == {"MemberRef", "MethodDef"}
\* A blob too short for the prefix, and one that holds exactly the GUID.
MCBlobSizes == {2, 39}
\* A blob too short for the prefix, one whose length byte claims one byte
\* more than it holds, and one that holds exactly the GUID.
MCBlobSizesAll == {2, 38, 39}
====
