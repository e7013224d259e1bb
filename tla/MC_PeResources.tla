-------------------------- MODULE MC_PeResources --------------------------
EXTENDS PeResources

\* Up to two children per entry and eight entries below the root: enough
\* for a type whose names are found after another type's names, a name whose
\* languages are found after another name's, and null children between them.
MCMaxKids == 2
MCMaxEntries == 8
MCTypeNames == {"Icon Group", "Other"}
====
