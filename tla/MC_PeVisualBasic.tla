------------------------- MODULE MC_PeVisualBasic --------------------------
(* PeVisualBasic for TLC: two strings, the empty one included, so that    *)
(* an empty name and a real one both occur; two extern entries and two    *)
(* object descriptors, so that an unreadable or unusable entry can come   *)
(* before a usable one and an object can follow another; one method slot  *)
(* per object.                                                            *)
EXTENDS PeVisualBasic

MCStrValues == {"", "a"}

============================================================================
