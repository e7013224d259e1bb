---------------------------- MODULE PeResources ----------------------------
(***************************************************************************)
(* Loading of the resource directory of a PE file: PeFormat::loadResources *)
(* and PeFormat::getResourceNodes (pe_format.cpp).  getResourceNodes       *)
(* flattens the resource tree below the root into one vector in level     *)
(* order and records the number of nodes of every level.  When the tree   *)
(* has the usual three levels (type, name, language) loadResources walks  *)
(* the types and finds the name and language children of each node in    *)
(* the flat vector by index arithmetic alone.                              *)
(*                                                                         *)
(* A node of the vector is identified by its path from the root (the     *)
(* indices of the children taken), which stands for the pointer the code  *)
(* stores.  A child pointer may be null; a node that is not a data leaf   *)
(* and has no children is an empty directory.                              *)
(***************************************************************************)
EXTENDS Integers, Sequences, SequencesExt

CONSTANTS
  MaxKids,    \* most children of one directory entry
  MaxEntries, \* most entries below the root
  TypeNames   \* type names a level-1 entry can carry

ASSUME MaxKids \in Nat \ {0} /\ MaxEntries \in Nat

\* Language entries: a data leaf, a null child, or an empty subdirectory.
LangNodes == {[kind |-> k, kids |-> <<>>] : k \in {"leaf", "null", "dir"}}
NullNode == [kind |-> "null", kids |-> <<>>]
NameNodes == {NullNode} \cup
             {[kind |-> "dir", kids |-> s] : s \in BoundedSeq(LangNodes, MaxKids)}
TypeNodes == {[kind |-> "null", kids |-> <<>>, type |-> ""]} \cup
             {[kind |-> "dir", kids |-> s, type |-> t] :
                s \in BoundedSeq(NameNodes, MaxKids), t \in TypeNames}
\* The number of entries below the root.
Entries(tr) ==
  FoldSeq(LAMBDA t, acc : acc + 1 + FoldSeq(LAMBDA n, a : a + 1 + Len(n.kids), 0, t.kids),
          0, tr)

\* The children of the root; an empty sequence is a root without children.
Trees == {tr \in BoundedSeq(TypeNodes, MaxKids) : Entries(tr) <= MaxEntries}

VARIABLES
  tree,                 \* formatParser->getResourceTreeRoot(), its children
  nodes,                \* std::vector<const ResourceChild*> nodes, as paths
  levels,               \* std::vector<std::size_t> levels
  gi, ge,               \* the i and e of the loop of getResourceNodes
  i, j, nSft, lSft,     \* the loop state of loadResources
  resources,            \* resourceTable, the resources in insertion order
  iconGroupIDcounter,
  pc

vars == <<tree, nodes, levels, gi, ge, i, j, nSft, lSft, resources,
          iconGroupIDcounter, pc>>

RECURSIVE NodeAt(_)
\* The entry at the end of a path from the root.
NodeAt(p) == IF Len(p) = 1 THEN tree[p[1]] ELSE NodeAt(Front(p)).kids[Last(p)]

IsNull(p) == NodeAt(p).kind = "null"
NumberOfChildren(p) == Len(NodeAt(p).kids)
ChildPaths(p) == [c \in 1..NumberOfChildren(p) |-> Append(p, c)]

Init ==
  /\ tree \in Trees
  /\ nodes = <<>>
  /\ levels = <<>>
  /\ gi = 0 /\ ge = 0
  /\ i = 0 /\ j = 0 /\ nSft = 0 /\ lSft = 0
  /\ resources = <<>>
  /\ iconGroupIDcounter = 0
  /\ pc = "start"

\* No resource data directory, or no image base: return.
NoResourceDirectory ==
  /\ pc = "start"
  /\ pc' = "returned"
  /\ UNCHANGED <<tree, nodes, levels, gi, ge, i, j, nSft, lSft, resources,
                 iconGroupIDcounter>>

\* getResourceNodes: a root without children makes it return false.
NoResourceTree ==
  /\ pc = "start"
  /\ tree = <<>>
  /\ pc' = "returned"
  /\ UNCHANGED <<tree, nodes, levels, gi, ge, i, j, nSft, lSft, resources,
                 iconGroupIDcounter>>

\* getResourceNodes: the root's children form the first level.
StartResourceNodes ==
  /\ pc = "start"
  /\ tree /= <<>>
  /\ nodes' = [k \in DOMAIN tree |-> <<k>>]
  /\ levels' = <<Len(tree)>>
  /\ gi' = 0
  /\ ge' = Len(tree)
  /\ pc' = "nodes"
  /\ UNCHANGED <<tree, i, j, nSft, lSft, resources, iconGroupIDcounter>>

\* A level end recorded with the operands of the subtraction swapped.
VisitNodeSwappedLevelSize ==
  /\ pc = "nodes"
  /\ gi < ge
  /\ LET actual   == nodes[gi + 1]
         appended == IF IsNull(actual) THEN nodes ELSE nodes \o ChildPaths(actual)
         levelEnd == gi + 1 = ge /\ Len(appended) > ge
     IN  /\ nodes' = appended
         /\ levels' = IF levelEnd THEN Append(levels, ge - Len(appended)) ELSE levels
         /\ ge' = IF levelEnd THEN Len(appended) ELSE ge
  /\ gi' = gi + 1
  /\ UNCHANGED <<tree, i, j, nSft, lSft, resources, iconGroupIDcounter, pc>>

\* A level end recorded also when the level added no nodes.
VisitNodeAnyLevelEnd ==
  /\ pc = "nodes"
  /\ gi < ge
  /\ LET actual   == nodes[gi + 1]
         appended == IF IsNull(actual) THEN nodes ELSE nodes \o ChildPaths(actual)
         levelEnd == gi + 1 = ge
     IN  /\ nodes' = appended
         /\ levels' = IF levelEnd THEN Append(levels, Len(appended) - ge) ELSE levels
         /\ ge' = IF levelEnd THEN Len(appended) ELSE ge
  /\ gi' = gi + 1
  /\ UNCHANGED <<tree, i, j, nSft, lSft, resources, iconGroupIDcounter, pc>>

(***************************************************************************)
(* One iteration of the level-order loop: the children of a non-null node *)
(* are appended, and after the last node of a level that added nodes, the *)
(* size of the next level is recorded and the bound e moves to the end.   *)
(***************************************************************************)
VisitNode ==
  /\ pc = "nodes"
  /\ gi < ge
  /\ LET actual   == nodes[gi + 1]
         appended == IF IsNull(actual) THEN nodes ELSE nodes \o ChildPaths(actual)
         levelEnd == gi + 1 = ge /\ Len(appended) > ge
     IN  /\ nodes' = appended
         /\ levels' = IF levelEnd THEN Append(levels, Len(appended) - ge) ELSE levels
         /\ ge' = IF levelEnd THEN Len(appended) ELSE ge
  /\ gi' = gi + 1
  /\ UNCHANGED <<tree, i, j, nSft, lSft, resources, iconGroupIDcounter, pc>>

\* The loop of getResourceNodes ends; isValidTree only asserts (NDEBUG).
ResourceNodesDone ==
  /\ pc = "nodes"
  /\ gi = ge
  /\ pc' = "levels"
  /\ UNCHANGED <<tree, nodes, levels, gi, ge, i, j, nSft, lSft, resources,
                 iconGroupIDcounter>>

(***************************************************************************)
(* Fewer or more than three levels: loadResourceNodes makes a resource of *)
(* every data leaf among the last NumberOfLeafs nodes of the vector.  The *)
(* count comes from ResourceTree, which is not part of the repository; it *)
(* is taken as the size of the last level, the count under which the      *)
(* indexing stays inside the vector.                                       *)
(***************************************************************************)
NoGroup == -1

NumberOfLeafs == levels[Len(levels)]

LoadResourceNodes ==
  /\ pc = "levels"
  /\ Len(levels) /= 3
  /\ LET firstLeafIndex == Len(nodes) - NumberOfLeafs
         leafs == SelectSeq([k \in 1..NumberOfLeafs |-> nodes[firstLeafIndex + k]],
                            LAMBDA p : NodeAt(p).kind = "leaf")
     IN  resources' = [k \in DOMAIN leafs |->
                         [type |-> "", name |-> <<>>, lang |-> leafs[k],
                          groupId |-> NoGroup]]
  /\ pc' = "returned"
  /\ UNCHANGED <<tree, nodes, levels, gi, ge, i, j, nSft, lSft,
                 iconGroupIDcounter>>

\* Three levels: the walk over the types starts.
StartTypes ==
  /\ pc = "levels"
  /\ Len(levels) = 3
  /\ i' = 0 /\ nSft' = 0 /\ lSft' = 0
  /\ pc' = "types"
  /\ UNCHANGED <<tree, nodes, levels, gi, ge, j, resources, iconGroupIDcounter>>

\* nodes[i] for the zero-based index i of the code
At(k) == nodes[k + 1]

\* A null type child is skipped.
SkipNullType ==
  /\ pc = "types"
  /\ i < levels[1]
  /\ IsNull(At(i))
  /\ i' = i + 1
  /\ UNCHANGED <<tree, nodes, levels, gi, ge, j, nSft, lSft, resources,
                 iconGroupIDcounter, pc>>

\* nSft += typeChild->getNumberOfChildren(); the names loop starts.
EnterType ==
  /\ pc = "types"
  /\ i < levels[1]
  /\ ~IsNull(At(i))
  /\ nSft' = nSft + NumberOfChildren(At(i))
  /\ j' = 0
  /\ pc' = "names"
  /\ UNCHANGED <<tree, nodes, levels, gi, ge, i, lSft, resources, iconGroupIDcounter>>

\* The children of the current type and of the current name.
TypeChild == At(i)
F == NumberOfChildren(TypeChild)
NameChild == At(levels[1] + j + nSft - F)

\* A null name child is skipped.
SkipNullName ==
  /\ pc = "names"
  /\ j < F
  /\ IsNull(NameChild)
  /\ j' = j + 1
  /\ UNCHANGED <<tree, nodes, levels, gi, ge, i, nSft, lSft, resources,
                 iconGroupIDcounter, pc>>

(***************************************************************************)
(* The languages loop of one name, whole: lSft grows by the number of      *)
(* children, every language child that is a data leaf becomes a resource  *)
(* of the type's name, and an "Icon Group" resource takes the next icon   *)
(* group id.  Null children and directories are skipped.                  *)
(***************************************************************************)
LanguageResources(type, name, lShift, counter) ==
  LET g     == NumberOfChildren(name)
      langs == SelectSeq([k \in 1..g |-> At(levels[1] + levels[2] + (k - 1) + lShift - g)],
                         LAMBDA p : NodeAt(p).kind = "leaf")
  IN  [k \in DOMAIN langs |->
         [type |-> type, name |-> name, lang |-> langs[k],
          groupId |-> IF type = "Icon Group" THEN counter + k - 1 ELSE NoGroup]]

\* The languages located with lSft before it is advanced past this name.
EnterNameStaleShift ==
  /\ pc = "names"
  /\ j < F
  /\ ~IsNull(NameChild)
  /\ LET g     == NumberOfChildren(NameChild)
         type  == NodeAt(TypeChild).type
         added == LanguageResources(type, NameChild, lSft, iconGroupIDcounter)
     IN  /\ lSft' = lSft + g
         /\ resources' = resources \o added
         /\ iconGroupIDcounter' = IF type = "Icon Group"
                                    THEN iconGroupIDcounter + Len(added)
                                    ELSE iconGroupIDcounter
  /\ j' = j + 1
  /\ UNCHANGED <<tree, nodes, levels, gi, ge, i, nSft, pc>>

EnterName ==
  /\ pc = "names"
  /\ j < F
  /\ ~IsNull(NameChild)
  /\ LET g     == NumberOfChildren(NameChild)
         type  == NodeAt(TypeChild).type
         added == LanguageResources(type, NameChild, lSft + g, iconGroupIDcounter)
     IN  /\ lSft' = lSft + g
         /\ resources' = resources \o added
         /\ iconGroupIDcounter' = IF type = "Icon Group"
                                    THEN iconGroupIDcounter + Len(added)
                                    ELSE iconGroupIDcounter
  /\ j' = j + 1
  /\ UNCHANGED <<tree, nodes, levels, gi, ge, i, nSft, pc>>

\* All names of the type were visited.
LeaveType ==
  /\ pc = "names"
  /\ j = F
  /\ i' = i + 1
  /\ pc' = "types"
  /\ UNCHANGED <<tree, nodes, levels, gi, ge, j, nSft, lSft, resources,
                 iconGroupIDcounter>>

(***************************************************************************)
(* All types were visited: icon groups are linked, version information is *)
(* parsed and the icon hash computed, all on the resources already in the *)
(* table, which this model does not look into.                            *)
(***************************************************************************)
TypesDone ==
  /\ pc = "types"
  /\ i = levels[1]
  /\ pc' = "done"
  /\ UNCHANGED <<tree, nodes, levels, gi, ge, i, j, nSft, lSft, resources,
                 iconGroupIDcounter>>

Terminated == pc \in {"returned", "done"} /\ UNCHANGED vars

Next ==
  \/ NoResourceDirectory
  \/ NoResourceTree
  \/ StartResourceNodes
  \/ VisitNode
  \/ ResourceNodesDone
  \/ LoadResourceNodes
  \/ StartTypes
  \/ SkipNullType
  \/ EnterType
  \/ SkipNullName
  \/ EnterName
  \/ LeaveType
  \/ TypesDone
  \/ Terminated

Spec == Init /\ [][Next]_vars

-----------------------------------------------------------------------------
(***************************************************************************)
(* Reference definitions, from the shape of the tree alone.               *)
(***************************************************************************)
TopLevel == [k \in DOMAIN tree |-> <<k>>]

\* The children of the non-null entries of a level, in order.
NextLevel(lvl) ==
  FlattenSeq([k \in DOMAIN lvl |-> IF IsNull(lvl[k]) THEN <<>> ELSE ChildPaths(lvl[k])])

RECURSIVE LevelsFrom(_)
LevelsFrom(lvl) == IF lvl = <<>> THEN <<>> ELSE <<lvl>> \o LevelsFrom(NextLevel(lvl))

\* The data leaves below the type and name entries, type by type.
LeafPaths ==
  LET leavesOf(p) == SelectSeq(ChildPaths(p), LAMBDA q : NodeAt(q).kind = "leaf")
      ofType(t) == FlattenSeq([n \in 1..NumberOfChildren(<<t>>) |->
                                 IF IsNull(<<t, n>>) THEN <<>> ELSE leavesOf(<<t, n>>)])
  IN  FlattenSeq([t \in DOMAIN tree |-> IF IsNull(<<t>>) THEN <<>> ELSE ofType(t)])

ExpectedResources ==
  LET type(q) == tree[q[1]].type
      groupsBefore(k) == Len(SelectSeq(SubSeq(LeafPaths, 1, k - 1),
                                      LAMBDA q : type(q) = "Icon Group"))
  IN  [k \in DOMAIN LeafPaths |->
         [type |-> type(LeafPaths[k]), name |-> Front(LeafPaths[k]),
          lang |-> LeafPaths[k],
          groupId |-> IF type(LeafPaths[k]) = "Icon Group" THEN groupsBefore(k)
                      ELSE NoGroup]]

-----------------------------------------------------------------------------
TypeOK ==
  /\ tree \in Seq(TypeNodes)
  /\ nodes \in Seq(Seq(1..MaxKids))
  /\ levels \in Seq(Nat)
  /\ {gi, ge, i, j, nSft, lSft, iconGroupIDcounter} \subseteq Nat
  /\ \A k \in DOMAIN resources :
       resources[k].groupId \in Nat \cup {NoGroup} /\ resources[k].lang \in Seq(1..MaxKids)
  /\ pc \in {"start", "nodes", "levels", "types", "names", "returned", "done"}

(* Once getResourceNodes has returned, the node vector holds every entry   *)
(* below the root exactly once in level order, and levels[k] is the number *)
(* of entries on level k+1: the single loop with its moving bound e must   *)
(* close each level exactly at its last node.                              *)
FlattenedInLevelOrder ==
  pc \in {"levels", "types", "names", "done"} =>
    /\ nodes = FlattenSeq(LevelsFrom(TopLevel))
    /\ levels = [k \in DOMAIN LevelsFrom(TopLevel) |-> Len(LevelsFrom(TopLevel)[k])]

(* For a three-level tree, the index arithmetic of loadResources with its  *)
(* running shifts nSft and lSft makes one resource of every language leaf *)
(* under every non-null type and name, in tree order, each named after its *)
(* own type and name entries, and numbers the icon groups 0, 1, ... in that *)
(* order, whatever null children, empty directories and uneven fan-outs   *)
(* the tree has.                                                           *)
ResourcesMatchTree ==
  pc = "done" => resources = ExpectedResources

=============================================================================
