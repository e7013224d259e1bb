---------------------------- MODULE MC_ParamReturn ----------------------------
(***************************************************************************)
(* Three called functions: f, without a declaration, called twice; g,    *)
(* declared with two parameters; h, whose reaching definitions are        *)
(* unavailable.  The calls of f may be preceded by any set of stores to    *)
(* r0-r3, d0 or d1 (gaps included) and by stack runs with and without a    *)
(* gap; the calls of g and h store r0 only.                               *)
(***************************************************************************)
EXTENDS ParamReturn, TLC

CONSTANTS f, g, h, c1, c2, c3, c4

MCFns == {f, g, h}
MCSites == {c1, c2, c3, c4}
MCCalleeOf == (c1 :> f) @@ (c2 :> f) @@ (c3 :> g) @@ (c4 :> h)
MCKnownArity == g :> 2
MCNoRda == {h}

AnyStores ==
  [regs : SUBSET Range(ArmParamRegs), fpRegs : {{}, {"d0"}, {"d1"}},
   stacks : {{}, {-8}, {-12, -4}, {-12, -8, -4}}]
OnlyR0 == {[regs |-> {"r0"}, fpRegs |-> {}, stacks |-> {}]}
MCStoreChoices == (c1 :> AnyStores) @@ (c2 :> AnyStores) @@ (c3 :> OnlyR0) @@ (c4 :> OnlyR0)

=============================================================================
