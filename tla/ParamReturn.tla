----------------------------- MODULE ParamReturn -----------------------------
(***************************************************************************)
(* The parameter reconstruction of ParamReturn, caller side, for the ARM  *)
(* calling convention: the pass collects, at every call of a function     *)
(* without a known signature, the ABI locations stored before the call    *)
(* (collectAllCalls), filters them into one parameter list per function  *)
(* (filterCalls), and rewrites every call to pass those parameters        *)
(* (applyToIr).                                                            *)
(*                                                                         *)
(* The pass's implementation is not part of the repository: its classes  *)
(* are declared in param_return.h, and the filters are taken from the     *)
(* specification's section on the Param/Return engine and from the ARM    *)
(* cases of param_return_tests.cpp.  The register tables are those of      *)
(* ArmCallingConvention.  A stack slot is its offset in the caller's      *)
(* frame; a parameter is one word (types, pair merging, return values,    *)
(* wrappers and the callee side are left out).                           *)
(***************************************************************************)
EXTENDS Integers, Sequences, FiniteSets, FiniteSetsExt

CONSTANTS
  Fns,           \* the called functions, each one DataFlowEntry
  Sites,         \* the call instructions
  CalleeOf,      \* [Sites -> Fns]: the function each call calls
  KnownArity,    \* [K -> Nat], K \subseteq Fns: arities of declared functions
  NoRda,         \* the functions whose reaching definitions are unavailable
  StoreChoices   \* [Sites -> SUBSET Stores]: what may be stored before each call

\* A declared function takes at most the parameter registers, so that its
\* calls have no stack words to load from slots nobody stored.
ASSUME \A f \in DOMAIN KnownArity : KnownArity[f] <= 4

VARIABLES
  candidates,    \* CallEntry::possibleArgStores of every call
  signature,     \* the parameters filter() settles for every function
  calls,         \* the arguments every call instruction passes
  applied,       \* the functions applyToIr has rewritten
  phase          \* the step of ParamReturn::run the pass is in

vars == <<candidates, signature, calls, applied, phase>>

\* ArmCallingConvention: _paramRegs and _paramFPRegs.
ArmParamRegs == <<"r0", "r1", "r2", "r3">>
ArmParamFPRegs == <<"d0", "d1", "d2", "d3">>

\* ARM is a 32-bit architecture: consecutive stack words are 4 bytes apart.
WordSize == 4

StackOffsets == {-16, -12, -8, -4}

\* The stores that reach a call: registers, FP registers and stack slots.
Stores == [regs : SUBSET Range(ArmParamRegs), fpRegs : SUBSET Range(ArmParamFPRegs),
           stacks : SUBSET StackOffsets]

NotCollected == [collected |-> FALSE]
NotFiltered == [filtered |-> FALSE]
\* A call's arguments: registers in ABI order, then stack slots.
Niladic == [regs |-> <<>>, stacks |-> <<>>]

Params == [gpr : 0..Len(ArmParamRegs), fpr : 0..Len(ArmParamFPRegs), stack : Nat]

\* The calls of f, DataFlowEntry::calls.
CallsOf(f) == {c \in Sites : CalleeOf[c] = f}

-----------------------------------------------------------------------------
(* ParamFilter, for the stores reaching one call.                         *)

\* leaveOnlyContinuousSequence: the longest prefix of the ABI order whose
\* registers were all stored.
ContinuousCount(order, stored) ==
  CHOOSE k \in 0..Len(order) :
    /\ \A i \in 1..k : order[i] \in stored
    /\ k < Len(order) => order[k + 1] \notin stored

\* leaveOnlyContinuousStackOffsets: the run of consecutive words from the
\* lowest stored offset up; a gap ends it.
StackRunCount(stacks) ==
  IF stacks = {} THEN 0
  ELSE CHOOSE k \in 1..Cardinality(stacks) :
         /\ \A i \in 0..(k - 1) : Min(stacks) + WordSize * i \in stacks
         /\ Min(stacks) + WordSize * k \notin stacks

\* Mutant: stack words are taken whatever registers were stored.
SiteParamsAnyStack(s) ==
  [gpr |-> ContinuousCount(ArmParamRegs, s.regs),
   fpr |-> ContinuousCount(ArmParamFPRegs, s.fpRegs), stack |-> StackRunCount(s.stacks)]

\* The parameters one call's stores make: a continuous prefix of each
\* register kind, and stack words only once every parameter register is used.
SiteParams(s) ==
  LET gpr == ContinuousCount(ArmParamRegs, s.regs)
  IN  [gpr |-> gpr,
       fpr |-> ContinuousCount(ArmParamFPRegs, s.fpRegs),
       stack |-> IF gpr = Len(ArmParamRegs) THEN StackRunCount(s.stacks) ELSE 0]

-----------------------------------------------------------------------------
(* DataFlowEntry::filter for one function.                                *)

NoParams == [gpr |-> 0, fpr |-> 0, stack |-> 0]

\* A declared arity: the first four words in r0-r3, the rest on the stack.
DeclaredParams(n) ==
  [gpr |-> Min({n, Len(ArmParamRegs)}), fpr |-> 0, stack |-> n - Min({n, Len(ArmParamRegs)})]

\* Mutant: the calls are merged by taking the most any call has.
CommonParamsMax(f) ==
  IF CallsOf(f) = {} THEN NoParams
  ELSE LET p(c) == SiteParams(candidates[c])
       IN  [gpr |-> Max({p(c).gpr : c \in CallsOf(f)}),
            fpr |-> Max({p(c).fpr : c \in CallsOf(f)}),
            stack |-> Max({p(c).stack : c \in CallsOf(f)})]

\* callsFilterCommonRegisters and callsFilterSameNumberOfStacks: every
\* count is the least any call of f has.
CommonParams(f) ==
  IF CallsOf(f) = {} THEN NoParams
  ELSE LET p(c) == SiteParams(candidates[c])
       IN  [gpr |-> Min({p(c).gpr : c \in CallsOf(f)}),
            fpr |-> Min({p(c).fpr : c \in CallsOf(f)}),
            stack |-> Min({p(c).stack : c \in CallsOf(f)})]

\* No reaching definitions: no parameters and the calls left as they are.
\* A declaration overrides what the calls show.
FilterParams(f) ==
  CASE f \in NoRda             -> NoParams
    [] f \in DOMAIN KnownArity -> DeclaredParams(KnownArity[f])
    [] OTHER                   -> CommonParams(f)

-----------------------------------------------------------------------------
(* DataFlowEntry::replaceCalls: the loads before one call.                *)

\* Registers in ABI order, then FP registers, then stack words upwards
\* from the lowest one stored before this call.
CallArgs(c, p) ==
  LET s == candidates[c]
      base == IF s.stacks = {} THEN 0 ELSE Min(s.stacks)
  IN  [regs |-> SubSeq(ArmParamRegs, 1, p.gpr) \o SubSeq(ArmParamFPRegs, 1, p.fpr),
       stacks |-> [i \in 1..p.stack |-> base + WordSize * (i - 1)]]

-----------------------------------------------------------------------------
(* ParamReturn::run.                                                      *)

Init ==
  /\ candidates = [c \in Sites |-> NotCollected]
  /\ signature = [f \in Fns |-> NotFiltered]
  /\ calls = [c \in Sites |-> Niladic]
  /\ applied = {}
  /\ phase = "collect"

\* collectAllCalls, one call: DataFlowEntry::addCall records the stores
\* that reach it.
AddCall(c) ==
  /\ phase = "collect"
  /\ candidates[c] = NotCollected
  /\ \E s \in StoreChoices[c] : candidates' = [candidates EXCEPT ![c] = s]
  /\ UNCHANGED <<signature, calls, applied, phase>>

CollectedAllCalls ==
  /\ phase = "collect"
  /\ \A c \in Sites : candidates[c] /= NotCollected
  /\ phase' = "filter"
  /\ UNCHANGED <<candidates, signature, calls, applied>>

\* filterCalls, one function, in the order of _fnc2calls.
Filter(f) ==
  /\ phase = "filter"
  /\ signature[f] = NotFiltered
  /\ signature' = [signature EXCEPT ![f] = [filtered |-> TRUE, params |-> FilterParams(f)]]
  /\ UNCHANGED <<candidates, calls, applied, phase>>

FilteredAll ==
  /\ phase = "filter"
  /\ \A f \in Fns : signature[f] /= NotFiltered
  /\ phase' = "apply"
  /\ UNCHANGED <<candidates, signature, calls, applied>>

\* applyToIr, one function: every call of it gets the function's arguments,
\* except where reaching definitions were unavailable.
ApplyToIr(f) ==
  /\ phase = "apply"
  /\ f \notin applied
  /\ applied' = applied \cup {f}
  /\ calls' = [c \in Sites |->
                 IF CalleeOf[c] = f /\ f \notin NoRda
                 THEN CallArgs(c, signature[f].params) ELSE calls[c]]
  /\ UNCHANGED <<candidates, signature, phase>>

AppliedAll ==
  /\ phase = "apply"
  /\ applied = Fns
  /\ phase' = "done"
  /\ UNCHANGED <<candidates, signature, calls, applied>>

Terminated == phase = "done" /\ UNCHANGED vars

Next ==
  \/ \E c \in Sites : AddCall(c)
  \/ CollectedAllCalls
  \/ \E f \in Fns : Filter(f)
  \/ FilteredAll
  \/ \E f \in Fns : ApplyToIr(f)
  \/ AppliedAll
  \/ Terminated

Spec == Init /\ [][Next]_vars

-----------------------------------------------------------------------------
(* Properties.                                                            *)

\* A call of a function without a declaration only loads locations that
\* were stored before it: the continuous-prefix, continuous-stack and
\* common-register filters never make a call pass an undefined value.
ArgumentsWereStored ==
  phase \in {"apply", "done"} =>
    \A c \in Sites :
      CalleeOf[c] \notin DOMAIN KnownArity =>
        /\ Range(calls[c].regs) \subseteq candidates[c].regs \cup candidates[c].fpRegs
        /\ Range(calls[c].stacks) \subseteq candidates[c].stacks

\* The ARM tests' rule: a call passes stack words only when it also passes
\* all four parameter registers r0-r3.
StackOnlyAfterAllRegisters ==
  \A c \in Sites :
    calls[c].stacks /= <<>> =>
      Len(calls[c].regs) >= Len(ArmParamRegs) /\ SubSeq(calls[c].regs, 1, 4) = ArmParamRegs

=============================================================================
