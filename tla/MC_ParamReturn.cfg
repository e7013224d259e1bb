CONSTANTS
  f = f
  g = g
  h = h
  c1 = c1
  c2 = c2
  c3 = c3
  c4 = c4
  Fns <- MCFns
  Sites <- MCSites
  CalleeOf <- MCCalleeOf
  KnownArity <- MCKnownArity
  NoRda <- MCNoRda
  StoreChoices <- MCStoreChoices

SPECIFICATION Spec

INVARIANTS
  ArgumentsWereStored
  StackOnlyAfterAllRegisters
