\* RedefineClasses, repeatedly, on a cache with a static, a vfinal, a vtable,
\* an interface, a field and an invokedynamic entry resolved before or after
\* each redefinition.
CONSTANTS
  k1 = k1  k2 = k2  n1 = n1  n2 = n2  n3 = n3
  NULL = NULL  Garbage = Garbage
  Entries = {0, 1, 2, 3, 4, 5}
  Classes = {k1, k2}
  Names = {n1, n2, n3}
  HolderOf <- MCHolderOf
  Sites <- DistinctSites
  InverseMap <- MCInverseMap
  IndyMap <- IndyAt5
  MaxVersion = 3
SPECIFICATION Spec
INVARIANT NoOldMethodReferenced
PROPERTY DecodeFollowsRedefinition
CHECK_DEADLOCK FALSE
