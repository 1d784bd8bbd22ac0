\* check_no_old_entries() after RedefineClasses, on a cache whose entry 1 is
\* shared by invokevirtual and invokespecial of the same final method.
CONSTANTS
  k1 = k1  k2 = k2  n1 = n1  n2 = n2  n3 = n3
  NULL = NULL  Garbage = Garbage
  Entries = {0, 1}
  Classes = {k1, k2}
  Names = {n1, n2, n3}
  HolderOf <- MCHolderOf
  Sites <- SharedSitesAt1
  InverseMap <- MCInverseMap
  IndyMap <- NoIndy
  MaxVersion = 2
SPECIFICATION Spec
INVARIANT CheckNoOldEntriesSound
