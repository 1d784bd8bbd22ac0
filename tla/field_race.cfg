\* getfield and putfield of a final field link one entry concurrently; the
\* interpreter reads the field through it and re-resolves lost bytecodes.
CONSTANTS
  w1 = w1  w2 = w2  w3 = w3  r1 = r1  r2 = r2
  m1 = m1  m2 = m2  k1 = k1  x1 = x1  x2 = x2  a1 = a1  a2 = a2
  NULL = NULL  Garbage = Garbage
  Writers = {w1, w2}
  Readers = {r1}
  Call <- FieldCalls
  ReadKind <- FieldReader
  Methods = {m1, m2}
  Classes = {k1}
  Appendices = {x1, x2}
  VTable <- MCVTable
  Itable <- MCItable
  InitF2 = 0
  MaxWord = 3
  RelaxedLoads = FALSE
SPECIFICATION Spec
INVARIANT FieldSound
PROPERTY EventuallyResolved
PROPERTY ImplementsPublication
