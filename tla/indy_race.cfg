\* Two threads link one invokedynamic call site to different adapters and
\* appendices under the constant pool lock while two readers ask for the appendix.
CONSTANTS
  w1 = w1  w2 = w2  w3 = w3  r1 = r1  r2 = r2
  m1 = m1  m2 = m2  k1 = k1  x1 = x1  x2 = x2  a1 = a1  a2 = a2
  NULL = NULL  Garbage = Garbage
  Writers = {w1, w2}
  Readers = {r1, r2}
  Call <- IndyCalls
  ReadKind <- AppendixReaders
  Methods = {m1, m2, a1, a2}
  Classes = {k1}
  Appendices = {x1, x2}
  VTable <- MCVTable
  Itable <- MCItable
  InitF2 = 1
  MaxWord = 3
  RelaxedLoads = FALSE
SPECIFICATION Spec
INVARIANT AppendixSound
INVARIANT RefInitJustOnce
PROPERTY EventuallyResolved
PROPERTY ImplementsPublication
