\* Two threads link one invokeinterface site to an interface method while a
\* reader decodes the entry with method_if_resolved.
CONSTANTS
  w1 = w1  w2 = w2  w3 = w3  r1 = r1  r2 = r2
  m1 = m1  m2 = m2  k1 = k1  x1 = x1  x2 = x2  a1 = a1  a2 = a2
  NULL = NULL  Garbage = Garbage
  Writers = {w1, w2}
  Readers = {r1}
  Call <- InterfaceCalls
  ReadKind <- DecodeReader
  Methods = {m1, m2}
  Classes = {k1}
  Appendices = {x1, x2}
  VTable <- MCVTable
  Itable <- MCItable
  InitF2 = 0
  MaxWord = 3
  RelaxedLoads = FALSE
SPECIFICATION Spec
INVARIANT DecodeSound
