CONSTANTS
  a = a
  b = b
  r1 = r1
  r2 = r2
  r3 = r3
  w1 = w1
  w2 = w2
  k = k
  NoInvocation = NoInvocation
  Isolates = {a, b}
  Readers = {r1}
  Writers = {w1, w2}
  MaxWrites = 2
  MaxFaults = 0
CONSTANT Home <- MCHomeBothWriting
CONSTANT Invocation <- MCOutsideInvocations
SPECIFICATION Spec
CHECK_DEADLOCK FALSE
PROPERTY ReadsAreFresh
