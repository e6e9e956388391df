CONSTANTS
  a = a
  b = b
  r1 = r1
  r2 = r2
  r3 = r3
  w1 = w1
  w2 = w2
  k = k
  NoInvocation = NoInvocation
  Isolates = {a}
  Readers = {r1, r2}
  Writers = {w1}
  MaxWrites = 1
  MaxFaults = 1
CONSTANT Home <- MCHomeOneIsolate
CONSTANT Invocation <- MCTwoInOneInvocation
SPECIFICATION Spec
SYMMETRY MCSymmetry
CHECK_DEADLOCK FALSE
PROPERTY NoStaleServe
