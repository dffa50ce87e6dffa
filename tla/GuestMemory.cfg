SPECIFICATION Spec
CONSTANTS
  Space = 19
  K0 = 6
  K1 = 13
  Low = 5
  Rdram = 2
  MaxSize = 4
  Values = {0, 1}
  Addresses = {4, 5, 7, 8, 13}
  Sizes = {0, 2, 4}
INVARIANTS
  NeverFaults
PROPERTIES
  ImplementsWindows
