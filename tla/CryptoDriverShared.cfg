SPECIFICATION Spec
CONSTANTS
  c1 = c1
  c2 = c2
  s1 = s1
  s2 = s2
  z = z
  a = a
  b = b
  Half = {z, a, b}
  Zero = z
  MAX_DATA_SIZE = 32
  Caller = {c1, c2}
  Session = {s1, s2}
  Uses <- Shared2
  Ops <- EveryOp
  UserKeys <- KeysApart
  UserIVs <- KeysApart
  OwnKeys <- None
  OwnIVs <- None
  RandomBlocks <- OnlyAB
  Lengths <- OneLength
  Faults <- AllFaults
  MaxCalls = 2
INVARIANTS DriverTypeOK NothingLeaks SessionKeyWasSet
