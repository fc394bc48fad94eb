SPECIFICATION Spec
CONSTANTS
  c1 = c1
  c2 = c2
  s1 = s1
  s2 = s2
  z = z
  a = a
  b = b
  Half = {z, a, b}
  Zero = z
  MAX_DATA_SIZE = 32
  Caller = {c1}
  Session = {s1}
  Uses <- Alone
  Ops <- EveryOp
  UserKeys <- Keys
  UserIVs <- IVs
  OwnKeys <- OnlyA
  OwnIVs <- OnlyA
  RandomBlocks <- LikeNone
  Lengths <- OneLength
  Faults <- AllFaults
  MaxCalls = 5
INVARIANTS SessionPersists ReturnedIvDecrypts
PROPERTIES ImplementsService
