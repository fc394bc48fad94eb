SPECIFICATION Spec
CONSTANTS
  NULL = NULL
  NoName = NoName
  alice = alice
  bob = bob
  c1 = c1
  c2 = c2
  c3 = c3
  Conn = {c1, c2}
  User = {alice}
  MAX_CLIENTS = 2
  MAX_FDS = 2
  MaxLines = 0
  Lines <- NoLines
  Typists <- Nobody
  Stallers <- Nobody
  Leavers <- OnlyC1
INVARIANT ServerSurvives
