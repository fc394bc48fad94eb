SPECIFICATION Spec
CONSTANTS
  NULL = NULL
  NoName = NoName
  alice = alice
  bob = bob
  c1 = c1
  c2 = c2
  c3 = c3
  Conn = {c1, c2, c3}
  User = {alice}
  MAX_CLIENTS = 3
  MAX_FDS = 3
  MaxLines = 2
  Lines <- TextLines
  Typists <- OnlyC1
  Stallers <- Nobody
  Leavers <- OnlyC1
SYMMETRY OthersAlike
INVARIANTS TotalOrder BroadcastReachesCrowd
