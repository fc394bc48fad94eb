SPECIFICATION Spec
CONSTANTS
  alice = alice
  bob = bob
  User = {alice, bob}
  NULL = NULL
  MaxSockets = 2
  MaxLogins = 2
  MaxSays = 1
  MaxSends = 1
SYMMETRY UsersAlike
INVARIANTS WebTypeOK StoredIsServed SpeaksAsShown GoneIsClosed LoginAnswered
PROPERTIES HearsOwn EarlyIsAwaited
