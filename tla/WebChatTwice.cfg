SPECIFICATION Spec
CONSTANTS
  alice = alice
  bob = bob
  User = {alice, bob}
  NULL = NULL
  MaxSockets = 1
  MaxLogins = 2
  MaxSays = 1
  MaxSends = 1
INVARIANT OneLoginAtATime
