CONSTANTS
  Requests = {r1, r2}
  Passwords = {p1, p2}
  NoPassword = NoPassword
  MaxGen = 2
SYMMETRY Symmetry
SPECIFICATION Spec
INVARIANTS
  TypeOK
  SessionsFollowThePassword
  AccountHasAddress
PROPERTIES
  AccountIsClaimedOnce
