\* DASHBOARD-SETUP.md on password changes, against a login in flight.
SPECIFICATION Spec
CONSTANTS
  Requests = {r1, r2}
  UserIds = {u1}
  Emails = {e1}
  Passwords = {p1, p2}
  Tokens = {t1, t2, t3}
  MaxActiveHashes = 2
  MaxSalt = 2
  NoId = NoId
  NoEmail = NoEmail
  NoPassword = NoPassword
SYMMETRY Symmetry
INVARIANT ChangeRevokesOldPassword
