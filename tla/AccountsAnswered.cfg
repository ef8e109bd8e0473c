\* Every request is answered and the bound of derivations is left again.
SPECIFICATION FairSpec
CONSTANTS
  Requests = {r1, r2}
  UserIds = {u1}
  Emails = {e1}
  Passwords = {p1, p2}
  Tokens = {t1, t2}
  MaxActiveHashes = 1
  MaxSalt = 2
  NoId = NoId
  NoEmail = NoEmail
  NoPassword = NoPassword
INVARIANT HashAccounting
PROPERTIES
  RequestsAnswered
  NeverBusyForGood
