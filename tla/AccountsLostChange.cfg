\* The test on password changes, against two changes in flight.
SPECIFICATION Spec
CONSTANTS
  Requests = {r1, r2}
  UserIds = {u1}
  Emails = {e1}
  Passwords = {p1, p2}
  Tokens = {t1, t2, t3}
  MaxActiveHashes = 2
  MaxSalt = 3
  NoId = NoId
  NoEmail = NoEmail
  NoPassword = NoPassword
PROPERTY ChangeProvesCurrentPassword
