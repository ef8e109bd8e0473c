\* Two overlapping requests of every kind on two accounts and two emails.
SPECIFICATION Spec
CONSTANTS
  Requests = {r1, r2}
  UserIds = {u1, u2}
  Emails = {e1, e2}
  Passwords = {p1, p2}
  Tokens = {t1, t2, t3}
  MaxActiveHashes = 2
  MaxSalt = 3
  NoId = NoId
  NoEmail = NoEmail
  NoPassword = NoPassword
SYMMETRY Symmetry
INVARIANTS
  OneAccountPerEmail
  SessionsProven
  SessionsPostdateChange
PROPERTY ReplacedOnlyByProof
