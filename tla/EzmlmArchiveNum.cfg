SPECIFICATION Spec
CONSTANTS
  Posts = {p1, p2}
  MaxNum = 3
  SendFailures = 1
  DigestFailures = 0
  MaxCrashes = 0
CHECK_DEADLOCK FALSE
INVARIANTS InOneDigest
