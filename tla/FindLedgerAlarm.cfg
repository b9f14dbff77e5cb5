SPECIFICATION Spec
CONSTANTS
  NoAccount = NoAccount
  NoHash = NoHash
  Requests = {p1}
  Accounts = {a1}
  Names = {n1}
INVARIANT VerifyNeverAlarms
CHECK_DEADLOCK FALSE
