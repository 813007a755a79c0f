SPECIFICATION GuardSpec
CONSTANTS
  Calls = {c1, c2, c3, c4}
  Kinds <- MCKinds
  Chain <- MCChain
  Limiters <- MCLimiters
  Cooldowns = {"cooldown"}
  maxRequests <- MCMaxRequests
  Failing = {"expire", "dropVerified"}
  MayCrash = TRUE
  MaxInFlight = 2
  LOGIN_FAIL_MAX_ATTEMPTS = 2
  OTP_MAX_ATTEMPTS = 2
SYMMETRY AnyCall
INVARIANTS
  AdmittedWithinLimit
  KeyWillExpire
  ResetHasCause
  OtpIsSpent
  FailuresBlock
