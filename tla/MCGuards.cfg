SPECIFICATION Spec
CONSTANTS
  MaxTime = 8
  Keys = {u1, u2}
  MaxRequests = 2
  Window = 3
  CleanupInterval = 3
  MaxEntries = 1
  MaxChecks = 6
  Addresses = {ip1}
  MaxAttempts = 2
  AttemptWindow = 2
  Lockout = 4
  SweepInterval = 2
  MaxGuesses = 6
  MaxVerifying = 2
  Operations = {o1, o2}
  FailureThreshold = 2
  RecoveryTimeout = 2
  MaxRetries = 3
  InitialDelay = 1
  MaxDelay = 2
  MaxJitter = 1
  ProviderCount = 2
  RequestTimeout = 1
  RetryDelay = 0
  StoreTime = 3
  PollInterval = 2
  MaxStarts = 1
  MaxPasses = 5
INVARIANTS
  GuessesBounded
  PollsBounded
PROPERTIES
  AcceptsExactly
  LockoutHolds
  RecoveryRespected
CHECK_DEADLOCK FALSE
