SPECIFICATION PathSpec
CONSTANTS
  MaxDelay = 3000
  DefaultPublishTTL = 2000
  DefaultMaxAttempts = 5
  DefaultTTL = 1000
  ClientMaxAttempts = 3
  UserOpts <- MCUserOpts
  StoreOpts <- MCStoreOpts
  Clock <- MCClock
INVARIANTS ClientCheckSuffices StoredHasWindow
