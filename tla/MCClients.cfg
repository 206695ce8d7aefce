CONSTANTS
\* clients
  Environments <- SomeEnvironments
  MaxLate = 0
  MaxRequests = 2
  ListLimit = 2
  MaxAttempts = 2
  MaxLost = 2
\* console
  Decisions = {"r1"}
  IsLocal = FALSE
  MaxChanges = 2
  MaxMisses = 2
  MaxClicks = 2
\* wallet
  Wallets = {"metamask", "flask", "other"}
  Preferred <- MetaMaskFirst
  Injected = "other"
  NoWallet = "none"
  Accounts = {"a"}
  NoAccount = "-"
  MaxSwitches = 1
  MaxReads = 1
SPECIFICATION AllSpec
INVARIANTS FareTakenOnce ExitTellsTheTruth ListensToPreferred
PROPERTIES ClearedIsCollected ViewNeverGoesBack ChangesAreShown
CHECK_DEADLOCK FALSE
