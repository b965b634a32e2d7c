SPECIFICATION Spec
CONSTANTS
  Installed = 1
  Newest = 3
  Clicks = {"click", "second click"}
  Hides = {"hide"}
  Toggles = {"check", "install"}
  Required = 1
  Threshold = 1
  Jobs = {"export"}
  KeyFiles <- MCKeyFiles
  Served <- MCServed
  Signatures <- MCSignatures
  Listings <- MCListings
  Build <- MCBuild
INVARIANTS
  OneAttempt
  InstallsWhatWasVerified
  ChecksGoOn
PROPERTIES
  NoReplay
CHECK_DEADLOCK FALSE
