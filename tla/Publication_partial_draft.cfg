SPECIFICATION Spec
CONSTANTS
  Runs = {r1}
  Payload = {"manifest.json", "runtime.zip"}
  MaxReleases = 2
  MaxAttempts = 3
  MaxBuilds = 1
  MaxInterruptions = 2
  SlowListing = FALSE
INVARIANTS PartialDraftIsResumable
CHECK_DEADLOCK FALSE
