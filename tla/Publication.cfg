\* Two runs with the same inputs, three attempts each, of which two in all may
\* be interrupted; one rebuild per run.
SPECIFICATION Spec
CONSTANTS
  Runs = {r1, r2}
  Payload = {"manifest.json", "runtime.zip"}
  MaxReleases = 2
  MaxAttempts = 3
  MaxBuilds = 2
  MaxInterruptions = 2
  SlowListing = FALSE
INVARIANTS
  PublishedIsVerified
  OneRelease
PROPERTIES
  PublishedIsImmutable
  OnlyOwnBytesAreReplaced
  RetriedRunPublishes
CHECK_DEADLOCK FALSE
