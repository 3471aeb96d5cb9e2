\* The last releases before the ASR bridge and before iOS without the provider, the
\* first with the latter, and one whose Dawn is not replaced.  Two attempts of the packaging run and a failure of a
\* publish job are enough for every pair of looks at the source run to see different
\* attempts.  Runs end; nobody has to start another.
SPECIFICATION PromotionSpec
CHECK_DEADLOCK FALSE
CONSTANTS
  Tags = {1500, 1600, 1700, 2000}
  Checkouts <- MCCheckouts
  MaxAttempts = 2
  MaxCrashes = 1
INVARIANTS
  SoundInputsArePackaged
  ReleaseIsQualified
  PublishedIsAPreparedCandidate
PROPERTY
  DraftIsFinished
