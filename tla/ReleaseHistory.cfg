\* Four candidates of three lines after each of four histories; two publish
\* jobs per tag, of which any may be interrupted anywhere.
SPECIFICATION Spec
CONSTANTS
  StableLines <- MCStableLines
  DevelopmentLines <- MCDevelopmentLines
  Candidates <- MCCandidates
  Histories <- MCHistories
  Commits <- MCCommits
  Upstreams <- MCUpstreams
  MaxRuns = 2
INVARIANTS
  NumbersAreUsedOnce
  DraftWaitsForItsRun
  DetectionAgreesWithHistory
PROPERTIES
  PublishedInOrder
CHECK_DEADLOCK FALSE
