SPECIFICATION BuildSpec
CONSTANTS
  Tags = {1500, 1600, 1700, 1800, 1801, 1900, 2000}
  Platforms = {"android", "ios", "linux", "macos", "windows"}
  Libs <- MCLibs
  Graphs <- MCGraphs
  Leftovers <- MCLeftovers
  MaxBuilds = 2
INVARIANTS
  ManifestIsTrue
  StagedIsQualified
  BundleIsClosed
  CoreReadsTheOptions
CHECK_DEADLOCK FALSE
