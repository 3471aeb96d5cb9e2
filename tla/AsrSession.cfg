\* Three windows of the recording: a full one, one with overlap, a padded one.
SPECIFICATION Spec
CONSTANTS
  WindowSamples = 3
  OverlapSamples = 1
  MaxBufferedSamples = 3
  StreamSamples = 6
INVARIANTS
  SessionTypeOK
  WindowsCarryTheRecording
  FinalIsComplete
PROPERTIES
  NothingAfterFinal
  ImplementsStream
  FinishedStreamEnds
  BackpressureClears
