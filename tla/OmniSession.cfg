\* Chunks of two samples, windows of three: the tail of the recording waits
\* upstream for the end of input.
SPECIFICATION Spec
CONSTANTS
  WindowSamples = 3
  OverlapSamples = 1
  MaxBufferedSamples = 3
  StreamSamples = 5
INVARIANTS
  ChunksCarryTheRecording
  EndOfInputIsLast
  UpstreamBufferIsBounded
  FinalIsComplete
PROPERTIES
  ImplementsStream
  FinishedStreamEnds
