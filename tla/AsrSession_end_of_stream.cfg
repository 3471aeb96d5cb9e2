SPECIFICATION Spec
CONSTANTS
  WindowSamples = 2
  OverlapSamples = 1
  MaxBufferedSamples = 2
  StreamSamples = 3
PROPERTIES FinalThenEndOfStream
