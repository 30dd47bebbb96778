SPECIFICATION Spec
CONSTANTS
  kDecoderFrameMemoryLength = 3
  TsRange = 3
  MaxInside = 2
INVARIANT EntriesPointToOwnInfo
PROPERTY SynchronousIsExact
