SPECIFICATION FairSpec
CONSTANTS
  SeqHalf = 8
  TsHalf = 8
  Stream <- StreamTrailing
  Codec = "VP8"
  kMaxPacketsInSession = 5
  DecodablePacketCounts = {1}
  kStartNumberOfFrames = 2
  kMaxNumberOfFrames = 2
  kMaxConsecutiveOldPackets = 1
  NackModes = {"kNack", "kNoNack"}
  DecodeErrorModes = {"kNoErrors"}
  MaxNackListSize = 3
  MaxPacketAgeToNack = 4
  MaxIncompleteDuration = 0
  MayStop = TRUE
INVARIANTS
  ShutdownWakesDecoder
PROPERTIES
  ReadyFrameLeaves
  KeyRequestSent
