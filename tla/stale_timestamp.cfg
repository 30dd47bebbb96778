SPECIFICATION Spec
CONSTANTS
  SeqHalf = 8
  TsHalf = 8
  Stream <- StreamShort
  Codec = "VP8"
  kMaxPacketsInSession = 5
  DecodablePacketCounts = {1}
  kStartNumberOfFrames = 2
  kMaxNumberOfFrames = 5
  kMaxConsecutiveOldPackets = 2
  NackModes = {"kNack"}
  DecodeErrorModes = {"kNoErrors"}
  MaxNackListSize = 6
  MaxPacketAgeToNack = 7
  MaxIncompleteDuration = 0
  MayStop = FALSE
PROPERTY NeverDecodeWithErrors
