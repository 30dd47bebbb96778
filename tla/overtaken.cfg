SPECIFICATION Spec
CONSTANTS
  SeqHalf = 16
  TsHalf = 8
  Stream <- StreamOvertaken
  Codec = "VP8"
  kMaxPacketsInSession = 5
  DecodablePacketCounts = {1}
  kStartNumberOfFrames = 5
  kMaxNumberOfFrames = 5
  kMaxConsecutiveOldPackets = 0
  NackModes = {"kNoNack"}
  DecodeErrorModes = {"kWithErrors"}
  MaxNackListSize = 3
  MaxPacketAgeToNack = 5
  MaxIncompleteDuration = 0
  MayStop = FALSE
PROPERTY DecodedInOrder
