SPECIFICATION Spec
CONSTANTS
  SeqHalf = 8
  TsHalf = 8
  Stream <- StreamMixed
  Codec = "VP8"
  kMaxPacketsInSession = 5
  DecodablePacketCounts = {1}
  kStartNumberOfFrames = 2
  kMaxNumberOfFrames = 3
  kMaxConsecutiveOldPackets = 1
  NackModes = {"kNack", "kNoNack"}
  DecodeErrorModes = {"kSelectiveErrors"}
  MaxNackListSize = 4
  MaxPacketAgeToNack = 4
  MaxIncompleteDuration = 2
  MayStop = FALSE
INVARIANTS
  TypeOK
  FramePoolConserved
  RecyclingYieldsFrame
  CleanUpIsTheLoop
  RecyclingIsTheLoop
  NackListBounded
  NackedPacketsAreMissing
PROPERTY DecodedInOrder
