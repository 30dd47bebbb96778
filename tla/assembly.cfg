SPECIFICATION Spec
CONSTANTS
  SeqHalf = 8
  TsHalf = 8
  Stream <- StreamVP8
  Codec = "VP8"
  kMaxPacketsInSession = 6
  DecodablePacketCounts = {3, 4, 5}
  Mode = "kSelectiveErrors"
INVARIANTS
  CompleteHasAllPackets
  PacketsInOrder
PROPERTY StateOnlyAdvances
