SPECIFICATION Spec
CONSTANTS
  SeqHalf = 8
  TsHalf = 8
  Stream <- StreamH264
  Codec = "H264"
  kMaxPacketsInSession = 6
  DecodablePacketCounts = {}
  Mode = "kWithErrors"
PROPERTY StateOnlyAdvances
