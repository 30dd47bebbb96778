SPECIFICATION Spec
CONSTANTS
  SeqHalf = 8
  TsHalf = 8
  MaxPackets = 2
  SpeechTypes = {A, B}
  CngTypes = {C}
  RedType = RedType
  NoType = NoType
  NackThreshold = 1
  ListSizes = {1, 2}
  StereoTypes = {A}
  UnknownTypes = {U}
  Starts = {7}
  MaxSent = 4
  MaxSwitches = 1
  Reorder = 2
  MaxExtract = 2
  MaxSilence = 2
  Nobody = Nobody
PROPERTY PlayedNotNacked
