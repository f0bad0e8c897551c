SPECIFICATION Spec
CONSTANTS
  s1 = s1
  s2 = s2
  Senders <- TwoSenders
  Memories <- MCMemories
  DataLengths = {1}
  ConfigLength = 40
  RfConfigLength = 10
  UserCommands = {1, 3, 9}
  UserPackets <- MCPackets
  MaxCalls = 3
SYMMETRY Symmetry
INVARIANT TypeOK
INVARIANT WireParsesBack
INVARIANT OwnBytesParseBack
INVARIANT NoErrorMeansSent
