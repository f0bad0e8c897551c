SPECIFICATION Spec
CONSTANTS
  s1 = s1
  s2 = s2
  Senders <- OneSender
  Memories <- MCMemories
  DataLengths = {1}
  ConfigLength = 40
  RfConfigLength = 10
  UserCommands = {19}
  UserPackets <- NoPackets
  MaxCalls = 1
INVARIANT KeyIsFourBytes
