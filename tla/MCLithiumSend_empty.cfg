SPECIFICATION Spec
CONSTANTS
  s1 = s1
  s2 = s2
  Senders <- OneSender
  Memories <- MCMemories
  DataLengths = {0, 1}
  ConfigLength = 40
  RfConfigLength = 10
  UserCommands = {3}
  UserPackets <- NoPackets
  MaxCalls = 1
INVARIANT WireParsesBack
