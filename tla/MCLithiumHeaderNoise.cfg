SPECIFICATION Spec
CONSTANTS
  Commands <- MCCommands
  Lengths <- MCLengths
  Noise <- MCNoise
INVARIANT TypeOK
INVARIANT TwoBadBytesRejected
CHECK_DEADLOCK FALSE
