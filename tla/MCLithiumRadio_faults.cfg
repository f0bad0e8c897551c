SPECIFICATION Spec
CONSTANTS
  RadioPackets <- MCPackets
  NoiseBytes <- MCNoise
  MaxFrames = 3
  MaxFaults = 1
INVARIANT TypeOK
INVARIANT CleanFifo
PROPERTY ImplementsLossyFifo
