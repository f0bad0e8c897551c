SPECIFICATION Spec
CONSTANTS
  h1 = h1
  h2 = h2
  Family = "EUSCI"
  Devices <- MCDevices
  Base <- MCBase
  Handles <- MCHandles
  ACLK = 32768
  Rates = {10000, 40000}
  MaxBytes = 2
SYMMETRY Symmetry
INVARIANT TypeOK
INVARIANT ChannelsReachTheirBlocks
INVARIANT RateWithinTwo
