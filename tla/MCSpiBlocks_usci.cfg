SPECIFICATION Spec
CONSTANTS
  h1 = h1
  h2 = h2
  Family = "USCI"
  Devices <- MCDevices
  Base <- MCBase
  Handles <- MCHandles
  ACLK = 32768
  Rates = {20000}
  MaxBytes = 2
INVARIANT EveryChannelHasItsBlock
