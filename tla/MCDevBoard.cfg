SPECIFICATION FairSpec
CONSTANTS
  RxBytes = {0, 7}
  TransmitDelay = 10
INVARIANT TypeOK
INVARIANT TextsIntact
PROPERTY SignalsForever
PROPERTY LedBlinks
PROPERTY BytesBlink
