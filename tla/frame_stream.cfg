SPECIFICATION FairSpec
CONSTANTS
  HeaderLen = 3
  MaxPayload = 2
  PayloadLens = {0, 1, 2, 3}
  MaxFrames = 3
  MaxDamage = 1
INVARIANTS
  DecodedIsPrefix
PROPERTIES
  AllDecoded
CHECK_DEADLOCK FALSE
