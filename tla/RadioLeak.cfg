CONSTANTS
  Owners = {b, s}
  LEASE = 2
  Raced = TRUE
  Unowned = FALSE
  MaxFaults = 2
SPECIFICATION FairSpec
PROPERTIES
  RadioGivenBack
