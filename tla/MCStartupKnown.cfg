SPECIFICATION FairSpec
CONSTANTS
  Creds <- MCCreds
  Good <- MCGood
  MaxWrites = 1
  MaxFaults = 1
PROPERTY KnownNetworkIsUsed
