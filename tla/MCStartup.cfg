SPECIFICATION FairSpec
CONSTANTS
  Creds <- MCCreds
  Good <- MCGood
  MaxWrites = 3
  MaxFaults = 2
INVARIANT SuccessIsReal
PROPERTIES StatusIsDelivered NeverStuck ProvisionedStarts
