SPECIFICATION FairSpec
CONSTANTS
  RF = RF
  TCP = TCP
  loop = loop
  web = web
  Readers <- MCReaders
  Charges <- MCCharges
INVARIANTS ModeApplied
PROPERTIES CriticalBalances
