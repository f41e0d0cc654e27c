\* Every call may be followed by another with the same router.
SPECIFICATION Spec
CONSTANTS
  Nil = Nil
  home = home
  homePort = homePort
  other = other
  Configs <- MCConfigs
  Calls <- MCCalls
  Addresses <- MCAddresses
  Canonical <- MCCanonical
  Reported <- MCReported
  MaxPerRequest = 4
INVARIANTS FallbackAsPlanned 
