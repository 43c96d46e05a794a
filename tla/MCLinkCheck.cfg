\* Slots two ticks apart; one request, two, or one in a chain.
SPECIFICATION Spec
CONSTANTS
  alpha = alpha
  beta = beta
  Hosts <- MCHosts
  HostOf <- MCHostOf
  Inputs <- MCInputs
  Configs <- MCConfigs
  DefaultRedirects = 2
  DefaultInterval = 2
INVARIANTS
  MapIsComplete
  LoadIsBounded
PROPERTIES
  VerdictIsFinal
  CheckReturns
