SPECIFICATION FairSpec
CONSTANTS
  r1 = r1
  r2 = r2
  s1 = s1
  s2 = s2
  raw1 = raw1
  Off = Off
  None = None
  Rules <- MCRules
  Snis <- MCSnis
  Raws <- MCRaws
  Issuable <- MCSnis
  Configs <- MCConfigs
  MaxRev = 2
  MaxFaults = 1
PROPERTIES
  Convergence
