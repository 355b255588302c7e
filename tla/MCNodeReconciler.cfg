SPECIFICATION Spec
CONSTANTS
  r1 = r1
  r2 = r2
  s1 = s1
  s2 = s2
  raw1 = raw1
  Off = Off
  None = None
  Rules <- MCRules
  Snis <- MCSnis
  Raws <- MCRaws
  Issuable <- MCSnis
  Configs <- MCConfigs
  MaxRev = 3
  MaxFaults = 2
INVARIANTS
  TypeOK
  RoutesHaveSites
  LkgSitesPresent
  LkgSurvives
  ConvergedIsDurable
  TagsAreAccountable
PROPERTIES
  NeverOlder
  ActiveRouteSurvives
