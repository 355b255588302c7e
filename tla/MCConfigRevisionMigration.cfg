SPECIFICATION Spec
CONSTANTS
  Fingerprints <- MCFingerprints
  RuleSources <- MCRuleSources
  RuleOwners <- MCRuleOwners
  SourceGroups <- MCSourceGroups
  Candidates <- MCCandidates
  None = None
  MaxRev = 3
  MaxWaiting = 2
PROPERTIES
  MigratedNeverLegacy
