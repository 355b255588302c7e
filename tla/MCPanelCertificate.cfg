CONSTANTS
  r1 = r1
  None = None
  Readers = {r1}
  Life = 3
  Window = 1
  LegacyUntil = 2
  MaxGen = 3
  MaxAttempts = 3
  MaxTime = 4
  MaxHurts = 1
  MaxEvents = 2
SPECIFICATION Spec
INVARIANTS TypeOK CertificateSurvives
PROPERTIES PublicationIsSound
CHECK_DEADLOCK FALSE
