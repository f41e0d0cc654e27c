\* One execution over two steps; the registry changes once at any moment.
CONSTANTS
  t1 = t1
  t2 = t2
  model = model
  None = None
  Tools = {t1, t2}
  ModelNames = {model}
  StepFallbacks = {t2, model}
  ModelAllowed = FALSE
  LastStep = 2
  Offers <- MCOffers
  MaxRepairs = 1
  MaxRetries = 1
  MaxTurns = 3
  MaxChanges = 1
SPECIFICATION FairSpec
CHECK_DEADLOCK FALSE
INVARIANTS TurnsAreAccounted RetriesBounded
PROPERTIES CalledToolsAreThere TurnsEnd
