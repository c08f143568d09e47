SPECIFICATION FairSpec
CONSTANTS
  Worker = Worker
  Console = Console
  None = None
  StaffTargets = {"ACTIVE", "SUSPENDED"}
  FaultySteps = {"CREATE_DATABASE", "RUN_MIGRATIONS", "SEED_DEFAULTS", "CONFIGURE_BRANDING", "ACTIVATE"}
  Attempts = 4
  MaxFaults = 1
  MaxCrashes = 1
  MaxPassword = 3
  SlowRuns = FALSE
  DeleteAnytime = FALSE
  LateUploads = FALSE
INVARIANTS RecordedStepsHold PasswordsAgree CompletedIsGone StaysInert
PROPERTIES LockFreed GetsProvisioned
CHECK_DEADLOCK FALSE
