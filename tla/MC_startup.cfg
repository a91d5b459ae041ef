SPECIFICATION Spec
CONSTANTS
  CommandLines <- Lines
  EnvProvider <- NoEnv
  Providers <- KnownProviders
  MaxEdits = 2
  MaxCrashes = 1
INVARIANTS
  MappingsFaithful
  OnlyValidRuns
PROPERTIES
  ComesUp
\* Once CRDs stay as they are and nothing crashes, the controller runs on.
CHECK_DEADLOCK FALSE
