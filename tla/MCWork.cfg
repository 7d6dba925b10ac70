SPECIFICATION MCSpec
CONSTANTS
  n = 3
  Workers = 2
  None = None
  Routes = {1, 2, 3}
  RouteConfigs <- MCConfigs
  RecoverRuns <- MCRuns
  AheadModes = {"ahead", "both", "route"}
  SessionTurns = {1, 2}
  CallIds = {"", "a", "b", "c"}
  SavedHistories <- MCSaved
  ModelReplies <- MCReplies
  \* A program of two steps, started three times on two kinds of work.
  ProgramSteps = 2
  ProgramInputs = {"a", "b"}
  MaxStarts = 3
  \* A setting made four times; two goroutines that read two variables which change
  \* twice; three goroutines that ask for two types, with room for one.
  SettingValues = {"a", "b"}
  Original = "a"
  MaxSets = 4
  Readers = {1, 2}
  Cells = {1, 2}
  MaxChanges = 2
  Callers = {1, 2, 3}
  PlanTypes = {"t", "u"}
  PlanLimit = 1
INVARIANTS
  PoolKept
  RoutesKept
  RecoveryKept
  AheadKept
  ResumeKept
  SharedKept
  SessionSound
PROPERTIES
  NeverAgain
  TurnsWhole
