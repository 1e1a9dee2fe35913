SPECIFICATION Spec
CONSTANTS
  Now = 5
  ChangeSources = {"changes", "changes-feed"}
  Inputs <- MCInputs
  Asked <- MCAsked
INVARIANTS
  HealthyRecordsRender
  NoFalseHealthy
