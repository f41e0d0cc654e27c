\* A tool counts as missing though it is registered under its new name.
SPECIFICATION Spec
CONSTANTS
  Requests = {r1}
  KnownIntents <- MCKnownIntents
  ConfirmIntents <- MCConfirmIntents
  MaxIntents = 4
  ToolMapping <- MCToolMapping
  MaxPlanSteps = 20
  MaxTaskUnits = 2
  MaxRepairAttempts = 1
  Configs <- MCConfigs
  Texts <- MCTexts
  IntentAnswers <- MCIntentAnswers
  PlanAnswers <- MCPlanAnswers
  Removable <- MCRemovable
  MaxChanges = 2
INVARIANT RefusedToolsAreMissing
