\* A request of every kind, one repair of the plan, two changes of the registry.
SPECIFICATION FairSpec
CONSTANTS
  Requests = {r1}
  KnownIntents <- MCKnownIntents
  ConfirmIntents <- MCConfirmIntents
  MaxIntents = 4
  ToolMapping <- MCToolMapping
  MaxPlanSteps = 20
  MaxTaskUnits = 2
  MaxRepairAttempts = 1
  Configs <- MCConfigs
  Texts <- MCTexts
  IntentAnswers <- MCIntentAnswers
  PlanAnswers <- MCPlanAnswers
  Removable <- MCRemovable
  MaxChanges = 2
INVARIANTS RiskDecidesFirst CompleteMeansPlannable
PROPERTIES AdmittedToolsExist RequestsAreSettled
