SPECIFICATION FairSpec
CONSTANTS
  Plans <- MCPlans
  Packets <- MCPackets
  Failures <- MCFailures
  MaxStepTurns = 3
  MaxExecutionTurns = 5
INVARIANTS WaitingIsAnswerable 
PROPERTIES ResultMatchesSteps   LoopReturns
CHECK_DEADLOCK FALSE
