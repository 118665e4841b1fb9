SPECIFICATION DispatchSteps
CONSTANTS
  Tasks = {t1, t2, t3, t4, t5}
  BatchSize = 2
INVARIANTS
  TasksInOrder
  NoMissedTask
  OneWakeup
  OthersGetTheirTurn
PROPERTY TasksRun
