SPECIFICATION Spec
CONSTANTS
  Main = Main
  Workers = {w1}
  MaxPresses = 2
  MaxWorkerCalls = 2
CHECK_DEADLOCK FALSE
INVARIANT SigintTwiceAborts
