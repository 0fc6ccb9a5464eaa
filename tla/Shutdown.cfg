SPECIFICATION Spec
CONSTANTS
  Main = Main
  Workers = {w1}
  MaxPresses = 3
  MaxWorkerCalls = 2
CHECK_DEADLOCK FALSE
INVARIANTS TypeOK SecondSigintAborts DispositionRestored SignalsForwarded
PROPERTIES ModeMovesForward SigintServed
