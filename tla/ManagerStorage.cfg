SPECIFICATION Spec
CONSTANTS
  web = web
  worker = worker
  theme = theme
  Instances = {web, worker}
  Names = {theme}
  Lifetimes = {2}
  Interval = 2
  Window = 2
  Count = 1
  MaxValue = 2
  MaxTime = 4
  MaxCancels = 1
INVARIANTS TypeOK TwiceTheLimit
PROPERTIES GarbageBounded KeepsPromise
SYMMETRY Symmetry
