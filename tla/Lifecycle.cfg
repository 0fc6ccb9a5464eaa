SPECIFICATION Spec
CONSTANTS
  Requests = {q1, q2}
  MaxChunks = 2
INVARIANTS TypeOK InFlightExact AbortBoundsBody BodyFraming LateEntrants
PROPERTY AbortDrains
