CONSTANTS
  Updates = {u1, u2, u3}
  Readers = {r1, r2}
  Boot = Boot
  NoOne = NoOne
  NoSnap = NoSnap
  MaxCrashes = 2
SPECIFICATION Spec
INVARIANTS TypeOK AcknowledgedSurvives SnapshotStable NeverTorn
PROPERTIES ImplementsPromise
CHECK_DEADLOCK FALSE
