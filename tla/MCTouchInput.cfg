SPECIFICATION Spec
CONSTANTS
  Fingers <- MCFingers
  Positions <- MCPositions
  Capacity = 2
  MaxEvents = 6
INVARIANTS TypeOK ReportsShowFingers
PROPERTIES ListenerSurvives LiftReachesPeer
CHECK_DEADLOCK FALSE
