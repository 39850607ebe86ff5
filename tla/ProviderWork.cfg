\* An operation and an event of one order, every fault.
SPECIFICATION Spec
CONSTANTS
  Operations = {o1}
  Events = {e1}
  OperationAttempts = 3
  EventAttempts = 3
  MaxStalls = 1
  Faults = {"enqueue", "provider", "database", "crash"}
  Nothing = Nothing
CHECK_DEADLOCK FALSE
INVARIANT
  SuccessIsReal
PROPERTIES
  EventsHandledOnce
  WorkSettles
  AttemptsRunOut
