SPECIFICATION Spec
CONSTANTS
  MaxBytes = 3
  Keys = {30, 71, 145, 149, 201, 202, 208}
INVARIANT NothingLost
PROPERTY EventsInOrder
CHECK_DEADLOCK FALSE
