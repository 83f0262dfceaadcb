CONSTANTS
  Bodies <- MCBodies
  LengthSize = 2
  Base = 2
  Window = 3
  MaxMessages = 3
SPECIFICATION SSpec
CHECK_DEADLOCK FALSE
INVARIANTS
  DeliveredInOrder
  PendingIsWatched
PROPERTIES
  MessagesArrive
