\* Three texts or requests, two of whose copies the emulator drops, three attempts each.
SPECIFICATION Spec
CONSTANTS
  MAX_ACK_RETRIES = 3
  MaxMsgs = 3
  MaxDrops = 2
  Kinds = {"TEXT", "LIST", "HISTORY"}
INVARIANTS TypeOK DeliveredWasProcessed HandledInOrder
PROPERTIES ImplementsAtLeastOnce TextsAreProcessed
\* The user may stop typing, and a failed send ends the client.
CHECK_DEADLOCK FALSE
