SPECIFICATION Spec
CONSTANTS
  Messages <- SomeMessages
INVARIANTS
  TypeOK
  WritesInBounds
  PacketsFit
  DecodedFaithfully
  ParsedAsSent
PROPERTIES
  Terminates
\* A packet that was handled, dropped or refused is over.
CHECK_DEADLOCK FALSE
