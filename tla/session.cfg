SPECIFICATION FairSpec
CONSTANTS
  MaxSent = 2
  MaxViolations = 1
  MaxOutgoing = 1
  Outgoing <- MCOutgoing
  Serializers = {"JSON", "Protobuf"}
INVARIANTS TypeOK CleanupComplete SentAgree
PROPERTIES EventsInOrder ConnectionEnds ReaderEnds
CHECK_DEADLOCK FALSE
