SPECIFICATION Spec
CONSTANTS
  MaxSent = 0
  MaxViolations = 1
  MaxOutgoing = 1
  Outgoing <- MCTexts
  Serializers = {"JSON"}
INVARIANT TextSent
CHECK_DEADLOCK FALSE
