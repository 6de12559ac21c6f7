SPECIFICATION Spec
CONSTANTS
  h1 = h1
  s1 = s1
  p1 = p1
  p2 = p2
  Handler = {h1}
  Server = {s1}
  Prepared = {p1, p2}
  EncodingOf <- MCEncodingOf
  MadeWith <- MCMadeWith
  Numbers <- MCNumbers
  Periods = {0, 1, 2}
  Chosen = {"Protobuf"}
  NoSerializer = NoSerializer
  MaxOptions = 3
  NoType = NoType
  Type <- MCType
  TypeKind <- MCTypeKind
  Elems <- MCElems
  Words <- MCWords
  Datum <- MCDatum
  Value <- MCValue
  ValueKind <- MCValueKind
  Size <- MCSize
  Parts <- MCParts
INVARIANTS TypeOK LimitsKnown ValidationExact BroadcastsLimited
CHECK_DEADLOCK FALSE
