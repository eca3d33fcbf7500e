CONSTANTS
    Address <- MCAddress
    Calls <- MCCalls
    Null = Null
    Capped = Capped
SPECIFICATION RttiSpec
INVARIANTS
  StaysInside
  MovesBytes
  ValuesCopied
PROPERTIES
  Returns
