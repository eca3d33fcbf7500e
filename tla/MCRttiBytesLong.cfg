CONSTANTS
    Address <- MCAddress
    Calls <- LongStrings
    Null = Null
    Capped = Capped
SPECIFICATION RttiSpec
INVARIANTS
  ValuesCopied
