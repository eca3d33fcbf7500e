CONSTANTS
    t1 = t1  t2 = t2
    v1 = v1  v2 = v2  w1 = w1
    b1 = b1  b2 = b2   lit = lit
    Nil = Nil  NoOne = NoOne
    Threads = {t1, t2}
    Vars <- MCVars
    Owner <- MCOwner
    Blocks <- MCBlocks
    Literals = {lit}
    Lengths <- MCLengths
    LiteralKinds = {"UStr_fpc"}
    LiteralLength = 40
    Kinds = {"AStr_new", "UStr_fpc", "CStr", "CStr_fpc", "WStr"}
    SharedReads = FALSE
SPECIFICATION Spec
SYMMETRY Symmetry
INVARIANTS
  ReferencesAreTrue
  TextFits

  
  
