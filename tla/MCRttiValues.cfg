CONSTANTS
    o1 = o1  o2 = o2  o3 = o3  arr = arr
    Objects = {o1, o2, o3, arr}
    Roots = {"root", "weak", "value1", "value2", "weakobject"}
    Fields <- MCFields
    Type <- MCType
    Family <- MCFamily
    Data = {d1, d2}
    Nil = Nil  Dummy = Dummy
    Fpc = FALSE
    WEAKINTFREF = TRUE
    WEAKINSTREF = TRUE
SPECIFICATION ValuesSpec
INVARIANTS
  CountsReferences
  NothingDangles
PROPERTIES
  CopiedValuesAreEqual
