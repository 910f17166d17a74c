SPECIFICATION TextSpec
CONSTANTS
  BufferMax = 16
  PointerSize = 2
  AttrLens = {2, 3}
  ValueLens = {0, 1, 2, 20}
  MethodLens = {1, 2}
  MethodAttr = 2
  MaxOptions = 5
  KeySize = 4
  CR = "cr"
  LF = "lf"
  NUL = "nul"
  Unreserved = {"a"}
  Bytes = {"a", "cr", "lf", "nul"}
INVARIANTS
  QueryWhole
  RestartKeepsKey
PROPERTIES
  CutFits
