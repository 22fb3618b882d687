\* Two goroutines derive errors from each other's, with their own maps.
SPECIFICATION Spec
CONSTANTS
  g1 = g1
  g2 = g2
  k1 = k1
  k2 = k2
  Goroutine = {g1, g2}
  Code = {"c"}
  Reason = {"r"}
  Message = {"m"}
  NoReason = ""
  Key = {k1, k2}
  Val = {1, 2}
  NoCause = NoCause
  Foreign = Foreign
  MaxErrors = 3
  MaxMaps = 3
SYMMETRY GoroutineAndKeySymmetry
INVARIANTS
  TypeOK
  Sealed
  Copied
  CausesOlder
PROPERTIES
  Immutable
  ImplementsContract
