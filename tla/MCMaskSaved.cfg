SPECIFICATION RoutesSpec
CONSTANTS
  near = near
  far = far
  x = x
  y = y
  NoCred = NoCred
  Mask = Mask
  Ignored = Ignored
  Unusable = Unusable
  TypedLines <- MCTypedLines
  Pages = {p1, p2}
  MaxSpecs = 2
  WritesFail = FALSE
INVARIANT MaskIsNoPassword
CHECK_DEADLOCK FALSE
