SPECIFICATION RoutingSpec
CONSTANTS
  b1 = b1
  b2 = b2
  o1 = o1
  w1 = w1
  w2 = w2
  None = None
  MaxQris = 2
  MayStop = FALSE
  Brands <- MCBrands
  Outlets <- MCOutlets
  Consoles <- Both
  Patches <- MCPatches
SYMMETRY Symm
INVARIANTS OneBrandOneQris
