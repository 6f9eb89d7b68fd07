SPECIFICATION Spec
CONSTANTS
  a1 = a1
  a2 = a2
  b1 = b1
  b2 = b2
  b3 = b3
  o1 = o1
  o2 = o2
  g1 = g1
  None = None
  Admins <- MCAdmins
  Operators <- MCOperators
  Brands <- MCBrands
  BrandOwner <- MCBrandOwner
  Outlets <- MCOutlets
  Agents <- MCAgents
  FirstBrands <- MCFirstBrands
SYMMETRY Symm
PROPERTIES LinksStayInBrand OutletStaysWithOwner ReachGrowsOnRequest
