SPECIFICATION Spec
CONSTANTS
  a1 = a1
  a2 = a2
  p1 = p1
  c1 = c1
  w1 = w1
  w2 = w2
  l1 = l1
  l2 = l2
  None = None
  Gone = Gone
  MaxOrders = 1
  Admins <- MCAdmins
  Packages <- MCPackages
  Customers <- MCCustomers
  OwnerOf <- MCOwnerOf
  Prices <- MCPrices
  Discounts <- MCDiscounts
  Workers <- MCWorkers
  Logins <- MCLogins
SYMMETRY Symm
INVARIANTS ValidityNeverRestarts
