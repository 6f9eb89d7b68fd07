SPECIFICATION Spec
CONSTANTS
  o1 = o1
  o2 = o2
  o3 = o3
  c1 = c1
  c2 = c2
  r1 = r1
  r2 = r2
  p1 = p1
  p2 = p2
  NoOrder = NoOrder
  Orders <- MCOrders
  Codes <- MCCodes
  Routers <- MCRouters
  Procs <- MCProcs
  RouterOf <- MCRouterOf
  Unreadable <- MCRouters
SYMMETRY Symm
INVARIANTS OneVoucherPerOrder VoucherOpensRouter CreatedMeansVoucher
