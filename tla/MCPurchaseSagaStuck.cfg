SPECIFICATION Spec
CONSTANTS
  o1 = o1
  o2 = o2
  o3 = o3
  t1 = t1
  t2 = t2
  c1 = c1
  c2 = c2
  r1 = r1
  r2 = r2
  NoOrder = NoOrder
  TopUps <- MCTopUps
  Amount <- MCAmount
  Total <- MCTotal
  Routers <- MCRouters
  Codes <- MCCodes
  RouterOf <- MCRouterOf
  Unreadable <- Nobody
  Orders <- TwoOrders
  CodeChoices <- AnyCode
  MayDie <- Nobody
PROPERTIES HoldsAreResolved
\* the requests end
CHECK_DEADLOCK FALSE
