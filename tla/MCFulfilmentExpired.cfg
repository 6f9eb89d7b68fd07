SPECIFICATION Spec
CONSTANTS
  s1 = s1
  s2 = s2
  t1 = t1
  w1 = w1
  c1 = c1
  c2 = c2
  r1 = r1
  r2 = r2
  Reconciler = Reconciler
  NoOrder = NoOrder
  MayStop <- NoWebhooks
  Sales <- OneSale
  TopUps <- MCTopUps
  Webhooks <- MCWebhooks
  Amount <- MCAmount
  Total <- MCTotal
  Routers <- MCRouters
  Codes <- MCCodes
  RouterOf <- MCRouterOf
  Unreadable <- NoRouters
  CodeChoices <- MCCodeChoices
  Delivered <- NoSale
INVARIANT VoucherSaysPaid
