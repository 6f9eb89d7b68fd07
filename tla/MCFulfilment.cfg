SPECIFICATION Spec
CONSTANTS
  s1 = s1
  s2 = s2
  t1 = t1
  w1 = w1
  c1 = c1
  c2 = c2
  r1 = r1
  r2 = r2
  Reconciler = Reconciler
  NoOrder = NoOrder
  MayStop <- MCWebhooks
  Sales <- MCSales
  TopUps <- MCTopUps
  Webhooks <- MCWebhooks
  Amount <- MCAmount
  Total <- MCTotal
  Routers <- MCRouters
  Codes <- MCCodes
  RouterOf <- MCRouterOf
  Unreadable <- MCRouters
  CodeChoices <- MCCodeChoices
  Delivered <- EarlierSale
INVARIANTS FulfilledOnce NothingForFree SentMeansTold
PROPERTIES ConfirmedIsHandled
