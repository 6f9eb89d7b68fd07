SPECIFICATION Spec
CONSTANTS
  m1 = m1
  m2 = m2
  d1 = d1
  d2 = d2
  r1 = r1
  None = None
  MaxTokens = 6
  Merchants <- MCMerchants
  Cycles <- MCCycles
  Requests <- MCRequests
SYMMETRY Symm
INVARIANTS SessionStaysAlive OneMerchantPerSession
