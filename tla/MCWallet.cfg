SPECIFICATION Spec
CONSTANTS
  p1 = p1
  p2 = p2
  t1 = t1
  h1 = h1
  h2 = h2
  h3 = h3
  w1 = w1
  w2 = w2
  NoHold = NoHold
  Refs <- MCRefs
  HoldIds <- MCHoldIds
  Workers <- MCWorkers
  CreditTypes <- MCCreditTypes
  Amount <- MCAmount
  Total <- MCTotal
SYMMETRY Symm
INVARIANTS TypeOK LedgerChain AppliedOnce ChargedIffSettled OneActiveHold
PROPERTIES SettledIsFinal ImplementsAccount
\* every reference may have been used up: the wallet then waits for new ones
CHECK_DEADLOCK FALSE
