SPECIFICATION FairSpec
CONSTANTS
  p1 = p1
  p2 = p2
  a1 = a1
  a2 = a2
  k1 = k1
  None = None
  Payments <- TwoPayments
  Totals <- OneTotal
  Untimed <- FirstPayment
  Hooks <- NoHook
  TTL = 1
  Grace = 1
  Window = 1
  MaxTime = 3
  Prompt = TRUE
  MayMiss = FALSE
  MayRefund = TRUE
  MayCrash = FALSE
PROPERTIES MoneyInTimeIsRecognised
