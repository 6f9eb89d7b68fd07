SPECIFICATION Spec
CONSTANTS
  p1 = p1
  p2 = p2
  a1 = a1
  a2 = a2
  k1 = k1
  None = None
  Payments <- TwoPayments
  Totals <- TwoTotals
  Untimed <- FirstPayment
  Hooks <- OneHook
  TTL = 1
  Grace = 1
  Window = 1
  MaxTime = 3
  Prompt = FALSE
  MayMiss = TRUE
  MayRefund = FALSE
  MayCrash = TRUE
SYMMETRY TotalSymm
VIEW WithoutOrphans
INVARIANTS OpenTotalsDiffer PaidHasSettlement ForeignMoneyOnlyByReuse
PROPERTIES PaidOrderStaysPaid
