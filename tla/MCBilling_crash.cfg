SPECIFICATION Spec
CONSTANTS
  Requests = {r1}
  Hooks = {h1}
  Crons = {c1}
  Purchases = {p1}
  Renewals = {n1}
  NoPayment = NoPayment
  Plans = {"plus"}
  Terms = {FALSE}
  SbpChoices = {TRUE}
  RebillChoices = {TRUE}
  FreeDays = 2
  MonthLength = 2
  SixMonthsLength = 3
  MaxTime = 3
  Stall = 1
  MaxCrashes = 1
SYMMETRY Symmetry
INVARIANT AccessIsPaidFor
INVARIANT BillingInv
