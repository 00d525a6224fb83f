SPECIFICATION Spec
CONSTANTS
  Requests = {r1}
  Hooks = {h1}
  Crons = {c1, c2}
  Purchases = {p1}
  Renewals = {n1, n2}
  NoPayment = NoPayment
  Plans = {"plus"}
  Terms = {FALSE}
  SbpChoices = {FALSE}
  RebillChoices = {TRUE}
  FreeDays = 1
  MonthLength = 1
  SixMonthsLength = 3
  MaxTime = 3
  Stall = 0
  MaxCrashes = 0
SYMMETRY Symmetry
INVARIANT PeriodChargedOnce
INVARIANT RenewalAtFullPrice
INVARIANT ClaimIsPursued
PROPERTY CanceledPeriodNotCharged
PROPERTY ImplementsRenewalPromise
