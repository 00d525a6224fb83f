SPECIFICATION FairSpec
CONSTANTS
  Requests = {r1}
  Hooks = {h1}
  Crons = {c1}
  Purchases = {p1}
  Renewals = {}
  NoPayment = NoPayment
  Plans = {"plus"}
  Terms = {FALSE}
  SbpChoices = {FALSE}
  RebillChoices = {TRUE}
  FreeDays = 1
  MonthLength = 1
  SixMonthsLength = 3
  MaxTime = 2
  Stall = 0
  MaxCrashes = 1
PROPERTY ConfirmedPaymentIsRecorded
PROPERTY ConfirmedPaymentTakesEffect
PROPERTY ExpiredCancellationEndsAccess
