------------------------------- MODULE Tariff -------------------------------
(***************************************************************************)
(* TariffService: how long what is bought lasts and whether it is a trial  *)
(* (src/src/tariff).  Amounts are left out: they are a function of the     *)
(* tariff, and no step reads one back.                                     *)
(*                                                                         *)
(* The calendar is a clock of units; a calendar month is MonthLength of    *)
(* them whatever the month.                                                *)
(***************************************************************************)
EXTENDS Integers

CONSTANTS
  FreeDays,         \* reward_value of promotion first_subscription
  MonthLength,      \* add(date, {months: 1})
  SixMonthsLength   \* add(date, {months: 6})

ASSUME TariffAssumption ==
  /\ FreeDays \in Nat \ {0}
  /\ MonthLength \in Nat \ {0}
  /\ SixMonthsLength \in Nat \ {0}

\* The trial applies to plans[1], the PLUS plan, bought by the month.
Trial(plan, six, promotion) == promotion /\ ~six /\ plan = "plus"

NextChargeAt(plan, six, promotion, now) ==
  now + CASE Trial(plan, six, promotion) -> FreeDays
          [] six -> SixMonthsLength
          [] OTHER -> MonthLength

\* getTariff: promotion says whether the first-subscription one is usable.
GetTariff(plan, six, promotion, now) ==
  [end |-> NextChargeAt(plan, six, promotion, now),
   trial |-> Trial(plan, six, promotion)]

=============================================================================
