SPECIFICATION Spec
CONSTANTS
  Crons = {c1, c2}
  Window = 2
  Month = 2
  MaxTime = 2
  MaxMails = 2
SYMMETRY Symmetry
INVARIANT ReminderInv
PROPERTY NoMailAfterSent
PROPERTY ImplementsReminderPromise
