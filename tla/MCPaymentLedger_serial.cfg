SPECIFICATION Spec
CONSTANTS
  Hooks = {h1, h2}
  Urls = {u1, u2}
  NoUrl = NoUrl
  Overlap = FALSE
  MaxTime = 4
SYMMETRY Symmetry
INVARIANT RecordedIsDated
PROPERTY PaidStaysPaid
PROPERTY ImplementsLifecycle
