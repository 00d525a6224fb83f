SPECIFICATION Spec
CONSTANTS
  Hooks = {h1, h2}
  Urls = {u1, u2}
  NoUrl = NoUrl
  Overlap = TRUE
  MaxTime = 4
SYMMETRY Symmetry
PROPERTY RefundIsFinal
