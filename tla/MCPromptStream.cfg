SPECIFICATION Spec
CONSTANTS
  Asks = {a1, a2}
  Edits = {e1}
  Attached = {{}, {a1, a2}}
  MaxText = 1
  MaxMetas = 1
SYMMETRY Symmetry
INVARIANT PromptInv
INVARIANT StoredIsWhole
INVARIANT ShownImageIsStored
PROPERTY ImplementsAnswers
PROPERTY CountsKept
CHECK_DEADLOCK FALSE
