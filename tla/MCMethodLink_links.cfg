SPECIFICATION Spec
CONSTANTS
  Requests = {r1, r2}
  Hooks = {h1, h2}
  Keys = {k1, k2, k3}
  NoKey = NoKey
  Bought = Bought
SYMMETRY Symmetry
INVARIANT MethodInv
PROPERTY SpentQrNeverLinks
PROPERTY ImplementsOneTimeLink
