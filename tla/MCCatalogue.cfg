SPECIFICATION Spec
CONSTANTS
  p1 = p1
  p2 = p2
  Processes = {p1, p2}
  ProviderIds = {1, 2, 3}
  ProviderNames = {"openai", "alibaba", "legacy"}
  ProviderSeed <- MCProviderSeed
  ModelSeed <- MCModelSeed
  OldProviders <- MCOldProviders
  MaxFailures = 1
  Files = {f1, f2}
  Keys = {k1, k2}
  Statuses = {"guest", "active", "plus"}
  NoChat = NoChat
  NoKey = NoKey
SYMMETRY Symmetry
INVARIANT CatalogueInv
INVARIANT OnlyReplacedFilesSpoilHistory
 
