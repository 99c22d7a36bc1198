CONSTANTS
  flour = flour
  dough = dough
  Raw = {flour}
  Dish = {dough}
  Order = {o1}
  Count = {c1}
  Purchase = {p1}
  Worker = {w1, w2}
  Key = {k1}
  NoKey = NoKey
  Amount = {1}
  Yield = {2}
  Recipe <- MCRecipe
  Formula <- MCOneFormula
  Opening <- MCOpening
  Tally <- MCTally
  Lines <- MCLines
  Expires = {1}
  Load = {"move", "sell", "reverse", "prepare", "waste", "count", "order"}
  MaxBatches = 2
  MaxTime = 0
  MaxRequests = 4
  MaxAttempts = 2
SPECIFICATION Spec
SYMMETRY Crew
INVARIANTS
  BatchAddsUp
  KeysWriteOnce
  BookedOnce
CHECK_DEADLOCK FALSE
