CONSTANTS
  flour = flour
  dough = dough
  Raw = {flour}
  Dish = {dough}
  Order = {o1, o2}
  Count = {c1}
  Purchase = {}
  Worker = {w1}
  Key = {}
  NoKey = NoKey
  Amount = {1}
  Yield = {1, 2}
  Recipe <- MCOneRecipe
  Formula <- MCFormula
  Opening <- MCOpening
  Tally <- MCTally
  Lines <- MCLines
  Expires = {1, 2}
  Load = {"sell", "reverse", "prepare", "waste", "count"}
  MaxBatches = 2
  MaxTime = 1
  MaxRequests = 4
  MaxAttempts = 2
SPECIFICATION Spec
INVARIANTS
  TypeOK
  BatchWithinYield
PROPERTIES
  SalesDrawTheSoonest
  BatchesTakeWhatIsThere
  SubmitSetsStock
CHECK_DEADLOCK FALSE
