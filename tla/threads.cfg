SPECIFICATION ThreadSpec
CONSTANTS
  None = None
  r1 = r1
  r2 = r2
  r3 = r3
  c1 = c1
  c2 = c2
  h1 = h1
  h2 = h2
  res1 = res1
  res2 = res2
  Runs = {r1, r2}
  MaxSteps = 2
  Plans <- AllPlans
  Histories <- Start
  Values = {h1, h2, c1, c2, res1, res2}
SYMMETRY Symmetry
INVARIANT ReloadShowsStream
INVARIANT OneMessagePerRun
INVARIANT ResultsAtTheirCall
