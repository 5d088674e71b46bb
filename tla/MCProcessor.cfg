CONSTANTS
  Ids = {1, 2, 3}
  Runs = {"run 1", "run 2"}
  None = None
  Tasks <- MCTasks
  Salience <- MCSalience
  DecayRate <- MCDecayRate
  Related <- MCPair
  Alike <- MCChain
  MaxRelations = 2
  MinMembers = 2
  Page = 2
  MaxEvents = 1
SPECIFICATION Spec
INVARIANTS TypeOK HalvedOncePerLink PassMakesTrees PassLinksOnce
