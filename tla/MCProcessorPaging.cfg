CONSTANTS
  Ids = {1, 2, 3}
  Runs = {"run 1"}
  None = None
  Tasks <- MCDecay
  Salience <- MCSalience
  DecayRate <- MCDecayRate
  Related <- MCChain
  Alike <- MCChain
  MaxRelations = 2
  MinMembers = 2
  Page = 1
  MaxEvents = 1
SPECIFICATION Spec
INVARIANT DecayVisitsAll
