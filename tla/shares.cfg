SPECIFICATION FairSpec
CONSTANTS
  Share <- MCShare
  Parent <- MCParent
  Block <- MCBlock
  Window = 3
  MaxWalk = 1
  Page = 1
  MaxBatches = 2
  LeafBudget = 1
  PruneDepth = 2
  None = None
INVARIANT TypeOK
INVARIANT AnswersMatch
PROPERTY ReaderStaysOnFork
PROPERTY TipNeverFallsBack
PROPERTY ChainCompletes
