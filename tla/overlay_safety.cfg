SPECIFICATION Spec
CONSTANTS
  Node <- MCThree
  Mortal <- MCOneMortal
  Readers <- MCTwoReaders
  Published <- MCOneMortal
  Absent = Absent
  PruneAge = 2
  MaxAge = 3
  GossipLimit = 2
  MaxRecovers = 1
  n1 = n1
  n2 = n2
  n3 = n3
SYMMETRY MCSymmetry
INVARIANT LastSeenAccounted
INVARIANT NeverKnowsItself
PROPERTY LiveNeverForgotten
