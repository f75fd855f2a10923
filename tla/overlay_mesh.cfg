SPECIFICATION FairSpec
CONSTANTS
  Node <- MCThree
  Mortal <- MCNone
  Readers <- MCNone
  Published <- MCNone
  Absent = Absent
  PruneAge = 2
  MaxAge = 3
  GossipLimit = 2
  MaxRecovers = 0
  n1 = n1
  n2 = n2
  n3 = n3
PROPERTY MeshForms
