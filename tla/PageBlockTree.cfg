\* 9 pages of 2 bytes and a part of one, and a fan-out of 2: three levels of nodes, and a page behind the
\* last entry of the root node.
CONSTANTS
  TreeSize = 19
  LeafSize = 2
  SubNodes = 2
  MaxFailures = 1
SPECIFICATION Spec
INVARIANTS
  TreeIsSound
PROPERTIES
  ImplementsPageSet
