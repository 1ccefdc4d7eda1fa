CONSTANTS
  main = main  t1 = t1  t2 = t2
  o1 = o1  o2 = o2  o3 = o3
  Main = main
  Nobody = Nobody
  a = a  b = b  c = c
  Names = {a, b, c}
  StartName = a
  TooLong = TooLong
  Reserved = Reserved
  Threads <- MCThreads
  Objects <- MCObjects
SPECIFICATION FairSpec
INVARIANTS
  NamesUnique
  IdentitiesUnique
  NodesOwned
  NodesAccountedFor
PROPERTIES
  FreedClean
  ListGuarded
  ImplementsDirectory
  NoDeadlock
