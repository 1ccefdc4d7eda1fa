CONSTANTS
  main = main  t1 = t1  t2 = t2  k = k  l = l  x = x  y = y  n = n
  Threads <- MCThreads
  MainThread = main
  Keys = {k, l}
  Strings = {x, y}
  Numbers = {n}
  Nil = Nil
  Nobody = Nobody
SPECIFICATION EnvSpec
SYMMETRY Symmetry
CHECK_DEADLOCK FALSE
INVARIANTS
  StackPrivate
  UsedStringsAnchored
