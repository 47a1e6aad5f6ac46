CONSTANTS
  Nodes = {n1, n2, n3}
  Producers = {p1, p2}
  Consumers = {c1, c2}
  Null = Null
  Nothing = Nothing
  Empty = Empty
  PopsSerialized = FALSE
  MayClear = FALSE
SPECIFICATION Spec
INVARIANT NeverFollowsNull
