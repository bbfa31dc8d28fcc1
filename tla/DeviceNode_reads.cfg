SPECIFICATION Spec
CONSTANTS
  p1 = p1
  p2 = p2
  s1 = s1
  h1 = h1
  Publisher = {p1, p2}
  Subscriber = {s1, h1}
  Handle = {h1}
  MaxQueue = 2
  GenMod = 16
  FreeTries = 1
  TryEvery = 2
  MaxPub = 4
  MaxTries = 3
INVARIANTS UpdatedIsExact
PROPERTIES DeliversInOrder DeliversRecent
