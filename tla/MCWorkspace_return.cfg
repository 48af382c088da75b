SPECIFICATION FairSpec
CONSTANTS
  p1 = p1 p2 = p2 tabA = tabA tabB = tabB t1 = t1 t2 = t2
  i1 = i1 i2 = i2 j1 = j1 r1 = r1 r2 = r2
  Pages = {p1, p2}
  Tabs = {tabA}
  TabOf <- OneTab
  Turns = {t1}
  Images = {i1}
  TurnOf <- TurnOfImage
  First = {i1}
  Runners = {r1, r2}
  MaxErrors = 1
  Leavers = {p1}
  MaxLapses = 0
  MaxFaults = 0
PROPERTIES PageSettles
CHECK_DEADLOCK FALSE
