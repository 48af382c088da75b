SPECIFICATION Spec
CONSTANTS
  c1 = c1
  c2 = c2
  u1 = u1
  i1 = i1
  i2 = i2
  Conversations = {c1, c2}
  Turns = {u1}
  Images = {}
  Statuses = {"success"}
  Instances = {i1, i2}
  Overlap = TRUE
  Unreadable = TRUE
SYMMETRY Symmetric
INVARIANTS
  TypeOK
PROPERTIES
  OthersKept
