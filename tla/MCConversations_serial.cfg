SPECIFICATION Spec
CONSTANTS
  c1 = c1
  u1 = u1
  u2 = u2
  a = a
  i1 = i1
  i2 = i2
  Conversations = {c1}
  Turns = {u1, u2}
  Images = {a}
  Statuses = {"loading", "success"}
  Instances = {i1, i2}
  Overlap = FALSE
  Unreadable = FALSE
SYMMETRY Symmetric
PROPERTIES
  TurnsKept
  DeletedStays
  ImplementsHistory
