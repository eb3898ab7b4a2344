SPECIFICATION Spec
CONSTANTS
  l = l  t = t  p = p  q = q
  o1 = o1  o2 = o2  o3 = o3  o4 = o4  o5 = o5
  NoParent = NoParent  Keep = Keep  Absent = Absent
  Lists = {l}  Tasks = {t}  Steps = {}  DayPlans = {}
  Column = {"title", "note"}  SlotColumn = {"note"}  Value = {1, 2, 3}
  OpId = {o1, o2, o3, o4, o5}
  Content <- ListContent  Commands <- ListCommands  IdOrder <- ListIds
  Client = {1, 2}  Mirrored = {"title", "note"}
  Limit = 9  MaxDrops = 0  Expires = FALSE  Forgets = FALSE
INVARIANTS NoOrphans
