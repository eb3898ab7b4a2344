SPECIFICATION FairSpec
CONSTANTS
  l = l  t = t  p = p  q = q
  o1 = o1  o2 = o2  o3 = o3  o4 = o4  o5 = o5
  NoParent = NoParent  Keep = Keep  Absent = Absent
  Lists = {}  Tasks = {t}  Steps = {}  DayPlans = {p, q}
  Column = {"title", "note"}  SlotColumn = {"note"}  Value = {1, 2, 3}
  OpId = {o1, o2, o3, o4, o5}
  Content <- PlanContent  Commands <- PlanCommands  IdOrder <- PlanIds
  Client = {1, 2}  Mirrored = {"title", "note"}
  Limit = 1  MaxDrops = 1  Expires = TRUE  Forgets = FALSE
INVARIANTS NoSilentLoss
PROPERTIES Converges
