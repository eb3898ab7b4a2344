SPECIFICATION FairSpec
CONSTANTS
  l = l  m = m  t = t  u = u  s = s  r = r  p = p  q = q  o = o
  NoParent = NoParent  Keep = Keep  Absent = Absent
  Lists = {}  Tasks = {t}  Steps = {s}  DayPlans = {p}
  Column = {"day", "rank"}  SlotColumn = {"day"}  Value = {1, 2, 3}
  OpId = {o}  Content <- NoContent
  Start <- TaskStart  Foreign <- TaskForeign
  Fresh = {}  Input = {2}  Rank = "rank"
  Limit = 2  MaxEdits = 2  MaxOthers = 1  MaxSignIns = 1  MaxFaults = 1  Expires = FALSE
PROPERTY Converges
CHECK_DEADLOCK FALSE
