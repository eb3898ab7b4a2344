SPECIFICATION Spec
CONSTANTS
  l = l  m = m  t = t  u = u  s = s  r = r  p = p  q = q  o = o
  NoParent = NoParent  Keep = Keep  Absent = Absent
  Lists = {}  Tasks = {t}  Steps = {}  DayPlans = {p, q}
  Column = {"day", "rank"}  SlotColumn = {"day"}  Value = {1}
  OpId = {o}  Content <- NoContent
  Start <- TaskStart  Foreign <- SlotForeign
  Fresh = {p}  Input = {1}  Rank = "rank"
  Limit = 2  MaxEdits = 1  MaxOthers = 1  MaxSignIns = 1  MaxFaults = 0  Expires = FALSE
INVARIANT RejectionNeverJams
CHECK_DEADLOCK FALSE
