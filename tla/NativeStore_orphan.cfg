SPECIFICATION Spec
CONSTANTS
  l = l  m = m  t = t  u = u  s = s  r = r  p = p  q = q  o = o
  NoParent = NoParent  Keep = Keep  Absent = Absent
  Lists = {m}  Tasks = {u}  Steps = {}  DayPlans = {}
  Column = {"rank"}  SlotColumn = {}  Value = {1}
  OpId = {o}  Content <- NoContent
  Start <- NoStart  Foreign = {}
  Fresh = {m, u}  Input = {1}  Rank = "rank"
  Limit = 2  MaxEdits = 5  MaxOthers = 0  MaxSignIns = 1  MaxFaults = 0  Expires = FALSE
INVARIANT MergeFits
CHECK_DEADLOCK FALSE
