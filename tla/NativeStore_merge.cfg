SPECIFICATION Spec
CONSTANTS
  l = l  m = m  t = t  u = u  s = s  r = r  p = p  q = q  o = o
  NoParent = NoParent  Keep = Keep  Absent = Absent
  Lists = {l, m}  Tasks = {t, u}  Steps = {s}  DayPlans = {p, q}
  Column = {"day", "rank"}  SlotColumn = {"day"}  Value = {1, 2, 3}
  OpId = {o}  Content <- NoContent
  Start <- HomeStart  Foreign <- HomeForeign
  Fresh = {m, u, s, q}  Input = {2}  Rank = "rank"
  Limit = 2  MaxEdits = 2  MaxOthers = 1  MaxSignIns = 1  MaxFaults = 1  Expires = TRUE
INVARIANTS NumbersHold TablesAreProjection
CHECK_DEADLOCK FALSE
