SPECIFICATION Spec
CONSTANTS
  t = t  p = p
  o1 = o1  o2 = o2  o3 = o3  o4 = o4  o5 = o5
  NoParent = NoParent  Keep = Keep  Absent = Absent  None = None
  Lists = {}  Tasks = {t}  Steps = {}  DayPlans = {}
  Column = {"text"}  SlotColumn = {"text"}  Value = {1, 2}
  OpId = {o1, o2, o3}
  Content <- LogContent  Batches <- LogBatches  PageOrder <- TaskOrder
  Device = {1}  Conn = {1}  Reader = {}  Job = {1, 2}
  Cursor = {0}
  PageLimit = 2  PruneBatch = 1  Retention = 1  MaxClock = 2
INVARIANTS PruneIsPrefix
