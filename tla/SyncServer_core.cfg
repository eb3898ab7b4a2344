SPECIFICATION Spec
CONSTANTS
  t = t  p = p
  o1 = o1  o2 = o2  o3 = o3  o4 = o4  o5 = o5
  NoParent = NoParent  Keep = Keep  Absent = Absent  None = None
  Lists = {}  Tasks = {t}  Steps = {}  DayPlans = {}
  Column = {"text"}  SlotColumn = {"text"}  Value = {1, 2}
  OpId = {o1, o2, o3, o4}
  Content <- TaskContent  Batches <- TaskBatches  PageOrder <- TaskOrder
  Device = {1, 2}  Conn = {1, 2}  Reader = {}  Job = {}
  Cursor = {0, 1, 2, 3, 4, 5}
  PageLimit = 2  PruneBatch = 1  Retention = 0  MaxClock = 0
INVARIANTS WatermarkCovers ServerSeqDense DeviceOrder AnswersHaveNoGap LogRebuildsRows
PROPERTIES TombstonesHold RevocationIsFinal ImplementsLedger
