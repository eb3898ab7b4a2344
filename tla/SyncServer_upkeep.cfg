SPECIFICATION FairSpec
CONSTANTS
  t = t  p = p
  o1 = o1  o2 = o2  o3 = o3  o4 = o4  o5 = o5
  NoParent = NoParent  Keep = Keep  Absent = Absent  None = None
  Lists = {}  Tasks = {t}  Steps = {}  DayPlans = {p}
  Column = {"text"}  SlotColumn = {"text"}  Value = {1, 2}
  OpId = {o1, o2, o3, o4, o5}
  Content <- PairContent  Batches <- PairBatches  PageOrder <- PairOrder
  Device = {1}  Conn = {1, 2}  Reader = {1}  Job = {1}
  Cursor = {0}
  PageLimit = 2  PruneBatch = 1  Retention = 0  MaxClock = 1
INVARIANTS BootstrapConverges AppliedOnce ReceiptsAreTrue PruneIsPrefix
PROPERTIES RequestsSettle

