\* The class of an object is reassigned and the old one collected during a call.
CONSTANTS
  o1 = o1
  t1 = t1
  t2 = t2
  Thread = {t1, t2}
  Type = {"A", "B", "C"}
  Object = {o1}
  Name = {"f"}
  InitMro <- Chain
  InitCls <- OnlyC
  MaxMods = 0
  AtomicLookup = TRUE
  Rebase = "never"
  Reassign = TRUE
  Collect = TRUE
SPECIFICATION Spec
INVARIANTS ReaderHoldsType
SYMMETRY Threads
CHECK_DEADLOCK FALSE
