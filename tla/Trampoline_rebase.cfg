\* Classes are rebased to any class.
CONSTANTS
  o1 = o1
  t1 = t1
  t2 = t2
  Thread = {t1, t2}
  Type = {"A", "B", "C"}
  Object = {o1}
  Name = {"f"}
  InitMro <- Fork
  InitCls <- OnlyC
  MaxMods = 2
  AtomicLookup = TRUE
  Rebase = "any"
  Reassign = FALSE
  Collect = FALSE
SPECIFICATION Spec
INVARIANTS NoStaleOverride
SYMMETRY Threads
CHECK_DEADLOCK FALSE
