\* Three threads call and monkey-patch a class and its subclass.
CONSTANTS
  o1 = o1
  t1 = t1
  t2 = t2
  t3 = t3
  Thread = {t1, t2, t3}
  Type = {"A", "B"}
  Object = {o1}
  Name = {"f"}
  InitMro <- Pair
  InitCls <- OnlyB
  MaxMods = 2
  AtomicLookup = TRUE
  Rebase = "never"
  Reassign = FALSE
  Collect = FALSE
SPECIFICATION Spec
INVARIANTS TypeOK NoStaleOverride DispatchRight
SYMMETRY Threads
CHECK_DEADLOCK FALSE
