\* Classes appear, are rebased to marked classes, and are collected; the lookup
\* of limited-API builds reads one namespace at a time.
CONSTANTS
  o1 = o1
  t1 = t1
  t2 = t2
  Thread = {t1, t2}
  Type = {"A", "B", "C"}
  Object = {o1}
  Name = {"f"}
  InitMro <- Chain
  InitCls <- OnlyC
  MaxMods = 3
  AtomicLookup = FALSE
  Rebase = "marked"
  Reassign = FALSE
  Collect = TRUE
SPECIFICATION Spec
INVARIANTS NoStaleOverride MarksClosed IInv
SYMMETRY Threads
CHECK_DEADLOCK FALSE
