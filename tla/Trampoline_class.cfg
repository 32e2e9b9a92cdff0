\* The object changes class during calls; no symmetry,
\* since liveness is checked.
CONSTANTS
  o1 = o1
  t1 = t1
  t2 = t2
  Thread = {t1, t2}
  Type = {"A", "B"}
  Object = {o1}
  Name = {"f"}
  InitMro <- Pair
  InitCls <- OnlyB
  MaxMods = 2
  AtomicLookup = TRUE
  Rebase = "never"
  Reassign = TRUE
  Collect = FALSE
SPECIFICATION FairSpec
INVARIANTS DispatchRight
PROPERTIES CallsReturn WalksEnd
CHECK_DEADLOCK FALSE
