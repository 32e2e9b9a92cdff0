\* GIL build: calls do not overlap.  All policies, nb::find() for whole objects;
\* no symmetry, since liveness is checked.
CONSTANTS
  t1 = t1
  o1 = o1
  o2 = o2
  o3 = o3
  h1 = h1
  None = None
  Thread = {t1}
  Obj = {o1, o2, o3}
  Heap = {h1}
  Type <- Types
  Field <- OuterInner
  Pooled = {"outer"}
  PoolCap = 1
  Policy = {"take_ownership", "reference", "reference_internal", "none"}
  FindField = FALSE
  Serial = TRUE
SPECIFICATION FairSpec
INVARIANTS OneWrapper NoneRefuses
PROPERTIES Released
CHECK_DEADLOCK FALSE
