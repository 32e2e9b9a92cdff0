\* nb::find() for the first field of a wrapped object.
CONSTANTS
  t1 = t1
  o1 = o1
  o2 = o2
  None = None
  Thread = {t1}
  Obj = {o1, o2}
  Heap = {}
  Type <- Types
  Field <- OuterInner
  Pooled = {}
  PoolCap = 1
  Policy = {"none"}
  FindField = TRUE
  Serial = TRUE
SPECIFICATION Spec
INVARIANTS NoneRefuses
CHECK_DEADLOCK FALSE
