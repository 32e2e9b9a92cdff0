\* Free-threaded build: two threads, three wrapper slots and one heap address;
\* instances of "outer" are pooled, one per thread.
CONSTANTS
  t1 = t1
  t2 = t2
  o1 = o1
  o2 = o2
  o3 = o3
  h1 = h1
  None = None
  Thread = {t1, t2}
  Obj = {o1, o2, o3}
  Heap = {h1}
  Type <- Types
  Field <- OuterInner
  Pooled = {"outer"}
  PoolCap = 1
  Policy = {"take_ownership", "reference", "reference_internal"}
  FindField = FALSE
  Serial = FALSE
SPECIFICATION Spec
INVARIANTS TypeOK NoDangling SoleOwner MapExact NoFailure PatientsAlive RefsAccounted PoolsSound
PROPERTIES NoResurrection
SYMMETRY Symmetry
CHECK_DEADLOCK FALSE
