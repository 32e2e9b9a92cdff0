\* Free-threaded build: two threads expose the same object at the same time.
CONSTANTS
  t1 = t1
  t2 = t2
  w1 = w1
  w2 = w2
  None = None
  Thread = {t1, t2}
  Wrapper = {w1, w2}
  NRefs = 1
  Busy = t1
  Ref <- MCRef
  Handle <- MCHandle
  Holder <- MCHolder
  SerialPut = FALSE
SPECIFICATION Spec
INVARIANTS HarmlessDuplication
CHECK_DEADLOCK FALSE
