\* Three threads, one ref<T> and one Python reference each; one of them has a
\* second ref<T>.  Exposures to Python are serial, as under the GIL.
CONSTANTS
  t1 = t1
  t2 = t2
  t3 = t3
  w1 = w1
  None = None
  Thread = {t1, t2, t3}
  Wrapper = {w1}
  NRefs = 2
  Busy = t1
  Ref <- MCRef
  Handle <- MCHandle
  Holder <- MCHolder
  SerialPut = TRUE
SPECIFICATION FairSpec
INVARIANTS TypeOK Conservation NoAbort DeletedAlone IInv
PROPERTIES HandOverOnce Implements
CHECK_DEADLOCK FALSE
