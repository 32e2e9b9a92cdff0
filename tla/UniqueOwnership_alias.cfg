\* Functions may return references to objects that unique pointers own.
CONSTANTS
  Heap = {h1, h2}
  Inst = {w1, w2, w3}
  Slot = {p1, p2, p3}
  Nil = nil
  Alias = TRUE
SPECIFICATION Spec
INVARIANT ReturnWorks
CHECK_DEADLOCK FALSE
