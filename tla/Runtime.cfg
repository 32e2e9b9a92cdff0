\* The components of the runtime that have a state space of their own.
CONSTANTS
  Three = {a1, a2, a3}
  Two = {b1, b2}
  Pair = {c1, c2}
  Nil = nil
  Odd = odd
SPECIFICATION Spec
SYMMETRY Symmetry
INVARIANT TypeOK
INVARIANT RecordShared
INVARIANT CachesExact
INVARIANT ErrorsCarried
INVARIANT CallsDelivered
INVARIANT TypesFound
INVARIANT OwnedOnce
INVARIANT ArraysBacked
INVARIANT LayoutsRight
INVARIANT ValuesExact
INVARIANT ElementsRight
PROPERTY EndsForGood
CHECK_DEADLOCK FALSE
