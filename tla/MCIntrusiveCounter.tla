------------------------- MODULE MCIntrusiveCounter -------------------------
(* IntrusiveCounter with every Ref and Handle written <<thread, kind, n>>.  *)
EXTENDS IntrusiveCounter

CONSTANTS
  Busy,        \* the thread that may hold NRefs references at a time
  NRefs

\* One ref<T> and one Python reference per thread, and NRefs for Busy.
MCRef == {<<t, "ref", 1>> : t \in Thread} \cup {<<Busy, "ref", i>> : i \in 1..NRefs}
MCHandle == {<<t, "py", 1>> : t \in Thread}
MCHolder == [x \in MCRef \cup MCHandle |-> x[1]]
=============================================================================
