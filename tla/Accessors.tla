----------------------------- MODULE Accessors -----------------------------
(* o.attr("x") and o[k] (nb_accessor.h): a reference to a place in a Python object *)
(* that is read when it is needed.  An accessor keeps what it read and owns it; one *)
(* for an item of a list reads again every time (cache_dec_ref = FALSE, builds with *)
(* a GIL).  One place is modelled; values are numbers, and += adds one.             *)
EXTENDS Integers, FiniteSets

CONSTANTS Acc,
          Rereads,       \* the accessors without cache_dec_ref
          Reused,        \* the accessors that the program keeps for several uses
          MaxVal,        \* bound on the values
          MaxHeld,       \* bound: references the program holds to a value
          None

VARIABLES stored,        \* the value in the place
          want,          \* the value that assignments and += amount to (history)
          cache,         \* m_cache: None is a null pointer
          life,          \* of an accessor: "none", "fresh" or "used"
          user, refs     \* references the program holds to a value, and all of them

accVars == <<stored, want, cache, life, user, refs>>

Val == 0..MaxVal

Init == /\ stored = 0 /\ want = 0
        /\ cache = [a \in Acc |-> None] /\ life = [a \in Acc |-> "none"]
        /\ user = [v \in Val |-> 0] /\ refs = [v \in Val |-> IF v = 0 THEN 1 ELSE 0]

Make(a) == /\ life[a] = "none" /\ life' = [life EXCEPT ![a] = "fresh"]
           /\ UNCHANGED <<stored, want, cache, user, refs>>

Use(a) == /\ life[a] = "fresh" \/ (life[a] = "used" /\ a \in Reused)
          /\ life' = [life EXCEPT ![a] = "used"]

\* Mutant: list items are remembered too.
CachesAlways(a) == TRUE
Caches(a) == a \notin Rereads
\* ptr()
Hit(a) == Caches(a) /\ cache[a] # None
Ptr(a) == IF Hit(a) THEN cache[a] ELSE stored
\* The references after ptr(): those of an accessor that caches grow by its own.
Fetched(a) == IF Caches(a) /\ ~Hit(a) THEN [refs EXCEPT ![stored] = @ + 1] ELSE refs

\* T(a), for an accessor with a name.
Read(a) == LET v == Ptr(a) IN
           /\ Use(a) /\ user[v] < MaxHeld
           /\ cache' = [cache EXCEPT ![a] = v]
           /\ user' = [user EXCEPT ![v] = @ + 1]
           /\ refs' = [Fetched(a) EXCEPT ![v] = @ + 1]
           /\ UNCHANGED <<stored, want>>

\* Mutant: the reference is handed out and kept.
HandedOverKept(a) == Ptr(a)
HandedOver(a) == IF Caches(a) THEN None ELSE Ptr(a)

\* T(move(a)): the program gets the reference of the cache.
Take(a) == LET v == Ptr(a) IN
           /\ Use(a) /\ user[v] < MaxHeld
           /\ cache' = [cache EXCEPT ![a] = HandedOver(a)]
           /\ user' = [user EXCEPT ![v] = @ + 1]
           /\ refs' = IF Caches(a) THEN Fetched(a) ELSE [refs EXCEPT ![v] = @ + 1]
           /\ UNCHANGED <<stored, want>>

\* The place gives up its old value and holds v: the references r after that.
Placed(r, v) == [[r EXCEPT ![v] = @ + 1] EXCEPT ![stored] = @ - 1]

Assign(a, v) == /\ Use(a)
                /\ stored' = v /\ want' = v /\ refs' = Placed(refs, v)
                /\ UNCHANGED <<cache, user>>

\* a += 1
InPlace(a) == LET v == Ptr(a) + 1 IN
              /\ Use(a) /\ v \in Val /\ want < MaxVal
              /\ cache' = [cache EXCEPT ![a] = Ptr(a)]
              /\ stored' = v /\ want' = want + 1
              /\ refs' = Placed(Fetched(a), v)
              /\ UNCHANGED user

Drop(a) == /\ life[a] # "none"
           /\ life' = [life EXCEPT ![a] = "none"] /\ cache' = [cache EXCEPT ![a] = None]
           /\ refs' = IF Hit(a) THEN [refs EXCEPT ![cache[a]] = @ - 1] ELSE refs
           /\ UNCHANGED <<stored, want, user>>

Release(v) == /\ user[v] > 0
              /\ user' = [user EXCEPT ![v] = @ - 1] /\ refs' = [refs EXCEPT ![v] = @ - 1]
              /\ UNCHANGED <<stored, want, cache, life>>

Next == \/ \E a \in Acc : Make(a) \/ Read(a) \/ Take(a) \/ InPlace(a) \/ Drop(a)
        \/ \E a \in Acc, v \in Val : Assign(a, v)
        \/ \E v \in Val : Release(v)

Spec == Init /\ [][Next]_accVars

-----------------------------------------------------------------------------
\* A value has a reference for its place, one for every accessor that keeps it, and
\* those of the program (nb_accessor.h:35-66): += and reads neither leak nor take one.
AccessorRefsExact ==
    \A v \in Val : refs[v] = (IF stored = v THEN 1 ELSE 0) + user[v]
                             + Cardinality({a \in Acc : Hit(a) /\ cache[a] = v})

\* No += is lost: each adds to the value that the place has then, as long as an
\* accessor that caches is used once (nb_accessor.h:17-22, :56-66).
UpdatesKept == stored = want
=============================================================================
