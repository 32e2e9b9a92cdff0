-------------------------- MODULE IntrusiveCounter --------------------------
(***************************************************************************)
(* nanobind::intrusive_counter (include/nanobind/intrusive/counter.inl)    *)
(* and the places of the binding layer that drive it: the ref<T> smart     *)
(* pointer and its caster (intrusive/ref.h) and the intrusive path of      *)
(* nb_type_put (src/nb_type.cpp).                                          *)
(*                                                                         *)
(* One C++ object is shared by several threads.  Its m_state word holds    *)
(* either a number of C++ references (odd: 2 * count + 1) or a pointer to  *)
(* the Python wrapper that took over the counting (even).  The model keeps *)
(* the decoded value: a natural number, or a wrapper.  Every atomic access *)
(* to m_state, and every Py_INCREF/Py_DECREF, is a step of its own.        *)
(*                                                                         *)
(* References are tokens: a Ref is a ref<T> variable, a Handle a strong    *)
(* Python reference; each lives in the thread Holder gives.  A thread that *)
(* can use the object may create a reference in any thread (it copies its  *)
(* own and hands the copy over); only the holder drops one.                *)
(***************************************************************************)
EXTENDS Naturals, FiniteSets

CONSTANTS
  Thread,       \* threads
  Ref,          \* ref<T> variables (bounds the C++ references)
  Handle,       \* strong Python references to a wrapper (bounds those)
  Wrapper,      \* PyObjects that nb_type_put may create for the object
  Holder,       \* the thread a Ref or a Handle lives in
  None,
  SerialPut     \* TRUE: nb_type_put runs as one critical section (GIL builds)

ASSUME CounterAssumption ==
  /\ IsFiniteSet(Ref) /\ IsFiniteSet(Handle)
  /\ Ref \cap Handle = {}
  /\ Holder \in [Ref \cup Handle -> Thread]
  /\ Wrapper \cap Nat = {}
  /\ None \notin Ref \cup Handle \cup Wrapper \cup Thread \cup Nat
  /\ SerialPut \in BOOLEAN

VARIABLES
  m_state,      \* the counter word: a count of C++ references, or a wrapper
  ob_refcnt,    \* Python reference count of every wrapper
  registered,   \* the wrappers inst_c2p knows for this object
  alive,        \* the C++ object has not been deleted
  ref,          \* the ref<T> variables that hold a counted reference
  hd,           \* the wrapper a Handle refers to, or None
  raw,          \* thread with the pointer fresh from operator new, or None
  putter,       \* thread inside nb_type_put's critical section (SerialPut)
  pc,           \* what each thread is doing
  arg,          \* the Ref or Handle its operation creates or drops
  v,            \* its last load of m_state
  transferred   \* references set_self_py has moved so far

vars == <<m_state, ob_refcnt, registered, alive, ref, hd, raw, putter,
          pc, arg, v, transferred>>

Word == Nat \cup Wrapper

Init ==
  /\ m_state = 0
  /\ ob_refcnt = [w \in Wrapper |-> 0]
  /\ registered = {}
  /\ alive = TRUE
  /\ ref = {}
  /\ hd = [h \in Handle |-> None]
  /\ raw \in Thread
  /\ putter = None
  /\ pc = [t \in Thread |-> "idle"]
  /\ arg = [t \in Thread |-> None]
  /\ v = [t \in Thread |-> 0]
  /\ transferred = [t \in Thread |-> 0]

-----------------------------------------------------------------------------
(* Who may touch the object: the creator, and whoever holds a reference.   *)
CanUse(t) ==
  \/ raw = t
  \/ \E r \in ref : Holder[r] = t
  \/ \E h \in Handle : hd[h] # None /\ Holder[h] = t

Unreserved(x) == \A t \in Thread : arg[t] # x

\* The operation of t is over and its local variables are gone; t deletes the
\* object next if last holds.
ReturnThen(t, last) ==
  /\ pc' = [pc EXCEPT ![t] = IF last THEN "delete" ELSE "idle"]
  /\ arg' = [arg EXCEPT ![t] = None]
  /\ v' = [v EXCEPT ![t] = 0]
  /\ transferred' = [transferred EXCEPT ![t] = 0]

Return(t) == ReturnThen(t, FALSE)

Goto(t, l) == pc' = [pc EXCEPT ![t] = l] /\ UNCHANGED arg

\* t loads m_state and starts an operation on x.
Start(t, l, x) ==
  /\ pc[t] = "idle"
  /\ pc' = [pc EXCEPT ![t] = l]
  /\ arg' = [arg EXCEPT ![t] = x]
  /\ v' = [v EXCEPT ![t] = m_state]

-----------------------------------------------------------------------------
(* inc_ref(), called by the constructors of ref<T>.                        *)

IncLoad(t, r) ==
  /\ CanUse(t) /\ r \notin ref /\ Unreserved(r)
  /\ Start(t, "inc", r)
  /\ UNCHANGED <<m_state, ob_refcnt, registered, alive, ref, hd, raw, putter,
                 transferred>>

\* The new reference counts; it replaces the creator's uncounted pointer.
Counted(t) ==
  /\ ref' = ref \cup {arg[t]}
  /\ raw' = IF raw = t THEN None ELSE raw
  /\ Return(t)
  /\ UNCHANGED <<registered, alive, hd, putter>>

\* Mutant: stores v + 1 without comparing m_state.
IncStore(t) ==
  /\ pc[t] = "inc" /\ v[t] \notin Wrapper
  /\ m_state' = v[t] + 1
  /\ Counted(t)
  /\ UNCHANGED ob_refcnt

IncCas(t) ==
  /\ pc[t] = "inc" /\ v[t] \notin Wrapper /\ m_state = v[t]
  /\ m_state' = v[t] + 1
  /\ Counted(t)
  /\ UNCHANGED ob_refcnt

IncPy(t) ==
  /\ pc[t] = "inc" /\ v[t] \in Wrapper
  /\ ob_refcnt' = [ob_refcnt EXCEPT ![v[t]] = @ + 1]
  /\ Counted(t)
  /\ UNCHANGED m_state

-----------------------------------------------------------------------------
(* dec_ref(), called by the destructor of ref<T>.  A thread that loaded    *)
(* v = 0 is at the underflow check, which aborts: it has no further step.  *)
(* "delete" is the caller's delete expression.                             *)

DecLoad(t, r) ==
  /\ r \in ref /\ Holder[r] = t
  /\ Start(t, "dec", r)
  /\ UNCHANGED <<m_state, ob_refcnt, registered, alive, ref, hd, raw, putter,
                 transferred>>

\* Mutant: stores v - 1 without comparing m_state.
DecStore(t) ==
  /\ pc[t] = "dec" /\ v[t] \notin Wrapper /\ v[t] # 0
  /\ m_state' = v[t] - 1
  /\ ref' = ref \ {arg[t]}
  /\ ReturnThen(t, v[t] = 1)
  /\ UNCHANGED <<ob_refcnt, registered, alive, hd, raw, putter>>

\* Mutant: reports the last reference one early (v taken for the new count).
DecEarly(t) ==
  /\ pc[t] = "dec" /\ v[t] \notin Wrapper /\ v[t] # 0 /\ m_state = v[t]
  /\ m_state' = v[t] - 1
  /\ ref' = ref \ {arg[t]}
  /\ ReturnThen(t, v[t] <= 2)
  /\ UNCHANGED <<ob_refcnt, registered, alive, hd, raw, putter>>

DecCas(t) ==
  /\ pc[t] = "dec" /\ v[t] \notin Wrapper /\ v[t] # 0 /\ m_state = v[t]
  /\ m_state' = v[t] - 1
  /\ ref' = ref \ {arg[t]}
  /\ ReturnThen(t, v[t] = 1)
  /\ UNCHANGED <<ob_refcnt, registered, alive, hd, raw, putter>>

\* Mutant: dec_ref() on an object in Python's hands never ends its life.
DecPyKeep(t) ==
  /\ pc[t] = "dec" /\ v[t] \in Wrapper
  /\ ob_refcnt' = [ob_refcnt EXCEPT ![v[t]] = @ - 1]
  /\ ref' = ref \ {arg[t]}
  /\ Return(t)
  /\ UNCHANGED <<m_state, registered, alive, hd, raw, putter>>

DecPy(t) ==
  /\ pc[t] = "dec" /\ v[t] \in Wrapper
  /\ ob_refcnt' = [ob_refcnt EXCEPT ![v[t]] = @ - 1]
  /\ ref' = ref \ {arg[t]}
  /\ ReturnThen(t, ob_refcnt[v[t]] = 1)
  /\ UNCHANGED <<m_state, registered, alive, hd, raw, putter>>

\* A compare-exchange that fails (m_state changed; the weak form may also
\* fail spuriously, which leaves the state as it is) reloads v.
CasFail(t) ==
  /\ pc[t] \in {"inc", "dec"} /\ v[t] \notin Wrapper /\ m_state # v[t]
  /\ v' = [v EXCEPT ![t] = m_state]
  /\ UNCHANGED <<m_state, ob_refcnt, registered, alive, ref, hd, raw, putter,
                 pc, arg, transferred>>

\* delete o, or inst_dealloc of the wrapper: destructor, deallocation and
\* removal from inst_c2p.
Delete(t) ==
  /\ pc[t] = "delete"
  /\ alive' = FALSE
  /\ registered' = {}
  /\ Return(t)
  /\ UNCHANGED <<m_state, ob_refcnt, ref, hd, raw, putter>>

-----------------------------------------------------------------------------
(* Python code copies and drops references to the wrapper.                 *)

PyIncref(t, g, h) ==
  /\ pc[t] = "idle"
  /\ hd[g] # None /\ Holder[g] = t
  /\ hd[h] = None /\ Unreserved(h)
  /\ hd' = [hd EXCEPT ![h] = hd[g]]
  /\ ob_refcnt' = [ob_refcnt EXCEPT ![hd[g]] = @ + 1]
  /\ UNCHANGED <<m_state, registered, alive, ref, raw, putter, pc, arg, v,
                 transferred>>

PyDecref(t, h) ==
  /\ pc[t] = "idle"
  /\ hd[h] # None /\ Holder[h] = t
  /\ hd' = [hd EXCEPT ![h] = None]
  /\ ob_refcnt' = [ob_refcnt EXCEPT ![hd[h]] = @ - 1]
  /\ ReturnThen(t, ob_refcnt[hd[h]] = 1)
  /\ UNCHANGED <<m_state, registered, alive, ref, raw, putter>>

-----------------------------------------------------------------------------
(* The object is returned to Python.  The caster of ref<T> first asks      *)
(* self_py() and falls back to nb_type_put; the caster of a plain pointer  *)
(* starts there.  nb_type_put searches inst_c2p, creates a wrapper, calls  *)
(* set_self_py and registers the wrapper.                                  *)

Put(t, h, caster) ==
  /\ CanUse(t) /\ hd[h] = None /\ Unreserved(h) /\ Holder[h] = t
  /\ SerialPut => putter = None
  /\ putter' = IF SerialPut THEN t ELSE putter
  /\ Start(t, caster, h)
  /\ UNCHANGED <<m_state, ob_refcnt, registered, alive, ref, hd, raw,
                 transferred>>

\* handle(obj).inc_ref(), or nb_try_inc_ref under the shard lock.
PutFound(t, w) ==
  /\ hd' = [hd EXCEPT ![arg[t]] = w]
  /\ ob_refcnt' = [ob_refcnt EXCEPT ![w] = @ + 1]
  /\ putter' = IF putter = t THEN None ELSE putter
  /\ Return(t)
  /\ UNCHANGED <<m_state, registered, alive, ref, raw>>

SelfPy(t) ==
  /\ pc[t] = "self_py" /\ v[t] \in Wrapper
  /\ PutFound(t, v[t])

NoSelfPy(t) ==
  /\ pc[t] = "self_py" /\ v[t] \notin Wrapper
  /\ Goto(t, "lookup")
  /\ UNCHANGED <<m_state, ob_refcnt, registered, alive, ref, hd, raw, putter,
                 v, transferred>>

Lookup(t, w) ==
  /\ pc[t] = "lookup" /\ w \in registered /\ ob_refcnt[w] > 0
  /\ PutFound(t, w)

\* Mutant: a wrapper is made although inst_c2p has one.
MissAlways(t) ==
  /\ pc[t] = "lookup"
  /\ Goto(t, "new")
  /\ UNCHANGED <<m_state, ob_refcnt, registered, alive, ref, hd, raw, putter,
                 v, transferred>>

LookupMiss(t) ==
  /\ pc[t] = "lookup" /\ \A w \in registered : ob_refcnt[w] = 0
  /\ Goto(t, "new")
  /\ UNCHANGED <<m_state, ob_refcnt, registered, alive, ref, hd, raw, putter,
                 v, transferred>>

\* inst_new_ext: a fresh wrapper with one reference, the result's.
NewWrapper(t, w) ==
  /\ pc[t] = "new"
  /\ ob_refcnt[w] = 0 /\ m_state # w
  /\ ob_refcnt' = [ob_refcnt EXCEPT ![w] = 1]
  /\ hd' = [hd EXCEPT ![arg[t]] = w]
  /\ Goto(t, "set")
  /\ UNCHANGED <<m_state, registered, alive, ref, raw, putter, v, transferred>>

-----------------------------------------------------------------------------
(* set_self_py(): the wrapper being installed is hd[arg[t]].               *)

SetLoad(t) ==
  /\ pc[t] = "set"
  /\ v' = [v EXCEPT ![t] = m_state]
  /\ transferred' = [transferred EXCEPT ![t] = 0]
  /\ Goto(t, IF m_state \in Wrapper THEN "abort" ELSE "transfer")
  /\ UNCHANGED <<m_state, ob_refcnt, registered, alive, ref, hd, raw, putter>>

SetInc(t) ==
  /\ pc[t] = "transfer" /\ transferred[t] < v[t]
  /\ ob_refcnt' = [ob_refcnt EXCEPT ![hd[arg[t]]] = @ + 1]
  /\ transferred' = [transferred EXCEPT ![t] = @ + 1]
  /\ UNCHANGED <<m_state, registered, alive, ref, hd, raw, putter, pc, arg, v>>

\* Mutant: installs the wrapper with a plain store.
SetStore(t) ==
  /\ pc[t] = "transfer" /\ transferred[t] >= v[t]
  /\ m_state' = hd[arg[t]]
  /\ raw' = IF raw = t THEN None ELSE raw
  /\ Goto(t, "settle")
  /\ UNCHANGED <<ob_refcnt, registered, alive, ref, hd, putter, v, transferred>>

SetCas(t) ==
  /\ pc[t] = "transfer" /\ transferred[t] >= v[t] /\ m_state = v[t]
  /\ m_state' = hd[arg[t]]
  /\ raw' = IF raw = t THEN None ELSE raw
  /\ Goto(t, "settle")
  /\ UNCHANGED <<ob_refcnt, registered, alive, ref, hd, putter, v, transferred>>

\* The loop does not look at the low bit of the reloaded word: should another
\* wrapper be there, its address is taken for a count and that many
\* references are added ("corrupt").
SetCasFail(t) ==
  /\ pc[t] = "transfer" /\ transferred[t] >= v[t] /\ m_state # v[t]
  /\ v' = [v EXCEPT ![t] = m_state]
  /\ Goto(t, IF m_state \in Wrapper THEN "corrupt" ELSE "transfer")
  /\ UNCHANGED <<m_state, ob_refcnt, registered, alive, ref, hd, raw, putter,
                 transferred>>

SetDec(t) ==
  /\ pc[t] = "settle" /\ transferred[t] > v[t]
  /\ ob_refcnt' = [ob_refcnt EXCEPT ![hd[arg[t]]] = @ - 1]
  /\ transferred' = [transferred EXCEPT ![t] = @ - 1]
  /\ UNCHANGED <<m_state, registered, alive, ref, hd, raw, putter, pc, arg, v>>

\* Mutant: set_self_py returns with references moved in excess.
RegisterExcess(t) ==
  /\ pc[t] = "settle"
  /\ registered' = registered \cup {hd[arg[t]]}
  /\ putter' = IF putter = t THEN None ELSE putter
  /\ Return(t)
  /\ UNCHANGED <<m_state, ob_refcnt, alive, ref, hd, raw>>

\* inst_register, after set_self_py returned.
Register(t) ==
  /\ pc[t] = "settle" /\ transferred[t] = v[t]
  /\ registered' = registered \cup {hd[arg[t]]}
  /\ putter' = IF putter = t THEN None ELSE putter
  /\ Return(t)
  /\ UNCHANGED <<m_state, ob_refcnt, alive, ref, hd, raw>>

-----------------------------------------------------------------------------
Step(t) ==
  \/ IncCas(t) \/ IncPy(t)
  \/ DecCas(t) \/ DecPy(t)
  \/ CasFail(t) \/ Delete(t)
  \/ SelfPy(t) \/ NoSelfPy(t) \/ LookupMiss(t)
  \/ \E w \in Wrapper : Lookup(t, w) \/ NewWrapper(t, w)
  \/ SetLoad(t) \/ SetInc(t) \/ SetCas(t) \/ SetCasFail(t) \/ SetDec(t)
  \/ Register(t)

Call(t) ==
  \/ \E r \in Ref : IncLoad(t, r) \/ DecLoad(t, r)
  \/ \E h \in Handle :
       \/ Put(t, h, "self_py") \/ Put(t, h, "lookup") \/ PyDecref(t, h)
       \/ \E g \in Handle : PyIncref(t, g, h)

Next == \E t \in Thread : Step(t) \/ Call(t)

Spec == Init /\ [][Next]_vars
FairSpec == Spec /\ \A t \in Thread : WF_vars(Step(t))
-----------------------------------------------------------------------------
(* Properties.                                                             *)

Phases == {"idle", "inc", "dec", "delete", "self_py", "lookup", "new", "set",
           "transfer", "settle", "abort", "corrupt"}

TypeOK ==
  /\ m_state \in Word
  /\ ob_refcnt \in [Wrapper -> Nat]
  /\ registered \in SUBSET Wrapper
  /\ alive \in BOOLEAN
  /\ ref \in SUBSET Ref
  /\ hd \in [Handle -> Wrapper \cup {None}]
  /\ raw \in Thread \cup {None}
  /\ putter \in Thread \cup {None}
  /\ pc \in [Thread -> Phases]
  /\ arg \in [Thread -> Ref \cup Handle \cup {None}]
  /\ v \in [Thread -> Word]
  /\ transferred \in [Thread -> Nat]

LiveHandles == {h \in Handle : hd[h] # None}

\* No reference is lost or invented, whatever increments and decrements the
\* hand-over in set_self_py() races with: before it m_state counts the C++
\* references; after it the wrapper counts C++ and Python references alike,
\* and the ones moved in excess are given back.
Conservation ==
  /\ m_state \in Nat => m_state = Cardinality(ref)
  /\ \A t \in Thread : pc[t] = "transfer" =>
       ob_refcnt[hd[arg[t]]] = 1 + transferred[t]
  /\ \A t \in Thread : pc[t] = "settle" =>
       /\ m_state = hd[arg[t]]
       /\ ob_refcnt[m_state] + v[t] =
            Cardinality(ref) + Cardinality(LiveHandles) + transferred[t]
  /\ m_state \in Wrapper /\ (\A t \in Thread : pc[t] # "settle") =>
       ob_refcnt[m_state] = Cardinality(ref) + Cardinality(LiveHandles)

\* Neither fatal check of counter.inl fires: dec_ref() never underflows and
\* set_self_py() never finds a wrapper in place, in the first load or later.
NoAbort ==
  \A t \in Thread :
    /\ pc[t] \notin {"abort", "corrupt"}
    /\ pc[t] = "dec" => v[t] # 0

\* docs/free_threaded.rst says of several wrappers made for one C++ instance by
\* threads that return it at the same time: "this is harmless aside from the
\* duplication".  Two threads inside set_self_py() must then both get through.
HarmlessDuplication ==
  \A t \in Thread : pc[t] \notin {"abort", "corrupt"}

\* The thread that deletes the object is alone with it, and nobody is inside
\* an operation on the object, or holds a reference to it, afterwards.
DeletedAlone ==
  /\ \A t \in Thread : pc[t] = "delete" =>
       /\ alive
       /\ \A u \in Thread : ~CanUse(u) /\ (u # t => pc[u] = "idle")
  /\ ~alive => \A t \in Thread : pc[t] = "idle" /\ ~CanUse(t)

\* Once a wrapper counts for the object it does so for good: the hand-over
\* to Python is one-way and happens once.
HandOverOnce ==
  [][(m_state \in Wrapper) => (m_state' = m_state)]_vars

-----------------------------------------------------------------------------
(* The inductive strengthening of NoAbort, Conservation and DeletedAlone   *)
(* for serial exposure (SerialPut).                                        *)

Exposing == {"self_py", "lookup", "new", "set", "transfer", "settle"}
Installing == {"set", "transfer"}

\* The token of each operation, and the single thread that exposes the object.
Tokens ==
  /\ \A t, u \in Thread : t # u /\ arg[t] # None => arg[t] # arg[u]
  /\ \A t \in Thread :
       /\ pc[t] \in {"idle", "delete"} => arg[t] = None
       /\ pc[t] = "inc" => arg[t] \in Ref \ ref
       /\ pc[t] = "dec" => arg[t] \in ref /\ Holder[arg[t]] = t
       /\ pc[t] \in Exposing => arg[t] \in Handle /\ Holder[arg[t]] = t
       /\ pc[t] \in {"self_py", "lookup", "new"} => hd[arg[t]] = None
       /\ pc[t] \in Installing \cup {"settle"} => hd[arg[t]] \in Wrapper
       /\ pc[t] \in Exposing <=> putter = t

\* What a thread loaded earlier still tells about m_state, and which wrapper
\* handles and inst_c2p refer to.
Views ==
  /\ \A t \in Thread :
       /\ pc[t] \in {"inc", "dec", "self_py"} /\ v[t] \in Wrapper => m_state = v[t]
       /\ pc[t] \in {"new"} \cup Installing => m_state \in Nat
       /\ pc[t] \in {"transfer", "settle"} => v[t] \in Nat
       /\ pc[t] = "set" => ob_refcnt[hd[arg[t]]] = 1
       /\ pc[t] = "settle" => transferred[t] >= v[t]
  /\ \A h \in LiveHandles :
       \/ hd[h] = m_state
       \/ pc[Holder[h]] \in Installing /\ h = arg[Holder[h]]
  /\ \/ registered = {m_state}
     \/ registered = {} /\ \/ m_state \in Nat \/ ~alive
                           \/ \E t \in Thread : pc[t] = "settle"

\* Whoever operates on the object has a claim on it; one that installs a
\* wrapper has a claim other than the wrapper.
Claims ==
  /\ \A t \in Thread :
       /\ pc[t] \notin {"idle", "delete"} => CanUse(t)
       /\ pc[t] \in Installing => raw = t \/ \E r \in ref : Holder[r] = t
  /\ raw # None =>
       /\ alive /\ ref = {} /\ m_state \in Nat
       /\ \A u \in Thread \ {raw} : pc[u] = "idle"
       /\ \A h \in LiveHandles : Holder[h] = raw

IInv ==
  TypeOK /\ Conservation /\ NoAbort /\ DeletedAlone /\ Tokens /\ Views /\ Claims

-----------------------------------------------------------------------------
\* Who owns the object: the creator's pointer until something counts, every
\* ref<T>, and every Python reference to the wrapper in charge.
Owners ==
  {<<"ref", r>> : r \in ref}
    \cup {<<"py", h>> : h \in {g \in Handle : hd[g] # None /\ hd[g] = m_state}}
    \cup {<<"raw", t>> : t \in {u \in Thread : raw = u}}

Ownership == INSTANCE SharedOwnership
  WITH Owner <- ({"ref"} \X Ref) \cup ({"py"} \X Handle) \cup ({"raw"} \X Thread),
       owners <- Owners

\* The counter implements shared ownership: creation, hand-over and release of
\* references in any interleaving delete the object exactly when the last
\* owner has gone, and then eventually do so.
Implements == Ownership!Spec
=============================================================================
