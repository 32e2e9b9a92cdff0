# A TLA+ model of nanobind

nanobind exposes C++ to Python.  Its runtime library (`src/src/*.cpp`) and the
headers that generate binding code (`src/include/nanobind`) keep a few pieces of
shared state that every binding depends on: which Python wrapper belongs to
which C++ object, who owns the object, what the types are, and what has been
cached about them.  This project models the parts of that state that are hard to
test, above all under the interleavings of free-threaded Python, checks them
with TLC on small instances, and proves the central facts with TLAPS for all
instances.

`PROJECT.json` lists components, runs, mutants, the map from definitions to source
lines, findings, hazards and theorems.

## Inventory

| Component | State | Operations | Interacts with | Correct when |
|---|---|---|---|---|
| Instance registry and wrapper life cycle (`nb_type.cpp`) | `inst_c2p` (address to list of wrappers), flags of every `nb_inst`, memory of wrapper and object | `inst_new_int`, `inst_new_ext`, `inst_register`, `nb_type_put`, `inst_dealloc` | Python reference counts, keep_alive, pools, intrusive counter | a reachable wrapper denotes a live object; objects are destructed once; the registry is exact |
| keep_alive (`nb_type.cpp`) | patients of every nurse | `keep_alive_py`, `keep_alive_ptr`, release in `inst_dealloc` | registry | patients outlive nurses, nothing leaks |
| Instance pools (`nb_type.cpp`) | parked wrappers per type and thread | fast paths of `inst_new_int`/`inst_dealloc`, `nb_pool_drain` | registry | parked wrappers are dead, unique, never found |
| Intrusive counter (`intrusive/counter.inl`, `ref.h`) | one atomic word: count or wrapper | `inc_ref`, `dec_ref`, `set_self_py`, `self_py` | `nb_type_put`, Python reference counts | no reference lost across the hand-over; last owner deletes |
| Trampoline cache (`trampoline.cpp`) | per-type tables, marks, global epoch | `trampoline_enter`, publish, mark, invalidation walk | `nb_type_setattro`, class creation | no stale answer stays; dispatch is linearizable |
| Trampoline tickets (`trampoline.cpp`, `trampoline.h`) | thread-local stack of tickets, thread states attached | `trampoline_enter`, `trampoline_leave` | thread state attach/detach | a re-dispatch reaches C++ once; every way out restores the stack |
| Contents of instances (`nb_type.cpp`) | `state`, `destruct`, `cpp_delete` of one `nb_inst` | `nb_inst_*`: alloc, reference, take, zero, copy, move, destruct | registry | ready means one live object; one owner |
| Unique ownership (`nb_type.cpp`, `stl/unique_ptr.h`) | the same flags, `std::unique_ptr` variables, a call in progress | `nb_type_put_unique`, relinquish, restore | registry | exactly one side owns |
| Shared ownership (`stl/shared_ptr.h`) | control blocks, `weak_this`, keep-alive payloads | from_python, from_cpp, deleter | registry, shutdown | the pointee lives as long as anybody can use it; one family of owners |
| `std::function` holders (`stl/function.h`) | one Python reference per wrapper | copy, move, destroy | shutdown | references exact; silent after shutdown |
| Internals life time (`nb_internals.cpp`) | reference count, record published per domain, lifeline | module init, join, discard, `internals_dec_ref`, cleanup | all | torn down once, rebuilt when needed |
| String and import caches (`nb_internals.cpp`) | two-way associative slots, import entries, lifeline | `cached_string`, `import_cached` | internals | an entry names its key; borrowed objects live |
| Type registry and implicit conversions (`nb_type.cpp`, `implicit.cpp`) | `type_c2p_slow`, `type_c2p_fast`, alias chains, conversion arrays | `nb_type_new`, `nb_type_c2p`, `nb_type_unregister`, `nb_type_init_py`, `implicitly_convertible` | registry, dispatch | caches never name a dead type |
| Function dispatch (`nb_func.cpp`) | overload chain, per-call cleanup list | `nb_func_new`, the three vectorcall dispatchers | casters, keep_alive | first exact match, then first implicit one; all temporaries released |
| Calls into Python (`common.cpp`, `nb_call.h`) | argument stack, keyword names | `obj_vectorcall`, `obj_vectorcall_ex` | Python | arguments as they were; references restored |
| Accessors (`nb_accessor.h`) | a cached value | read, assign, `+=`, conversion | Python | no update lost, references exact |
| Exceptions and translators (`error.cpp`, `nb_error.h`) | payload, lazily built message, list of translators | fetch, restore, what, release, register, translate | dispatch, shutdown | message published once, all translators asked |
| ndarray (`nb_ndarray.cpp`, `ndarray.h`) | handle count, managed tensors, DLPack ownership | import, export, inc/dec, buffer protocol | Python capsules | memory lives while it is reachable; layout as promised |
| Enumerations (`nb_enum.cpp`) | forward and reverse tables, members, flag masks | `enum_append`, `enum_from_python`, `enum_from_cpp` | casters | values survive the round trip |
| Numbers and text (`common.cpp`, `buffer.h`) | error indicator; buffer memory | integer and float loaders; `put`, `fmt` | dispatch | exact or refused; always terminated |
| Bound containers and casters (`stl/*.h`, `make_iterator.h`, `common.cpp`) | vectors, maps, iterators, temporaries | `bind_vector`, `bind_map`, iterators, list/set/dict/array/pair/tuple casters | Python sequences | elements alive, complete, visited once |
| Split backend, static properties, Eigen and chrono casters, stubgen | none worth a model | | | |

Hard behaviours: threads that look up, register and release wrappers at the same
time; addresses that are reused while an old wrapper is still being released;
releases that run arbitrary destructors; a count that changes its representation
while other threads use it; lock-free readers of caches that a type modification
invalidates; shutdown and re-initialisation; objects of one language that outlive
the other's run time; Python code that runs in the middle of a conversion or a call
and changes what is being converted; failures half way; limits of integer ranges.

## Modules

| Module | Models |
|---|---|
| `SharedOwnership` | abstract promise of reference counting: an object lives while it has owners and is then destroyed, once |
| `IntrusiveCounter` | `intrusive_counter`, `ref<T>`, and the intrusive path of `nb_type_put`; implements `SharedOwnership` |
| `IntrusiveCounterProofs` | TLAPS proofs about it |
| `InstanceMap` | registry, wrapper life cycle, keep_alive and pools |
| `Trampoline` | override cache and its invalidation |
| `TrampolineProofs` | TLAPS proofs about it |
| `InstanceMapProofs`, `UniqueOwnershipProofs`, `SharedHoldersProofs` | TLAPS proofs about the modules of these names |
| `HolderProofs` | TLAPS proofs about `FunctionHolders`, `InstanceContents`, `NdarrayHandle`, `Accessors`, `PythonCall` and `ContainerCasters` |
| `TableProofs` | TLAPS proofs about `InternalsLifetime`, `PythonCaches`, `TypeRegistry`, `PythonError`, `Translators`, `FuncDispatch` and `TrampolineTicket` |
| `RuntimeProofs` | what the proofs about components say of the run `runtime` |
| `InternalsLifetime`, `PythonCaches`, `TypeRegistry` | the shared record, its caches, and the types in it |
| `FuncDispatch`, `PythonCall`, `Accessors` | calls from Python, calls into Python, places in Python objects |
| `TrampolineTicket`, `PythonError`, `Translators` | re-dispatch, errors that cross the language border |
| `InstanceContents`, `UniqueOwnership`, `SharedHolders`, `FunctionHolders` | who owns what, in both languages |
| `NdarrayHandle`, `NdarrayLayout` | life time and layout of arrays |
| `BoundVector`, `BoundMap`, `ContainerCasters` | containers that are bound, and containers that are converted |
| `EnumTables`, `NumberCasters`, `TextBuffer` | values |
| `MC...` | values of the constants for TLC |

Definitions whose comment starts with "Mutant:" are plausible bugs that the checks
must catch; no specification uses them.

### IntrusiveCounter

`m_state` holds the decoded word: a natural number for a C++ count, or a wrapper
after `set_self_py()`.  Each atomic load, compare-exchange and Python reference
count update is one action; `v` is the value a thread loaded last, `pc` where it
is.  A `Ref` is a `ref<T>` variable and a `Handle` a Python reference; only what
holds one may use the object, which is the discipline `ref<T>` enforces.  A weak
compare-exchange that fails spuriously only repeats the iteration and is not an
action of its own.  `SerialPut` says whether exposures to Python exclude each
other, as they do under the GIL.

### InstanceMap

`Obj` are slots of Python's object memory, `Heap` addresses of `operator new`.
A wrapper with internal storage holds its object at the address named like its
slot.  An object and its first field share an address, so two wrappers of
different types can be listed there, and racing calls add duplicates; that is
how the lists of `inst_c2p` arise.  `op[t]` is the constructor call or `nb_type_put`
a thread is in, `frames[t]` its stack of `inst_dealloc` activations: a released
patient starts a nested one.  An action is one critical section of a shard or a
stretch that touches only what the thread owns; the destructor, `operator delete`,
the removal from the registry, each released patient and `PyObject_Free` are
separate, in the order of the code.  The fatal `check()` calls set `failed`.  What the
program may do is what docs/ownership.rst asks of it: it deletes objects of its own
only when no live wrapper refers to them, and gives an object to Python once.

Abstractions: a subclass relation between bound types is equality; the wrapper's
references to its type, GC slots, `shared_from_this`, the relinquished state, move
and copy of returned values (apart from a constructor that fails) and nurses of
foreign types are left out.  Python's object memory and the C++ heap are distinct
address sets, as they are in free-threaded CPython.  A program does not reach the
registry from inside the destructor of the object being released, other than from
another thread.  When a call returns a wrapper its caller already holds, the extra
reference is dropped at once.

### Trampoline

Each type has a table from method names to "override", "no override" or nothing.
`trampoline_enter` is the sequence Enter, Probe, Reread, Mark, ReadEpoch, ProbeAgain,
Lookup, Publish, Return; a modification is SetAttr or SetBases, EpochInc, then
Visit and ListSubclasses over the marked subtree.  The type's critical section makes
Publish, each mark and each Visit atomic.  `AtomicLookup` FALSE selects the fallback
of limited-API builds, which reads one namespace of the MRO after the other.  `right`
and `prior` are history variables that say which answers were right at some time
during a call.  A marking thread holds the MRO tuple and a walk the types it has
listed, so the collector (CollectType) spares these; a call holds no reference to the
class it has read.  Memory is sequentially consistent; the model has nanobind types
only, with one base each, which `nb_type_init_py` enforces when a class is made
(an assignment of several bases to `__bases__` is not modelled); the retired tables, the ticket
stack and the exits at interpreter shutdown are left out.

### TrampolineTicket

What the lookup returns is given here (`Overrides`, `Pure`); the module is about the
tickets.  `stack[t]` are the C++ frames of a thread, `current[t]` the innermost ticket,
which remembers the one before.  A virtual call enters an override unless the current
ticket names the same object and method; then the base method is meant.  Frames end
by return or by exception, threads attach their thread state and release it, and the
interpreter may stop letting threads in.

### InternalsLifetime

A thread that imports a module finds the record of the domain or makes one, publishes
it in the interpreter's dictionary, where the first one wins and the others discard
theirs, or joins it and rebuilds what a teardown removed; the body of the module may
fail.  Releases of modules, types and functions count down and the last one tears the
record down.  `Unbroken` lists the stretches without Python code, which a GIL makes
atomic.  What fills a record is one step.

### PythonCaches

One set of two entries of `name_cache`, to which all addresses hash, and one
`import_cached` entry.  A miss makes its string without the lock, then takes the lock
and looks again; the address of a C string may be reused for another text.  The
lifeline owns what the caches list and dies in a teardown.

### PythonError, Translators

`payload` is what a `python_error` carries: a value and, after the first `what()`, a
message that is published with a compare-exchange while other threads make theirs.
Copies take a reference and a message of their own, moves hand both over; a destructor
that runs without an interpreter leaks its reference on purpose.  `Chain` makes one
exception the cause of another; the last reference to an exception that goes takes along
those to its causes, and `Dying` is the least set of exceptions that die of it.
In `Translators` a registration reads the head of the list and stores it in two
steps; a walk goes from the head it read, and a translator may throw another
exception for those after it.

### FuncDispatch

An argument is "a", "b" (a parameter that takes "a" accepts it by an implicit
conversion, through a temporary) or "none".  A definition extends the chain and raises
its `complexity`, which selects one of three dispatchers; a call tries each overload in
a pass without conversions and one with them, and the body returns, throws, or asks
for the next overload.  `RightOverload` compares the outcome with a reference
definition that knows nothing of passes over C arrays; `TempsHeld` follows the temporaries.
`Legal` says which signatures `func_create` can make: positional parameters come first, a
default or a name gives the overload `has_args`, and a constructor is no operator.

### PythonCall, Accessors

A call into Python collects its entries; a first pass counts them and copies the
operands of `*` and `**`, which may run Python code that changes these containers; a
second pass lays the copies out.  The stack borrows its entries from the copies, whose
references are given back wherever the call fails: an argument or a name that could not be
made, an operand that cannot be expanded, a key that is not a string, an error of the
callee.  A slot of the stack is named by the entry it comes from and its position in that
entry; the names of keywords change hands, those of a dictionary are new references.
Calls with positional arguments only have no passes, and a mask that says which arguments
are new.
An accessor reads a place when it is needed and keeps what it read; accessors
of list items read again.

### TypeRegistry

`slow` maps C++ types to records, `fast` addresses of `std::type_info` to records, once
per thread in free-threaded builds; the aliases of a type are chained in its record so
that unregistration finds all of them.  `nb_type_new` reserves a slot, runs Python
code, and publishes; subclasses made in Python finish lazily and share the arrays of
implicit conversions with their base.

### InstanceContents, UniqueOwnership, SharedHolders, FunctionHolders

`InstanceContents` has the functions `nb::inst_*`, which construct, destruct, copy and
move contents by hand; `live` counts the objects in a piece of memory.
`UniqueOwnership` follows objects between wrappers and `std::unique_ptr` variables with
either deleter; a call relinquishes its arguments one by one, may fail at any of them
and restores those before it, and may nest them in a container.
`SharedHolders` has control blocks with their counts; the drop of the last reference
and the deleter are two steps, and types with `enable_shared_from_this` find their
owner through `weak`.  `FunctionHolders` copies, moves and destroys wrappers of
callables; `cleanup_guard` decides whether there is an interpreter to be entered.

### NdarrayHandle, NdarrayLayout

`NdarrayHandle` counts handles from C++, from Python and from capsules, with managed
tensors that whoever consumed a capsule deletes; an import goes through a call of
Python code that may fail.  `NdarrayLayout` is the sequence obtain, check, convert,
check again on an array of small shape: strides count elements and may be missing, as
DLPack permits.  OrderRight and PackedRight count the elements that lie before each one.

### EnumTables, NumberCasters, TextBuffer

Integers have `W`, respectively `Acc`, bits instead of 64, digits of Python integers
`Shift` instead of 30, so that every limit and each way to cross it is enumerated; the
loaders are compared with the mathematical value.  `TextBuffer` has the memory of the
buffer cell by cell, with cells that were never written.

A flag enumeration is signed or unsigned, as its underlying type is, and a `Flag` or, with
`is_arithmetic()`, an `IntFlag`; the masks that `enum_append` keeps are Python integers,
negative ones included.  `Flag`, `Unfit`, `Positive` and `Composes` are Python's rule for
combinations (3.11 and later, with both treatments of negative values that its releases
have): a negative combination becomes positive, so that RoundTrip is about the others and
FlagsKept says what is left of the negative ones.  FlagsClosed is about enumerations
without negative members.  With one, as in `{A = 1, B = 2, C = 4, All = -1}` over a signed
type, `_flag_mask_` is -1 and `_all_bits_` 3, and a union such as `A | C` is refused.

### BoundVector, BoundMap, ContainerCasters

An operation of a bound container holds its lock and is one step; iterators live
across steps in which others change the container.  Slices are compared with the
elements that Python selects, updates with the map that Python's `dict` would be.  A step
of the cursor iterator of a map fails in three ways: it sees that the map has changed, or
catches a C++ exception, and stays failed; or the caster of the element returns null
(`NextRefused`), and the loop may go on with the next element.  In
`ContainerCasters` one Python container is loaded element by element, where a
conversion may fail or run Python code that changes the source, and one C++ container
is stored, where any element may fail.

### MCRuntime

The modules above from `TrampolineTicket` on are checked in one run.  `part` names the
component that a behaviour is about and never changes; `s1` to `s8` are the variables
of that component, substituted with INSTANCE ... WITH.  The state space is the sum of
those of the components, not their product: they meet only at the assumptions stated
here, which are that references to Python objects are counted right by others, and that
a lock is a lock.  Each property of the run joins the properties of the modules of
one subject, and the mutants listed for it are bugs in these modules.

## Runs

| Run | Shows | Bounds and why they suffice |
|---|---|---|
| `intrusive_counter` | TypeOK, Conservation, NoAbort, DeletedAlone, the inductive invariant, HandOverOnce, refinement of SharedOwnership with its liveness | 3 threads, one of them with two `ref<T>`, one wrapper: an increment, a decrement and a hand-over can overlap and the count changes by more than one during the transfer |
| `intrusive_exposed_twice` | violation of HarmlessDuplication | 2 threads, 2 wrappers |
| `instance_races` | registry, ownership, keep_alive, pool and reference invariants under free threading | 2 threads, 3 wrapper slots, 1 heap address, pools of one: a list of three wrappers, a dying owner beside its successor at the same address, nested releases, a full pool and an empty one all occur |
| `instance_serial` | OneWrapper, NoneRefuses, Released | 1 thread, all policies |
| `instance_find_field` | violation of NoneRefuses | 1 thread, 2 slots |
| `trampoline_race` | NoStaleOverride, DispatchRight | 3 threads, a class and its subclass, 2 modifications: two walks and a publication overlap |
| `trampoline_class` | DispatchRight, CallsReturn, WalksEnd | 2 threads, `__class__` changes, 2 modifications |
| `trampoline_types` | NoStaleOverride, MarksClosed, the inductive invariant | 2 threads, 3 types in a chain, 3 modifications; classes appear, are collected and rebased; non-atomic lookup |
| `trampoline_rebase` | violation of NoStaleOverride | `__bases__` set to an unmarked class |
| `trampoline_collect` | violation of ReaderHoldsType | `__class__` reassigned and the old class collected |
| `runtime` | eleven invariants and an action property that join what the modules of one subject promise | see the table below; all components have their own constants in `MCRuntime` |
| `unique_return` | violation of ReturnWorks | 2 heap objects, 3 instances, 3 `unique_ptr` variables; functions may return references |

The properties of `runtime`, each the conjunction of properties that are stated and
explained in the modules:

| Property | Says | Instance |
|---|---|---|
| RecordShared | `Ready`, `NoLeak`, `OneRecord` of InternalsLifetime | 2 modules, 2 importing threads, 3 records: a record lost against a rival import, a reload, a teardown and a rebuild |
| CachesExact | `RightText`, `BorrowedAlive`, `CacheRefsExact`, `NoTwins` of PythonCaches | 2 callers, 2 addresses with 2 texts for a set of two slots: both ways of the set collide and an address is reused |
| ErrorsCarried | `ErrorRefsExact`, `CarriedAlive`, `OneMessage` of PythonError; `LastFirst` of Translators | 2 threads, 2 errors; 3 translators |
| CallsDelivered | `RightOverload`, `TempsHeld`, `OutcomeConsistent` of FuncDispatch; `CallRefsExact`, `StackExact`, `StackAlive` of PythonCall; `AccessorRefsExact`, `UpdatesKept` of Accessors; `ChainRight`, `Delivered`, `Balanced` of TrampolineTicket | every chain of two out of 11 overloads, every call of up to 3 arguments and 2 keywords listed in `MCRuntime`; calls with 2 entries; 3 nested dispatches in each of 2 threads |
| TypesFound | `FastRight`, `UnregisterComplete`, `Inherited`, `TypesCounted` of TypeRegistry | 2 types, one with two `type_info` addresses, 3 records, 2 threads, with and without a GIL |
| OwnedOnce | `ContentsExact`, `OneDestroyer` of InstanceContents; `OneOwner`, `ReturnWorks`, `FailedCallGivesBack`, `ReadyExclusive` of UniqueOwnership; `PointeeAlive`, `Collected`, `OneFamily` of SharedHolders; `FunctionRefsExact` of FunctionHolders; `ItemRefsExact`, `ItemsAlive`, `PairAlive`, `AllOrNothing` of ContainerCasters | 3 instances and 2 addresses of C++; 3 control blocks; 3 holders of 2 callables; containers of up to 2 out of 3 elements |
| ArraysBacked | `HandleCount`, `ArrayRefsExact`, `Backed`, `ViewsBacked` of NdarrayHandle | 2 handles, 2 managed tensors, 3 Python objects |
| LayoutsRight | `OrderRight`, `PackedRight`, `NeverWritten`, `NothingLost`, `NotTurnedAway` of NdarrayLayout | all shapes of up to two axes with strides from -1 to 3, some with three axes; all protocols |
| ValuesExact | `RoundTrip`, `FlagsKept`, `Canonical`, `IntegersExact`, `StringsExact`, `FlagsClosed` of EnumTables; `IntExact`, `MinusOneLoads`, `NoPrecisionLost`, `NoErrorLeft` of NumberCasters; `Terminated`, `TextRight` of TextBuffer | enumerations of 3 members with values of 3 bits, of every kind; integers around the limits of 2, 4 and 8 bits, with digits of 3 bits; texts around the size of the buffer |
| ElementsRight | `SlicesRight`, `ExtendRight`, `StaysExhausted`, `RangeVisitedOnce` of BoundVector; `UpdateRight`, `YieldsOnce`, `NoKeyMissed` of BoundMap | vectors of up to 3 elements, every slice around them; maps with 3 keys |
| EndsForGood | after the interpreter has gone, holders stay silent; a map loop that ended, or failed for a reason other than the conversion of an element, is over | as above |

Some of these hold only for programs that keep to a rule.  The rule is a constant, so
that the check of the opposite is one value away:

| Constant | Rule | Otherwise |
|---|---|---|
| `Overlap` (InternalsLifetime) | no import runs beside the teardown of the record by another thread | Ready fails: an import adopts a record that is being cleared |
| `Concurrent` (Translators) | translators are registered by one thread at a time, as module initialisation is | LastFirst fails: a registration is lost |
| `Alias` (UniqueOwnership) | functions return no references to objects that a `unique_ptr` owns | ReturnWorks fails: run `unique_return` |
| `Alias`, `Detach` (InstanceContents) | an instance is not copied onto a view of itself; views are not destructed and filled again | ContentsExact and OneDestroyer fail: the source is destroyed first; a view becomes an owner |
| `Reused` (Accessors) | an accessor that caches is used once | UpdatesKept fails: `+=` computes from an old value |
| `Borrowing` (ContainerCasters) | the array of a list is copied, as free-threaded and limited-API builds do | ItemsAlive fails: an element that Python code removes dies under the caster |

Bounds: `NRefs`, `Ref` and `Handle` bound the references to the shared object; `Obj`,
`Heap` and `PoolCap` bound memory; `MaxMods` bounds the type modifications of a run.
Deadlock is not checked: a program may stop calling, and a failed `check()` aborts.
Symmetry is used where no liveness is checked: threads and wrapper slots are
interchangeable.

Fairness: `FairSpec` has weak fairness for the next step of a thread that is inside
an operation, one condition per thread: a running thread goes on, and nothing is
said about which operations programs call.  No property assumes that a lock is
granted or that a compare-exchange succeeds.  CallsReturn holds because a run has
finitely many modifications; a program that modifies types for ever can starve a
call, which the code accepts.

## What the checks found

1. `HarmlessDuplication`.  docs/free_threaded.rst says that threads that return the same
   instance may create several wrappers, which is harmless.  For intrusive types the
   second `set_self_py()` aborts, or misreads the first wrapper's address as a count.
2. `NoneRefuses`.  `nb_type_put` refuses `rv_policy::none` only if the address has no
   entry at all.  For the first field of a wrapped object, or while another thread
   releases the only wrapper, it creates a wrapper that destructs the object.
3. `NoStaleOverride` with arbitrary `__bases__`.  Nothing marks the new ancestors of a
   marked class, so later modifications of them do not invalidate its table.
4. `ReaderHoldsType`.  The lock-free probe holds no reference to the type it reads.
5. `ReturnWorks` with `Alias`.  docs/ownership_adv.rst says that returning a
   `std::unique_ptr` always works.  If an earlier function returned a reference to the
   object, its wrapper is ready and owns nothing, and the check of
   `nb_type_put_unique_finalize`, which expects a relinquished one, ends the process.

The passing runs stay clear of these: serial exposure, finds of whole objects,
rebasing to marked classes only, no collection of a class some call may be using, and
no references to objects that a `unique_ptr` owns.

## Proofs

`IntrusiveCounterProofs` proves, for every finite set of references and any threads and
wrappers, under the assumption `SerialPut`:

* `Invariance`: Spec => []IInv, where IInv joins the checked invariants with three
  facts that make them inductive.  `Tokens`: an operation has its reference to itself,
  and one thread at most exposes the object.  `Views`: a wrapper a thread has loaded is
  still in charge, and nobody installs one while another is.  `Claims`: whoever is
  inside an operation has a claim on the object, a thread that installs a wrapper one
  that is not the wrapper.  Without Claims a stale `dec_ref` could race with the
  deletion; without Views the transferred references could be counted twice.
* `TypeCorrect`, `Conserves`, `NeverAborts`, `DeletesAlone`: the four checked invariants.
* `HandsOverOnce`: the action property.
* `ImplementsSafety`: the initial states and steps map to those of `SharedOwnership`.

The argument has one lemma per action, each split into the conjuncts the action can
disturb, over lemmas about cardinalities of the sets of references.

`TrampolineProofs` proves, for any threads, types, objects, method names and number of
modifications, either kind of lookup and any hierarchy with single inheritance
(`TrampolineAssumption`), under the assumption `Tame`: classes are rebased to marked
classes at most, and programs do not both reassign `__class__` and drop classes.  The
findings show that the code does not promise these properties to the other programs.

* `Invariance`: Spec => []IInv.  MarksClosed and NoStaleOverride say nothing of a
  modification in progress and are not inductive.  IInv adds:
  `LinearMro`, every suffix of an MRO is the MRO of its first type, so what is above a
  type does not depend on where one comes from; `MarkOrder`, the classes a thread has
  not yet marked are a prefix of the MRO, bases last, and no call goes on before its own
  class is marked; `CacheRight`, an entry that disagrees with the type is in a table
  that some walk is still going to reach; `LookupRight`, a lookup that will pass the
  epoch check has seen the truth so far, or a modification above its class has
  happened that has not moved the epoch and will walk later; `Engaged`, classes in use
  exist; `EpochBound`, the bound on modifications is kept.
* `ClosesMarks` and `NeverStale`: the two properties, from IInv.  `TypeCorrect`: TypeOK.

CacheRight is where the protocol is subtle.  An entry becomes wrong in SetAttr or
SetBases, before the epoch moves, and a publication may add another wrong one; each
time the modification is still ahead of the table.  EpochInc, Visit and ListSubclasses
move the frontier of the walk down: MarksClosed gives that Visit never drops a branch
that leads to a non-empty table, and `Child` that the next type on the way is listed.
`MovedLinear` shows that an assignment to `__bases__` keeps the MROs linear.  There is
one lemma per action, over two frame lemmas for the steps of calls and of walks.

`DispatchesRight`: Spec => []DispatchRight, if moreover no program assigns to `__bases__`
(`Rebase = "never"`) and lookups are atomic (`AtomicLookup`).  Both restrictions are
needed: with three threads TLC refutes DispatchRight without the second and, where two
walks overlap, without the first; the runs that check it keep to both.
The invariant is IInv with `DInv`, which speaks of the history variables: what is wrong
in a table (`StaleKnown`) or about to be published (`FoundKnown`) was right before a
modification that is still in progress, and whatever a call may still act on, the truth
of now, the entry of its table or what another call is about to publish there, is among
the answers its own interval allows (`NowRight`, `EntryRight`, `FoundRight`, `HeldRight`).

`InstanceMapProofs` proves the checked invariants of `InstanceMap`, for any number of
threads, wrappers, heap cells, pool sizes and patients, and for any tree of classes and
first fields (`InstanceMapAssumption`), if no call uses `rv_policy::none`, which finding 2
shows to break ownership.

* `Invariant`: Spec => []IInv.  The checked invariants are not inductive, since they look
  at the registry, the lists of patients and the pools one at a time, while a release goes
  through all of them.  IInv adds `FramesSound` and `Stages`, which tie the flags and the
  reference count of a wrapper to the stage its `inst_dealloc` has reached, in whichever
  frame of whichever thread; `Calls`, what a call in progress knows about its wrapper,
  the owner it keeps alive and the pointer it was given; `Flags` and `Cells`, which
  wrapper is going to destroy what is in a cell; `Anchored`, a wrapper that owns nothing
  has a nurse of the enclosing class at its address, or refers to an object of C++;
  `Mapped`, `Nursing` and `Pools`, the contents of the three tables.
* `TypeCorrect`, `NeverDangling`, `OwnerAlone`, `RegistryExact`, `NeverFails`,
  `PatientsSafe`, `ReferencesCounted`, `PoolsDead` from it, and `NeverResurrected`, the
  action property.  NeverDangling is the deep one: a live wrapper without an owner of its
  own climbs, nurse by nurse, to one that owns the enclosing object; classes are finitely
  deep, and the induction is a rank that the assumption gives.
* `IdentityKept`: with `Serial`, OneWrapper holds as well, from an invariant about calls
  that have looked the object up and not yet registered their wrapper.

References are counted as in `IntrusiveCounterProofs`: a step moves single elements
between four finite sets, `Holders`, `Nurses`, `Makers` and `Releases`.

`UniqueOwnershipProofs` proves OneOwner, ReadyExclusive, FailedCallGivesBack and
ReturnWorks for any objects, instances and pointers (`ConstantsApart`: the sets do not
overlap) if functions return no references to objects that a `unique_ptr` owns (`~Alias`,
finding 5).  The invariant (`Invariant`) determines the two flags of an instance from who
owns its object: a pointer with `nb::deleter`, one with the default deleter, the wrapper,
or an argument of the call in progress that has been taken over and may have to be given
back; and it says that all these have a wrapper that somebody refers to.

`SharedHoldersProofs` proves PointeeAlive, Collected and OneFamily for any objects and any
finite set of control blocks.  The invariant (`Invariant`) counts both ways: an instance
has a reference for each block whose deleter is `py_decref`, a block is counted by its
users and by the instance that keeps it.  After shutdown the first count is an upper
bound, as references are leaked.  `NothingTouched` is the action property about shutdown.

`HolderProofs` has the components that count references to Python objects.

* FunctionRefsExact (`CallablesCounted`), and that callables are left alone after shutdown
  (`CallablesSilent`), for any callables and finitely many holders.
* ContentsExact (`ContentsRight`) and OneDestroyer (`DestroyedOnce`) for any instances and
  cells, without copies onto views and without detached views (`~Alias`, `~Detach`, see the
  switches below the runs).  The invariant of the latter has `ConTree`: any set of views has
  one whose parent is outside of it.  That is what "no view is its own ancestor" comes to
  without induction, and it shows that a view ends at an instance that is not a view.
* HandleCount, ArrayRefsExact, Backed and ViewsBacked of `NdarrayHandle` (`ArraysRight`), for
  any finite sets of handles, tensors and objects.  `ArrInv` reduces all counts to two
  functions of what can hold something: `Claim`, the tensor that a capsule, view or handle
  will delete, and `Use`, the handle or object that loses a reference when it does.  Counts
  are numbers of arguments for which such a function has a value (`Times`), so that an
  action moves one argument from one value to another.  `ClaimsRight` is the subtle part:
  only a handle's own tensor is claimed more than once, and what a claim leads to has the
  same data.
* AccessorRefsExact and UpdatesKept (`AccessorsRight`), for finitely many accessors and any
  bound on the values, if accessors that cache are used once (`Reused` within `Rereads`).
  `AccInv` adds that an accessor that was not used has nothing in its cache.
* CallRefsExact, StackExact and StackAlive of `PythonCall` (`CallsRight`), for any values,
  names and operands, and calls of any length.  `CallInv` says what the first pass has
  counted: exactly the slots that the entries before the current one fill, in the form that
  they have then (`Counted`); that an entry it has not reached is as C++ made it (`Fresh`),
  and one it has passed has as many names as values (`Ready`); and that in the call every
  slot stands for a value of some entry.  A sum over sequences of sequences is counted as
  the number of slots with a value, which needs no induction.
* ItemRefsExact, ItemsAlive, PairAlive and AllOrNothing of `ContainerCasters`
  (`ContainersRight`), for any elements and sizes, where no array but that of a tuple is
  read in place (`Borrowing` within `{"tuple"}`).  `CasInv`: the source and the hand of the
  conversion (`Hand`) account for all references; a conversion that holds nothing walks the
  array of a tuple, which does not change; entries of a dictionary come in pairs, so that
  the walk never splits one; and what a pair or tuple has converted is among the items that
  it keeps until the call is over.

`TableProofs` has the components that look things up.

* Ready, NoLeak, OneRecord and TypeOK of `InternalsLifetime`, for any memory, any finite set
  of modules and any threads, where a GIL keeps others out of publication, joins and teardown
  (`~Overlap`).  The invariant counts the users of each record (`Counted`); says of every
  thread what it has at its step (`PrivateSound`: a record nobody else knows; `CommonSound`:
  the record of the domain, complete, half built or half torn down); that one thread at most
  is inside a stretch without Python code (`OneUnbroken`); and that between those stretches
  the record is built exactly if its count is positive (`Settled`).
* RightText, BorrowedAlive, CacheRefsExact and NoTwins of `PythonCaches` (`CachesRight`), for
  finitely many callers and any addresses and texts.  `CacheInv` knows what a call has made
  or found at each of its steps, and that what it uses is its own or on the lifeline, which
  lists exactly what the entries have.
* FastRight, UnregisterComplete, Inherited and TypesCounted of `TypeRegistry`
  (`TypesRight`), for any types, addresses and threads, with and without a GIL.  `RegInv`:
  the slow map and the records of C++ types refer to each other; whatever a fast map has, the
  slow map has; with a GIL the address of a type and its chain of aliases are what the fast
  map has of it, which is why unregistration finds all of them; and bases outlive, and are
  filled before, what is derived from them.
* ErrorRefsExact, CarriedAlive and OneMessage of `PythonError` (`ErrorsRight`), for finitely
  many threads, exceptions and carriers.  The death of one exception may kill a chain of
  causes.  `ErrInv` has the counts as sums over indicators, carriers and causes; the lemmas
  about `Dying` show, without induction along the chain, that they remain so, and that none
  dies that something else refers to.
* LastFirst of `Translators` (`TranslatorsRight`), for registrations that exclude each other:
  the list is the order of registration read backwards, and a walk is a suffix of it.
* RightOverload, TempsHeld and OutcomeConsistent of `FuncDispatch` (`DispatchRight`), for
  any overloads and calls that are `Legal`, and chains of any length.  `DispInv` says that no
  overload before the current one takes the arguments, in this pass or the earlier one, and
  `TryFits` that the tests of the three dispatchers, which go through C arrays, counts and
  keyword tables, come to the rules of the reference definition.
* ChainRight, Delivered and Balanced of `TrampolineTicket` (`TicketsRight`), for any threads,
  objects and methods, and any depth.  `TicketInv` knows for each frame the nearest ticket
  below it (`Nearest`).

`RuntimeProofs` carries these results over to the run `runtime`, for the specification that
TLC checks, with `IInv` the conjunction of the invariants above:

| Theorem | States |
|---|---|
| `RuntimeTyped` | Spec => []TypeOK |
| `SharedRecord` | Spec => []RecordShared |
| `CachesAnswerRight` | Spec => []CachesExact |
| `RegistryFindsTypes` | Spec => []TypesFound |
| `ErrorsTravel` | Spec => []ErrorsCarried |
| `CallsReach` | Spec => []CallsDelivered |
| `ArraysStayBacked` | Spec => []ArraysBacked |
| `OneOwnerEach` | Spec => []OwnedOnce |

Each component is an instance of its module with the variables `s1`, `s2`, ... of
`MCRuntime`; the proofs are an instance of the proof module with the same substitution, and
the formulas of both are the same once their definitions are expanded; and a behaviour
keeps to one part, so that its steps are steps of that component or stutter.
`RuntimeAssumption` says of the constants what the proofs need: the sets are finite and
apart, and `Nil` is no record, no name and no number in use.  `DispatchAssumption` says that
the overloads and calls of the run are `Legal`.  TLC evaluates both.

Only model-checked, and why:

* the eventual destruction in `SharedOwnership`, `CallsReturn`, `WalksEnd` and `Released`:
  fairness and ENABLED are outside the prover's reach;
* NoneRefuses: it is about programs that use `rv_policy::none`, which the proofs exclude,
  and holds only for one thread that does not ask for first fields (`FindField`, finding 2),
  with one class of objects at an address that has a first field, as in `MCInstanceMap`;
* LayoutsRight, ValuesExact, ElementsRight (bound vectors and maps): what arithmetic, folds
  and loops compute for every input needs induction over data, which the prover cannot do
  here.  The same holds of EndsForGood, whose last conjunct depends on the fold in `BoundMap!Updated`; its other two
  conjuncts are `NothingTouched` and `CallablesSilent`.

## Plan

1. Composition: `UniqueOwnership` and `SharedHolders` keep their own, smaller view of
   wrappers; refinements of `InstanceMap` that show where the views agree.  A register
   of overrides that `Trampoline` implements, and `TrampolineTicket` on top of it.
2. What is left of the parts marked "partly": copy and move policies of `nb_type_put`,
   nurses of foreign types, bound-method objects and pickling, `enum_create`.
3. Proofs of the arithmetic in `NumberCasters` and `EnumTables` for every width, which need
   the digits of a number as a recursive function and a prover with induction.

## Not modelled

Function signatures, docstrings and stubs, Eigen, date and time, string, complex,
optional and variant casters, the table of the split backend, and static properties:
pure conversions, I/O or generated glue without state that several steps or actors
share.  Of the components marked "partly" in `PROJECT.json`, the note says what is left
out.  The GIL, shard locks and critical sections appear as atomic actions; CPython,
the DLPack frameworks and the C++ run time appear as far as this code uses them.
Liveness is checked of the reference counter, the registry and the trampoline cache;
the components of `runtime` have no loops that wait for another thread.
