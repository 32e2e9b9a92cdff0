----------------------------- MODULE InstanceMap -----------------------------
(***************************************************************************)
(* The registry that ties C++ objects to their Python wrappers, and the    *)
(* life of a wrapper (src/nb_type.cpp): inst_new_int, inst_new_ext,        *)
(* inst_register, nb_type_put, keep_alive_py, inst_dealloc and the         *)
(* instance pools.                                                         *)
(*                                                                         *)
(* Obj are slots of Python's object memory, Heap are addresses that        *)
(* operator new returns.  A wrapper with internal storage in slot o holds  *)
(* its C++ object at address o, so Obj doubles as the set of internal      *)
(* addresses.  An object and its first field share an address, which is    *)
(* why inst_c2p maps an address to a list of wrappers of different types.  *)
(* Memory is reused as soon as it is released.                             *)
(*                                                                         *)
(* One action is one critical section of a shard or one thread-local       *)
(* stretch; destructors and everything a released reference sets off       *)
(* interleave.  A GIL build has fewer interleavings.                       *)
(***************************************************************************)
EXTENDS Naturals, Sequences, SequencesExt, FiniteSets

CONSTANTS
  Thread, Obj, Heap,
  Type,         \* types bound with nb::class_
  Field,        \* Field[tp]: type of the first field of tp, or None
  Pooled,       \* types with an instance pool (nb::pooled)
  PoolCap,      \* capacity of a pool
  Policy,       \* return value policies the program uses for pointers
  FindField,    \* the program calls nb::find() for the first field of an object
  Serial,       \* TRUE: nb_type_put runs as one critical section (GIL builds)
  None

Addr == Obj \cup Heap

\* The fields of nb_inst, the state of a call, and a frame of inst_dealloc.
Instance == [type : Type, addr : Addr, destruct : BOOLEAN, cpp_delete : BOOLEAN,
             clear_keep_alive : BOOLEAN]
CallState ==
  [step : {"construct", "lookup", "new", "keep_alive", "register"},
   type : Type, addr : Addr, pol : Policy \cup {None},
   self : Obj \cup {None}, obj : Obj \cup {None}]
Frame ==
  [obj : Obj, patients : Seq(Obj),
   pc : {"recycle", "park", "destruct", "delete", "unmap", "release"}]

\* A class is not its own first field, directly or through other classes.
ASSUME InstanceMapAssumption ==
  /\ Obj \cap Heap = {}
  /\ None \notin Obj \cup Heap \cup Type \cup Instance \cup CallState
  /\ IsFiniteSet(Thread) /\ IsFiniteSet(Obj) /\ IsFiniteSet(Type)
  /\ Field \in [Type -> Type \cup {None}]
  /\ \E rank \in [Type -> 0 .. Cardinality(Type)] :
       \A tp \in Type : Field[tp] # None => rank[tp] < rank[Field[tp]]
  /\ Pooled \subseteq Type
  /\ PoolCap \in Nat \ {0}
  /\ Policy \subseteq {"take_ownership", "reference", "reference_internal", "none"}
  /\ Serial \in BOOLEAN /\ FindField \in BOOLEAN

VARIABLES
  inst,        \* the nb_inst in every slot, or None if the slot is free
  rc,          \* reference count of the object in every slot
  inst_c2p,    \* wrappers registered at every address, in list order
  keep_alive,  \* patients of every nurse
  cell,        \* C++ memory: "free", "raw" or "live" (holds an object)
  owned,       \* heap objects that belong to the C++ side
  pool,        \* wrappers parked in the pools of every thread
  hold,        \* wrappers every thread holds a reference to
  op,          \* the call a thread is in, or None
  frames,      \* its stack of inst_dealloc frames
  failed       \* a check() has aborted the process

vars == <<inst, rc, inst_c2p, keep_alive, cell, owned, pool, hold, op, frames,
          failed>>

Init ==
  /\ inst = [o \in Obj |-> None]
  /\ rc = [o \in Obj |-> 0]
  /\ inst_c2p = [a \in Addr |-> <<>>]
  /\ keep_alive = [o \in Obj |-> <<>>]
  /\ cell = [a \in Addr |-> "free"]
  /\ owned = {}
  /\ pool = [t \in Thread |-> [tp \in Pooled |-> <<>>]]
  /\ hold = [t \in Thread |-> {}]
  /\ op = [t \in Thread |-> None]
  /\ frames = [t \in Thread |-> <<>>]
  /\ failed = FALSE

-----------------------------------------------------------------------------
(* State of the threads.                                                   *)

Idle(t) == op[t] = None /\ frames[t] = <<>>
At(t, step) == op[t] # None /\ op[t].step = step /\ frames[t] = <<>>
Goto(t, step) == op' = [op EXCEPT ![t].step = step]

\* A reference to o that t obtained; one it already had is dropped again.
Receive(t, o) ==
  /\ hold' = [hold EXCEPT ![t] = @ \cup {o}]
  /\ rc' = IF o \in hold[t] THEN rc ELSE [rc EXCEPT ![o] = @ + 1]

Internal(o) == inst[o].addr = o

\* The fast path of inst_dealloc is open to o.
Clean(o) == inst[o].type \in Pooled /\ Internal(o) /\ ~inst[o].clear_keep_alive

\* Where inst_dealloc starts: steps without an effect on shared state are skipped.
Dealloc(o) ==
  [obj |-> o, patients |-> <<>>,
   pc |-> IF Clean(o) THEN "recycle"
          ELSE IF inst[o].destruct THEN "destruct" ELSE "unmap"]

\* Py_DECREF(o) in thread t, whose frames are fs.
DecRef(t, o, fs) ==
  /\ rc' = [rc EXCEPT ![o] = @ - 1]
  /\ frames' = [frames EXCEPT ![t] = IF rc[o] = 1 THEN Append(fs, Dealloc(o)) ELSE fs]

-----------------------------------------------------------------------------
(* The program.                                                            *)

\* operator new and a constructor.
CppNew(a) ==
  /\ a \in Heap /\ cell[a] = "free"
  /\ cell' = [cell EXCEPT ![a] = "live"]
  /\ owned' = owned \cup {a}
  /\ UNCHANGED <<inst, rc, inst_c2p, keep_alive, pool, hold, op, frames, failed>>

Wrappers(a) == {o \in Obj : inst[o] # None /\ inst[o].addr = a /\ rc[o] > 0}
Passing(a) == {t \in Thread : op[t] # None /\ op[t].addr = a}

\* The C++ side deletes an object of its own.  docs/ownership.rst makes it
\* responsible for not doing so while Python uses a reference to it.
CppDelete(a) ==
  /\ a \in owned /\ Wrappers(a) = {} /\ Passing(a) = {}
  /\ cell' = [cell EXCEPT ![a] = "free"]
  /\ owned' = owned \ {a}
  /\ UNCHANGED <<inst, rc, inst_c2p, keep_alive, pool, hold, op, frames, failed>>

Share(t, u, o) ==
  /\ Idle(t) /\ o \in hold[t] \ hold[u]
  /\ Receive(u, o)
  /\ UNCHANGED <<inst, inst_c2p, keep_alive, cell, owned, pool, op, frames, failed>>

Drop(t, o) ==
  /\ Idle(t) /\ o \in hold[t]
  /\ hold' = [hold EXCEPT ![t] = @ \ {o}]
  /\ DecRef(t, o, <<>>)
  /\ UNCHANGED <<inst, inst_c2p, keep_alive, cell, owned, pool, op, failed>>

-----------------------------------------------------------------------------
(* inst_new_int: Python calls the type, or a value is copied.              *)

NewInst(tp, a) ==
  [type |-> tp, addr |-> a, destruct |-> FALSE, cpp_delete |-> FALSE,
   clear_keep_alive |-> FALSE]

Call(step, tp, a) == [step |-> step, type |-> tp, addr |-> a, pol |-> None,
                      self |-> None, obj |-> None]

\* Mutant: the pool still lists the wrapper it hands out.
NewPooledPeek(t, tp) ==
  /\ Idle(t) /\ tp \in Pooled /\ pool[t][tp] # <<>>
  /\ LET o == Last(pool[t][tp]) IN
       /\ inst' = [inst EXCEPT ![o] = NewInst(tp, o)]
       /\ rc' = [rc EXCEPT ![o] = 1]
       /\ op' = [op EXCEPT ![t] = [Call("construct", tp, o) EXCEPT !.obj = o]]
  /\ UNCHANGED <<inst_c2p, keep_alive, cell, owned, pool, hold, frames, failed>>

NewPooled(t, tp) ==
  /\ Idle(t) /\ tp \in Pooled /\ pool[t][tp] # <<>>
  /\ LET o == Last(pool[t][tp]) IN
       /\ pool' = [pool EXCEPT ![t][tp] = Front(@)]
       /\ inst' = [inst EXCEPT ![o] = NewInst(tp, o)]
       /\ rc' = [rc EXCEPT ![o] = 1]
       /\ op' = [op EXCEPT ![t] = [Call("construct", tp, o) EXCEPT !.obj = o]]
  /\ UNCHANGED <<inst_c2p, keep_alive, cell, owned, hold, frames, failed>>

NewInternal(t, tp, o) ==
  /\ Idle(t) /\ inst[o] = None
  /\ tp \in Pooled => pool[t][tp] = <<>>
  /\ inst' = [inst EXCEPT ![o] = NewInst(tp, o)]
  /\ rc' = [rc EXCEPT ![o] = 1]
  /\ op' = [op EXCEPT ![t] = [Call("construct", tp, o) EXCEPT !.obj = o]]
  /\ IF inst_c2p[o] = <<>>
       THEN inst_c2p' = [inst_c2p EXCEPT ![o] = <<o>>] /\ UNCHANGED failed
       ELSE failed' = TRUE /\ UNCHANGED inst_c2p
  /\ UNCHANGED <<keep_alive, cell, owned, pool, hold, frames>>

Constructed(t) ==
  /\ At(t, "construct")
  /\ LET o == op[t].obj IN
       /\ cell' = [cell EXCEPT ![o] = "live"]
       /\ inst' = [inst EXCEPT ![o].destruct = TRUE]
       /\ hold' = [hold EXCEPT ![t] = @ \cup {o}]
  /\ op' = [op EXCEPT ![t] = None]
  /\ UNCHANGED <<rc, inst_c2p, keep_alive, owned, pool, frames, failed>>

\* The constructor throws.
ConstructFails(t) ==
  /\ At(t, "construct")
  /\ DecRef(t, op[t].obj, <<>>)
  /\ op' = [op EXCEPT ![t] = None]
  /\ UNCHANGED <<inst, inst_c2p, keep_alive, cell, owned, pool, hold, failed>>

-----------------------------------------------------------------------------
(* nb_type_put: a pointer a of type tp is returned under a policy.         *)

Put(t, a, tp, pol, self) ==
  /\ pol \in Policy
  /\ Idle(t)
  /\ Serial => \A u \in Thread : op[u] # None => op[u].step = "construct"
  /\ op' = [op EXCEPT ![t] =
              [Call("lookup", tp, a) EXCEPT !.pol = pol, !.self = self]]
  /\ UNCHANGED <<inst, rc, inst_c2p, keep_alive, cell, owned, pool, hold, frames,
                 failed>>

\* What the program may return: an object it owns and gives away while nobody
\* else uses it, an object it owns and keeps, the first field of self, and a
\* pointer it wants the known wrapper of.
PutOwned(t, a, tp) ==
  /\ a \in owned /\ Wrappers(a) = {} /\ Passing(a) = {}
  /\ Field[tp] # None
  /\ Put(t, a, tp, "take_ownership", None)

PutReference(t, a, tp) ==
  /\ a \in owned /\ \A u \in Passing(a) : op[u].pol = "reference"
  /\ Field[tp] # None
  /\ Put(t, a, tp, "reference", None)

PutKnown(t, a, tp) ==
  /\ a \in owned
  /\ Field[tp] # None
  /\ Put(t, a, tp, "none", None)

PutField(t, self, pol) ==
  /\ self \in hold[t] /\ Field[inst[self].type] # None
  /\ pol = "reference_internal" \/ (pol = "none" /\ FindField)
  /\ Put(t, inst[self].addr, Field[inst[self].type], pol, self)

\* Mutant: Py_INCREF in the place of nb_try_inc_ref.
MatchesDying(a, tp) == {i \in DOMAIN inst_c2p[a] : inst[inst_c2p[a][i]].type = tp}

\* Mutant: only the first wrapper of the list is looked at.
MatchesFirst(a, tp) ==
  {i \in DOMAIN inst_c2p[a] :
     i = 1 /\ inst[inst_c2p[a][i]].type = tp /\ rc[inst_c2p[a][i]] > 0}

\* The first wrapper in the list that has the type and is not being released.
Matches(a, tp) ==
  {i \in DOMAIN inst_c2p[a] : inst[inst_c2p[a][i]].type = tp /\ rc[inst_c2p[a][i]] > 0}

PutFound(t) ==
  /\ At(t, "lookup")
  /\ LET hits == Matches(op[t].addr, op[t].type) IN
       /\ hits # {}
       /\ Receive(t, inst_c2p[op[t].addr][CHOOSE i \in hits : \A j \in hits : i <= j])
  /\ op' = [op EXCEPT ![t] = None]
  /\ UNCHANGED <<inst, inst_c2p, keep_alive, cell, owned, pool, frames, failed>>

\* The policy none only gives up at an address without any wrapper.
PutRefused(t) ==
  /\ At(t, "lookup") /\ op[t].pol = "none" /\ inst_c2p[op[t].addr] = <<>>
  /\ op' = [op EXCEPT ![t] = None]
  /\ UNCHANGED <<inst, rc, inst_c2p, keep_alive, cell, owned, pool, hold, frames,
                 failed>>

\* Mutant: the policy none does not give up.
PutMissedNone(t) ==
  /\ At(t, "lookup") /\ Matches(op[t].addr, op[t].type) = {}
  /\ Goto(t, "new")
  /\ UNCHANGED <<inst, rc, inst_c2p, keep_alive, cell, owned, pool, hold, frames,
                 failed>>

PutMissed(t) ==
  /\ At(t, "lookup") /\ Matches(op[t].addr, op[t].type) = {}
  /\ ~(op[t].pol = "none" /\ inst_c2p[op[t].addr] = <<>>)
  /\ Goto(t, "new")
  /\ UNCHANGED <<inst, rc, inst_c2p, keep_alive, cell, owned, pool, hold, frames,
                 failed>>

\* Mutant: reference_internal does not tie the field to its owner.
PutNewUnkept(t, o) ==
  /\ At(t, "new") /\ inst[o] = None
  /\ LET c == op[t] IN
       /\ inst' = [inst EXCEPT ![o] =
            [NewInst(c.type, c.addr) EXCEPT
               !.destruct = c.pol \notin {"reference", "reference_internal"},
               !.cpp_delete = c.pol = "take_ownership"]]
       /\ owned' = IF c.pol = "take_ownership" THEN owned \ {c.addr} ELSE owned
       /\ op' = [op EXCEPT ![t] = [c EXCEPT !.obj = o,
            !.step = "register"]]
  /\ rc' = [rc EXCEPT ![o] = 1]
  /\ UNCHANGED <<inst_c2p, keep_alive, cell, pool, hold, frames, failed>>

\* Mutant: a field is destructed with its wrapper.
PutNewOwning(t, o) ==
  /\ At(t, "new") /\ inst[o] = None
  /\ LET c == op[t] IN
       /\ inst' = [inst EXCEPT ![o] =
            [NewInst(c.type, c.addr) EXCEPT
               !.destruct = c.pol # "reference",
               !.cpp_delete = c.pol = "take_ownership"]]
       /\ owned' = IF c.pol = "take_ownership" THEN owned \ {c.addr} ELSE owned
       /\ op' = [op EXCEPT ![t] = [c EXCEPT !.obj = o,
            !.step = IF c.pol = "reference_internal" THEN "keep_alive" ELSE "register"]]
  /\ rc' = [rc EXCEPT ![o] = 1]
  /\ UNCHANGED <<inst_c2p, keep_alive, cell, pool, hold, frames, failed>>

\* inst_new_ext and the flags of nb_type_put_common.
PutNew(t, o) ==
  /\ At(t, "new") /\ inst[o] = None
  /\ LET c == op[t] IN
       /\ inst' = [inst EXCEPT ![o] =
            [NewInst(c.type, c.addr) EXCEPT
               !.destruct = c.pol \notin {"reference", "reference_internal"},
               !.cpp_delete = c.pol = "take_ownership"]]
       /\ owned' = IF c.pol = "take_ownership" THEN owned \ {c.addr} ELSE owned
       /\ op' = [op EXCEPT ![t] = [c EXCEPT !.obj = o,
            !.step = IF c.pol = "reference_internal" THEN "keep_alive" ELSE "register"]]
  /\ rc' = [rc EXCEPT ![o] = 1]
  /\ UNCHANGED <<inst_c2p, keep_alive, cell, pool, hold, frames, failed>>

\* Mutant: the nurse borrows its patient.
AddPatientBorrowed(nurse, patient) ==
  IF Contains(keep_alive[nurse], patient)
    THEN UNCHANGED <<keep_alive, rc, inst>>
    ELSE /\ keep_alive' = [keep_alive EXCEPT ![nurse] = Append(@, patient)]
         /\ inst' = [inst EXCEPT ![nurse].clear_keep_alive = TRUE]
         /\ UNCHANGED rc

\* keep_alive_py under the lock of the nurse's shard: a patient is listed once.
AddPatient(nurse, patient) ==
  IF Contains(keep_alive[nurse], patient)
    THEN UNCHANGED <<keep_alive, rc, inst>>
    ELSE /\ keep_alive' = [keep_alive EXCEPT ![nurse] = Append(@, patient)]
         /\ rc' = [rc EXCEPT ![patient] = @ + 1]
         /\ inst' = [inst EXCEPT ![nurse].clear_keep_alive = TRUE]

PutKeepAlive(t) ==
  /\ At(t, "keep_alive")
  /\ AddPatient(op[t].obj, op[t].self)
  /\ Goto(t, "register")
  /\ UNCHANGED <<inst_c2p, cell, owned, pool, hold, frames, failed>>

\* inst_register: append to the list of the address.
PutRegister(t) ==
  /\ At(t, "register")
  /\ LET c == op[t] IN
       /\ IF Contains(inst_c2p[c.addr], c.obj)
            THEN failed' = TRUE /\ UNCHANGED inst_c2p
            ELSE inst_c2p' = [inst_c2p EXCEPT ![c.addr] = Append(@, c.obj)]
                 /\ UNCHANGED failed
       /\ hold' = [hold EXCEPT ![t] = @ \cup {c.obj}]
  /\ op' = [op EXCEPT ![t] = None]
  /\ UNCHANGED <<inst, rc, keep_alive, cell, owned, pool, frames>>

\* A call annotated with nb::keep_alive, on two wrappers the caller holds.
KeepAlive(t, nurse, patient) ==
  /\ Idle(t) /\ {nurse, patient} \subseteq hold[t] /\ nurse # patient
  /\ AddPatient(nurse, patient)
  /\ UNCHANGED <<inst_c2p, cell, owned, pool, hold, op, frames, failed>>

-----------------------------------------------------------------------------
(* inst_dealloc: the innermost frame of t is at pc.                        *)

In(t, pc) == frames[t] # <<>> /\ Last(frames[t]).pc = pc
Self(t) == Last(frames[t]).obj
Continue(t, pc) ==
  frames' = [frames EXCEPT ![t] = Front(@) \o <<[Last(@) EXCEPT !.pc = pc]>>]

\* The C++ destructor, if the flag asks for it.
Destructor(o) ==
  cell' = IF inst[o].destruct THEN [cell EXCEPT ![inst[o].addr] = "raw"] ELSE cell

\* Fast path: destruct, then park the mapped wrapper or, if the pool is full,
\* release it without destructing again.
Recycle(t) ==
  /\ In(t, "recycle")
  /\ Destructor(Self(t))
  /\ Continue(t, "park")
  /\ UNCHANGED <<inst, rc, inst_c2p, keep_alive, owned, pool, hold, op, failed>>

\* Mutant: a wrapper that finds the pool full is forgotten.
ParkLost(t) ==
  /\ In(t, "park")
  /\ LET o == Self(t)  tp == inst[o].type IN
       /\ pool' = IF Len(pool[t][tp]) < PoolCap
                    THEN [pool EXCEPT ![t][tp] = Append(@, o)] ELSE pool
       /\ frames' = [frames EXCEPT ![t] = Front(@)]
  /\ UNCHANGED <<inst, rc, inst_c2p, keep_alive, cell, owned, hold, op, failed>>

Park(t) ==
  /\ In(t, "park")
  /\ LET o == Self(t)  tp == inst[o].type IN
       IF Len(pool[t][tp]) < PoolCap
         THEN /\ pool' = [pool EXCEPT ![t][tp] = Append(@, o)]
              /\ frames' = [frames EXCEPT ![t] = Front(@)]
              /\ UNCHANGED inst
         ELSE /\ inst' = [inst EXCEPT ![o].destruct = FALSE]
              /\ Continue(t, "unmap")
              /\ UNCHANGED pool
  /\ UNCHANGED <<rc, inst_c2p, keep_alive, cell, owned, hold, op, failed>>

Destruct(t) ==
  /\ In(t, "destruct")
  /\ Destructor(Self(t))
  /\ Continue(t, IF inst[Self(t)].cpp_delete THEN "delete" ELSE "unmap")
  /\ UNCHANGED <<inst, rc, inst_c2p, keep_alive, owned, pool, hold, op, failed>>

\* operator delete: the address may be handed out again from here on.
OperatorDelete(t) ==
  /\ In(t, "delete")
  /\ cell' = [cell EXCEPT ![inst[Self(t)].addr] = "free"]
  /\ Continue(t, "unmap")
  /\ UNCHANGED <<inst, rc, inst_c2p, keep_alive, owned, pool, hold, op, failed>>

\* Mutant: the wrapper stays in inst_c2p.
UnmapKept(t) ==
  /\ In(t, "unmap")
  /\ LET o == Self(t)
         a == inst[o].addr
         clear == inst[o].clear_keep_alive
     IN  IF Contains(inst_c2p[a], o) /\ (clear => keep_alive[o] # <<>>)
           THEN /\ UNCHANGED inst_c2p
                /\ keep_alive' = IF clear THEN [keep_alive EXCEPT ![o] = <<>>] ELSE keep_alive
                /\ frames' = [frames EXCEPT ![t] =
                     Front(@) \o <<[obj |-> o, pc |-> "release",
                                    patients |-> IF clear THEN keep_alive[o] ELSE <<>>]>>]
                /\ UNCHANGED failed
           ELSE failed' = TRUE /\ UNCHANGED <<inst_c2p, keep_alive, frames>>
  /\ UNCHANGED <<inst, rc, cell, owned, pool, hold, op>>

\* Mutant: removes all wrappers of the address.
UnmapAddress(t) ==
  /\ In(t, "unmap")
  /\ LET o == Self(t)
         a == inst[o].addr
         clear == inst[o].clear_keep_alive
     IN  IF Contains(inst_c2p[a], o) /\ (clear => keep_alive[o] # <<>>)
           THEN /\ inst_c2p' = [inst_c2p EXCEPT ![a] = <<>>]
                /\ keep_alive' = IF clear THEN [keep_alive EXCEPT ![o] = <<>>] ELSE keep_alive
                /\ frames' = [frames EXCEPT ![t] =
                     Front(@) \o <<[obj |-> o, pc |-> "release",
                                    patients |-> IF clear THEN keep_alive[o] ELSE <<>>]>>]
                /\ UNCHANGED failed
           ELSE failed' = TRUE /\ UNCHANGED <<inst_c2p, keep_alive, frames>>
  /\ UNCHANGED <<inst, rc, cell, owned, pool, hold, op>>

\* Mutant: leaves the keep_alive entry behind.
UnmapForgetful(t) ==
  /\ In(t, "unmap")
  /\ LET o == Self(t)
         a == inst[o].addr
         clear == inst[o].clear_keep_alive
     IN  IF Contains(inst_c2p[a], o) /\ (clear => keep_alive[o] # <<>>)
           THEN /\ inst_c2p' = [inst_c2p EXCEPT ![a] = RemoveFirst(@, o)]
                /\ UNCHANGED keep_alive
                /\ frames' = [frames EXCEPT ![t] =
                     Front(@) \o <<[obj |-> o, pc |-> "release",
                                    patients |-> IF clear THEN keep_alive[o] ELSE <<>>]>>]
                /\ UNCHANGED failed
           ELSE failed' = TRUE /\ UNCHANGED <<inst_c2p, keep_alive, frames>>
  /\ UNCHANGED <<inst, rc, cell, owned, pool, hold, op>>

\* Mutant: releases the first patient only.
UnmapOne(t) ==
  /\ In(t, "unmap")
  /\ LET o == Self(t)
         a == inst[o].addr
         clear == inst[o].clear_keep_alive
     IN  IF Contains(inst_c2p[a], o) /\ (clear => keep_alive[o] # <<>>)
           THEN /\ inst_c2p' = [inst_c2p EXCEPT ![a] = RemoveFirst(@, o)]
                /\ keep_alive' = IF clear THEN [keep_alive EXCEPT ![o] = <<>>] ELSE keep_alive
                /\ frames' = [frames EXCEPT ![t] =
                     Front(@) \o <<[obj |-> o, pc |-> "release",
                                    patients |-> IF clear THEN <<Head(keep_alive[o])>> ELSE <<>>]>>]
                /\ UNCHANGED failed
           ELSE failed' = TRUE /\ UNCHANGED <<inst_c2p, keep_alive, frames>>
  /\ UNCHANGED <<inst, rc, cell, owned, pool, hold, op>>

\* Under the shard lock: detach the patients and leave inst_c2p.
Unmap(t) ==
  /\ In(t, "unmap")
  /\ LET o == Self(t)
         a == inst[o].addr
         clear == inst[o].clear_keep_alive
     IN  IF Contains(inst_c2p[a], o) /\ (clear => keep_alive[o] # <<>>)
           THEN /\ inst_c2p' = [inst_c2p EXCEPT ![a] = RemoveFirst(@, o)]
                /\ keep_alive' = IF clear THEN [keep_alive EXCEPT ![o] = <<>>] ELSE keep_alive
                /\ frames' = [frames EXCEPT ![t] =
                     Front(@) \o <<[obj |-> o, pc |-> "release",
                                    patients |-> IF clear THEN keep_alive[o] ELSE <<>>]>>]
                /\ UNCHANGED failed
           ELSE failed' = TRUE /\ UNCHANGED <<inst_c2p, keep_alive, frames>>
  /\ UNCHANGED <<inst, rc, cell, owned, pool, hold, op>>

\* Py_DECREF of the next patient, whose own inst_dealloc may run inside.
ReleasePatient(t) ==
  /\ In(t, "release")
  /\ LET f == Last(frames[t]) IN
       /\ f.patients # <<>>
       /\ DecRef(t, Head(f.patients),
                 Front(frames[t]) \o <<[f EXCEPT !.patients = Tail(@)]>>)
  /\ UNCHANGED <<inst, inst_c2p, keep_alive, cell, owned, pool, hold, op, failed>>

FreeObject(t) ==
  /\ In(t, "release") /\ Last(frames[t]).patients = <<>>
  /\ inst' = [inst EXCEPT ![Self(t)] = None]
  /\ cell' = IF Internal(Self(t)) THEN [cell EXCEPT ![Self(t)] = "free"] ELSE cell
  /\ frames' = [frames EXCEPT ![t] = Front(@)]
  /\ UNCHANGED <<rc, inst_c2p, keep_alive, owned, pool, hold, op, failed>>

\* nb_pool_drain when a thread ends: one parked wrapper at a time is unmapped
\* and released.
Drain(t, tp) ==
  /\ Idle(t) /\ hold[t] = {} /\ tp \in Pooled /\ pool[t][tp] # <<>>
  /\ LET o == Head(pool[t][tp]) IN
       /\ pool' = [pool EXCEPT ![t][tp] = Tail(@)]
       /\ inst_c2p' = [inst_c2p EXCEPT ![o] = RemoveFirst(@, o)]
       /\ inst' = [inst EXCEPT ![o] = None]
       /\ cell' = [cell EXCEPT ![o] = "free"]
  /\ UNCHANGED <<rc, keep_alive, owned, hold, op, frames, failed>>

-----------------------------------------------------------------------------
Step(t) ==
  \/ Constructed(t) \/ ConstructFails(t)
  \/ PutFound(t) \/ PutRefused(t) \/ PutMissed(t)
  \/ PutKeepAlive(t) \/ PutRegister(t)
  \/ \E o \in Obj : PutNew(t, o)
  \/ Recycle(t) \/ Park(t) \/ Destruct(t) \/ OperatorDelete(t)
  \/ Unmap(t) \/ ReleasePatient(t) \/ FreeObject(t)

Program(t) ==
  \/ \E o \in Obj : Drop(t, o)
  \/ \E u \in Thread, o \in Obj : Share(t, u, o)
  \/ \E tp \in Type : NewPooled(t, tp) \/ Drain(t, tp)
  \/ \E tp \in Type, o \in Obj : NewInternal(t, tp, o)
  \/ \E a \in Heap, tp \in Type : 
       PutOwned(t, a, tp) \/ PutReference(t, a, tp) \/ PutKnown(t, a, tp)
  \/ \E o \in Obj, pol \in Policy : PutField(t, o, pol)
  \/ \E nurse, patient \in Obj : KeepAlive(t, nurse, patient)

Next ==
  /\ ~failed
  /\ \/ \E t \in Thread : Step(t) \/ Program(t)
     \/ \E a \in Heap : CppNew(a) \/ CppDelete(a)

Spec == Init /\ [][Next]_vars
FairSpec == Spec /\ \A t \in Thread : WF_vars(~failed /\ Step(t))
-----------------------------------------------------------------------------
(* Properties.                                                             *)

Frames(t) == {frames[t][i] : i \in DOMAIN frames[t]}
Dying(o, pcs) == \E t \in Thread : \E f \in Frames(t) : f.obj = o /\ f.pc \in pcs
Doing(o, steps) == \E t \in Thread : op[t] # None /\ op[t].obj = o /\ op[t].step \in steps
Parked(o) == \E t \in Thread, tp \in Pooled : Contains(pool[t][tp], o)
Registered(o) == Contains(inst_c2p[inst[o].addr], o)
Allocated == {o \in Obj : inst[o] # None}

TypeOK ==
  /\ inst \in [Obj -> Instance \cup {None}]
  /\ rc \in [Obj -> Nat]
  /\ inst_c2p \in [Addr -> Seq(Obj)]
  /\ keep_alive \in [Obj -> Seq(Obj)]
  /\ cell \in [Addr -> {"free", "raw", "live"}]
  /\ owned \subseteq Heap
  /\ pool \in [Thread -> [Pooled -> Seq(Obj)]]
  /\ hold \in [Thread -> SUBSET Obj]
  /\ op \in [Thread -> CallState \cup {None}]
  /\ frames \in [Thread -> Seq(Frame)]
  /\ failed \in BOOLEAN

\* A wrapper that Python can reach denotes a C++ object that is alive, whatever
\* releases, destructors and lookups of other threads are under way; a field
\* exposed by reference_internal lives as long as its wrapper.
NoDangling ==
  \A o \in Allocated :
    rc[o] > 0 /\ ~Doing(o, {"construct"}) => cell[inst[o].addr] = "live"

\* Every object is destructed at most once: one wrapper at most is going to run
\* the destructor of an object, which is then alive and not C++'s to delete.
SoleOwner ==
  \A o, p \in {x \in Allocated :
                 inst[x].destruct /\ (rc[x] > 0 \/ Dying(x, {"recycle", "destruct"}))} :
    /\ cell[inst[o].addr] = "live" /\ inst[o].addr \notin owned
    /\ inst[o].addr = inst[p].addr => o = p

\* inst_c2p knows exactly the wrappers between registration and removal: a lookup
\* never sees released memory, and a wrapper is found under its own address.
MapExact ==
  /\ \A a \in Addr : \A i, j \in DOMAIN inst_c2p[a] :
       /\ inst_c2p[a][i] \in Allocated /\ inst[inst_c2p[a][i]].addr = a
       /\ inst_c2p[a][i] = inst_c2p[a][j] => i = j
  /\ \A o \in Allocated :
       Registered(o) <=> ~Doing(o, {"keep_alive", "register"}) /\ ~Dying(o, {"release"})

\* None of the check() calls fires that abort on a colliding, unknown, duplicate
\* or inconsistent entry.
NoFailure == ~failed

\* Patients live while they have a nurse, and a nurse knows that it has some.
PatientsAlive ==
  \A nurse \in Obj :
    /\ keep_alive[nurse] # <<>> <=> nurse \in Allocated /\ inst[nurse].clear_keep_alive
                                      /\ ~Dying(nurse, {"release"})
    /\ \A i \in DOMAIN keep_alive[nurse] : rc[keep_alive[nurse][i]] > 0

Holders(o) == {t \in Thread : o \in hold[t]}
Nurses(o) == {n \in Obj : Contains(keep_alive[n], o)}
Makers(o) == {t \in Thread : op[t] # None /\ op[t].obj = o}
Releases(o) ==
  {r \in Thread \X Obj : \E f \in Frames(r[1]) : f.obj = r[2] /\ Contains(f.patients, o)}

\* No reference is leaked or dropped twice: every wrapper is counted once for
\* every holder, every nurse, every release that is on its way and the call
\* that is creating it.
RefsAccounted ==
  \A o \in Obj :
    rc[o] = Cardinality(Holders(o)) + Cardinality(Nurses(o))
          + Cardinality(Makers(o)) + Cardinality(Releases(o))

\* Object identity (GIL builds): Python never sees two wrappers of one type for
\* one object.
OneWrapper ==
  \A o, p \in Allocated :
    rc[o] > 0 /\ rc[p] > 0 /\ <<inst[o].addr, inst[o].type>> = <<inst[p].addr, inst[p].type>>
      => o = p

\* Pools hold dead wrappers, each in one place, that nothing else refers to.
PoolsSound ==
  \A t \in Thread, tp \in Pooled :
    /\ Len(pool[t][tp]) <= PoolCap
    /\ \A i \in DOMAIN pool[t][tp] :
         LET o == pool[t][tp][i] IN
         /\ o \in Allocated /\ rc[o] = 0 /\ Internal(o) /\ cell[o] # "live"
         /\ ~Dying(o, {"recycle", "park", "destruct", "delete", "unmap", "release"})
         /\ \A u \in Thread, tq \in Pooled : \A j \in DOMAIN pool[u][tq] :
              pool[u][tq][j] = o => <<u, tq, j>> = <<t, tp, i>>

\* A wrapper whose last reference is gone is never handed out again, unless it
\* went through the pool.
NoResurrection ==
  [][\A o \in Allocated : rc[o] = 0 /\ rc'[o] > 0 => Parked(o)]_vars

\* inst_dealloc gets to its end, through every patient it releases in turn.
Released ==
  \A o \in Obj :
    (inst[o] # None /\ rc[o] = 0) ~> (inst[o] = None \/ Parked(o) \/ rc[o] > 0 \/ failed)

\* rv_policy::none: "it simply refuses the cast unless the C++ instance already
\* has a corresponding Python object" (docs/ownership.rst).
NoneRefuses ==
  \A t \in Thread : op[t] # None /\ op[t].pol = "none" => op[t].obj = None
=============================================================================
