--------------------------- MODULE NdarrayHandle ---------------------------
(* Ownership of n-dimensional arrays (nb_ndarray.cpp, ndarray.h).  A handle is *)
(* counted by nb::ndarray objects of C++, by nb_ndarray objects of Python and  *)
(* by DLPack capsules; it holds the owner of the memory or the Python array it *)
(* came from.  A managed tensor is deleted by whoever consumed its capsule.    *)
(* Python deallocates an object, and nanobind a handle, when its count is zero.*)
EXTENDS Integers, FiniteSets

CONSTANTS Handle, Tensor, Obj, None, MaxCopies

VARIABLES handle,   \* ndarray_handle structures
          tensor,   \* managed_dltensor structures
          obj,      \* Python objects: data owners, nb_ndarray, capsules, foreign views
          refs,     \* their reference counts
          held,     \* objects that the Python program refers to
          import,   \* a call of ndarray_import() under way
          aborted   \* did a reference count become negative?

ndarrayVars == <<handle, tensor, obj, refs, held, import, aborted>>

NoHandle == [rc |-> 0, cpp |-> 0, owner |-> None, self |-> None, t |-> None,
             call_deleter |-> FALSE, lent |-> FALSE]
NoTensor == [ctx |-> None, data |-> None]
NoObj == [kind |-> "none", h |-> None, t |-> None, base |-> None]
NoImport == [src |-> None, capsule |-> None, t |-> None]

Init == /\ handle = [h \in Handle |-> NoHandle] /\ tensor = [t \in Tensor |-> NoTensor]
        /\ obj = [o \in Obj |-> NoObj] /\ refs = [o \in Obj |-> 0]
        /\ held = {} /\ import = NoImport /\ aborted = FALSE

Free(o) == obj[o] = NoObj /\ refs[o] = 0
Unused(h) == handle[h] = NoHandle
Data(h) == tensor[handle[h].t].data
Own(h) == tensor[handle[h].t].ctx = h        \* nanobind's own managed tensor
Unowned(h) == handle[h].owner = None /\ handle[h].self = None
Count(b) == IF b THEN 1 ELSE 0

(* The objects in ups gain a reference and those in downs lose one.            *)
Refer(ups, downs) ==
    refs' = [o \in Obj |-> refs[o] + Count(o \in ups) - Count(o \in downs)]

(* The deleter of a managed tensor: it releases the producer or the handle, and*)
(* only a handle's own tensor lives on.                                        *)
Deleted(t, gone) == [x \in Tensor |->
    IF x \in gone \/ (x = t /\ ~\E h \in Handle : handle[h].t = t /\ tensor[t].ctx = h)
    THEN NoTensor ELSE tensor[x]]
Released(hs, h) == IF h \in Handle THEN [hs EXCEPT ![h].rc = @ - 1] ELSE hs
Underflow(h) == h \in Handle /\ handle[h].rc = 0

(* A Python object that owns memory: a foreign array, an owner, a class.       *)
NewData(o) ==
    /\ Free(o)
    /\ obj' = [obj EXCEPT ![o].kind = "data"]
    /\ Refer({o}, {}) /\ held' = held \cup {o}
    /\ UNCHANGED <<handle, tensor, import, aborted>>
Drop(o) ==
    /\ o \in held /\ o # import.src
    /\ held' = held \ {o} /\ Refer({}, {o})
    /\ UNCHANGED <<handle, tensor, obj, import, aborted>>

(* ndarray_create(): memory of d, with d as the owner or without owner.        *)
Create(h, t, d, owner) ==
    /\ Unused(h) /\ tensor[t] = NoTensor /\ obj[d].kind = "data" /\ d \in held
    /\ owner \in {d, None}
    /\ handle' = [handle EXCEPT ![h] = [NoHandle EXCEPT !.rc = 1, !.cpp = 1, !.owner = owner, !.t = t]]
    /\ tensor' = [tensor EXCEPT ![t] = [ctx |-> h, data |-> d]]
    /\ Refer({owner}, {})
    /\ UNCHANGED <<obj, held, import, aborted>>

(* C++ copies and destroys nb::ndarray objects.                                *)
CopyArray(h) ==
    /\ handle[h].cpp \in 1 .. (MaxCopies - 1)
    /\ handle' = [handle EXCEPT ![h].rc = @ + 1, ![h].cpp = @ + 1]
    /\ UNCHANGED <<tensor, obj, refs, held, import, aborted>>
DropArray(h) ==
    /\ handle[h].cpp > 0
    /\ handle' = [handle EXCEPT ![h].rc = @ - 1, ![h].cpp = @ - 1]
    /\ aborted' = Underflow(h)
    /\ UNCHANGED <<tensor, obj, refs, held, import>>

\* Mutant: the owner is not released.
KeptForget(h) == {handle[h].self}
Kept(h) == {handle[h].owner, handle[h].self}

(* ndarray_dec_ref_free(): an imported tensor is given back to its producer.   *)
FreeHandle(h) ==
    LET t == handle[h].t
        ctx == tensor[t].ctx
        del == handle[h].call_deleter
    IN  /\ ~Unused(h) /\ handle[h].rc = 0
        /\ handle' = [Released(handle, IF del THEN ctx ELSE None) EXCEPT ![h] = NoHandle]
        /\ tensor' = Deleted(t, IF del THEN {} ELSE {t})
        /\ refs' = [o \in Obj |-> refs[o] - Count(o \in Kept(h)) - Count(del /\ o = ctx)]
        /\ aborted' = (del /\ Underflow(ctx))
        /\ UNCHANGED <<obj, held, import>>

\* Mutant: a reference to a handle is not counted.
CountedNever(h) == handle
Counted(h) == [handle EXCEPT ![h].rc = @ + 1]

(* make_capsule(): the handle's own tensor, which is a versioned one, can be   *)
(* shared by any number of capsules; other tensors are wrapped.                *)
Reusable(h, versioned) == versioned /\ Own(h)
MakeCapsule(h, versioned, c, t) ==
    LET old == handle[h].t
    IN  /\ Free(c)
        /\ IF Reusable(h, versioned) THEN t = old /\ UNCHANGED tensor
           ELSE /\ tensor[t] = NoTensor
                /\ tensor' = [tensor EXCEPT ![t] = [ctx |-> h, data |-> tensor[old].data]]
        /\ obj' = [obj EXCEPT ![c] = [NoObj EXCEPT !.kind = "capsule", !.t = t]]
        /\ handle' = Counted(h)

\* Mutant: a view of memory that nobody owns is returned.
NeedsCopyNever(h, policy) == policy = "copy"

(* ndarray_export(): which policies copy.  reference_internal first makes the  *)
(* object that the method was called on the owner, or fails.                   *)
NeedsCopy(h, policy) == policy = "copy" \/ (policy = "automatic" /\ Unowned(h))
Adopted(h, policy) == IF policy = "reference_internal" /\ Unowned(h) THEN {Data(h)} ELSE {}
Exportable(h, policy) ==
    /\ handle[h].cpp > 0 /\ obj[Data(h)].kind = "data"
    /\ policy = "reference_internal" => handle[h].owner \in {Data(h), None}

(* The array that was imported is returned itself.                             *)
ExportSelf(h, policy) ==
    /\ Exportable(h, policy) /\ ~NeedsCopy(h, policy) /\ handle[h].self # None
    /\ held' = held \cup {handle[h].self}
    /\ Refer({handle[h].self} \ held, {})
    /\ UNCHANGED <<handle, tensor, obj, import, aborted>>

(* A framework makes a copy of a temporary view, that nothing refers to later. *)
ExportCopy(h, policy, o) ==
    /\ Exportable(h, policy) /\ NeedsCopy(h, policy) /\ Free(o)
    /\ obj' = [obj EXCEPT ![o].kind = "data"] /\ held' = held \cup {o} /\ Refer({o}, {})
    /\ UNCHANGED <<handle, tensor, import, aborted>>

(* An nb_ndarray, which implements the buffer and DLPack protocols, or a raw   *)
(* capsule for the program.                                                    *)
ExportView(h, policy, o) ==
    /\ Exportable(h, policy) /\ ~NeedsCopy(h, policy) /\ handle[h].self = None /\ Free(o)
    /\ handle' = [Counted(h) EXCEPT ![h].lent = @ \/ (policy = "reference" /\ Unowned(h)),
                     ![h].owner = IF Adopted(h, policy) = {} THEN @ ELSE Data(h)]
    /\ obj' = [obj EXCEPT ![o] = [NoObj EXCEPT !.kind = "array", !.h = h]]
    /\ held' = held \cup {o} /\ Refer({o} \cup Adopted(h, policy), {})
    /\ UNCHANGED <<tensor, import, aborted>>
Dlpack(o, versioned, c, t) ==
    /\ o \in held /\ obj[o].kind = "array"
    /\ MakeCapsule(obj[o].h, versioned, c, t)
    /\ held' = held \cup {c} /\ Refer({c}, {})
    /\ UNCHANGED <<import, aborted>>

(* A framework consumes a capsule, or views memory through the buffer protocol.*)
Consume(c) ==
    /\ c \in held /\ obj[c].kind = "capsule"
    /\ obj' = [obj EXCEPT ![c].kind = "view"]
    /\ UNCHANGED <<handle, tensor, refs, held, import, aborted>>
GetBuffer(o, v) ==
    /\ o \in held /\ obj[o].kind = "array" /\ Free(v)
    /\ obj' = [obj EXCEPT ![v] = [NoObj EXCEPT !.kind = "view", !.base = o]]
    /\ held' = held \cup {v} /\ Refer({v, o}, {})
    /\ UNCHANGED <<handle, tensor, import, aborted>>

(* ndarray_import() of a foreign array: it exports a capsule c, or a buffer    *)
(* that only the tensor t refers to.                                           *)
BeginForeign(o, c, t) ==
    /\ import = NoImport /\ o \in held /\ obj[o].kind = "data" /\ tensor[t] = NoTensor
    /\ tensor' = [tensor EXCEPT ![t] = [ctx |-> o, data |-> o]]
    /\ c # None => Free(c)
    /\ obj' = IF c = None THEN obj ELSE [obj EXCEPT ![c] = [NoObj EXCEPT !.kind = "capsule", !.t = t]]
    /\ Refer({o, c}, {})
    /\ import' = [src |-> o, capsule |-> c, t |-> t]
    /\ UNCHANGED <<handle, held, aborted>>

(* The same of an nb_ndarray, by way of its __dlpack__().                      *)
BeginOwn(o, versioned, c, t) ==
    /\ import = NoImport /\ o \in held /\ obj[o].kind = "array"
    /\ MakeCapsule(obj[o].h, versioned, c, t)
    /\ Refer({c}, {})
    /\ import' = [src |-> o, capsule |-> c, t |-> t]
    /\ UNCHANGED <<held, aborted>>

\* Mutant: the destructor of the producer's capsule stays.
NeutralizedNever(c) == obj

(* The capsule's destructor is cleared; a capsule of the user is renamed, too. *)
Neutralized(c) == IF c = None THEN obj ELSE [obj EXCEPT ![c].kind = "used"]

(* A handle for the tensor keeps the source.                                   *)
Wrapped(h, t, src) == [handle EXCEPT ![h] =
    [NoHandle EXCEPT !.rc = 1, !.cpp = 1, !.self = src, !.t = t, !.call_deleter = TRUE]]
Accept(h) ==
    /\ import # NoImport /\ Unused(h)
    /\ handle' = Wrapped(h, import.t, import.src)
    /\ obj' = Neutralized(import.capsule)
    /\ Refer({import.src}, {import.capsule})
    /\ import' = NoImport
    /\ UNCHANGED <<tensor, held, aborted>>
Reject ==
    /\ import # NoImport
    /\ IF import.capsule # None THEN Refer({}, {import.capsule}) /\ UNCHANGED tensor
       ELSE Refer({}, {import.src}) /\ tensor' = Deleted(import.t, {})
    /\ import' = NoImport
    /\ UNCHANGED <<handle, obj, held, aborted>>
ImportCapsule(h, c) ==
    /\ import = NoImport /\ c \in held /\ obj[c].kind = "capsule" /\ Unused(h)
    /\ handle' = Wrapped(h, obj[c].t, None)
    /\ obj' = Neutralized(c)
    /\ UNCHANGED <<tensor, refs, held, import, aborted>>

(* The last reference to an object goes.  A capsule that was not consumed and a*)
(* view delete their tensor.                                                   *)
Dealloc(o) ==
    LET x == obj[o]
        t == IF x.kind \in {"capsule", "view"} THEN x.t ELSE None
        ctx == IF t = None THEN None ELSE tensor[t].ctx
        h == IF x.kind = "array" THEN x.h ELSE ctx
    IN  /\ x # NoObj /\ refs[o] = 0
        /\ obj' = [obj EXCEPT ![o] = NoObj]
        /\ tensor' = Deleted(t, {})
        /\ handle' = Released(handle, h)
        /\ aborted' = Underflow(h)
        /\ Refer({}, {ctx, x.base})
        /\ UNCHANGED <<held, import>>

Policy == {"automatic", "copy", "reference", "reference_internal"}
Next == /\ ~aborted
        /\ \/ \E o \in Obj : NewData(o) \/ Drop(o) \/ Consume(o) \/ Dealloc(o)
           \/ \E h \in Handle : CopyArray(h) \/ DropArray(h) \/ FreeHandle(h) \/ Accept(h)
           \/ \E h \in Handle, t \in Tensor, d \in Obj, owner \in Obj \cup {None} : Create(h, t, d, owner)
           \/ \E h \in Handle, p \in Policy : ExportSelf(h, p)
           \/ \E h \in Handle, p \in Policy, o \in Obj : ExportCopy(h, p, o) \/ ExportView(h, p, o)
           \/ \E o \in Obj, c \in Obj : GetBuffer(o, c)
           \/ \E o \in Obj, c \in Obj \cup {None}, t \in Tensor : BeginForeign(o, c, t)
           \/ \E o \in Obj, v \in BOOLEAN, c \in Obj, t \in Tensor : Dlpack(o, v, c, t) \/ BeginOwn(o, v, c, t)
           \/ \E h \in Handle, c \in Obj : ImportCapsule(h, c)
           \/ Reject
Spec == Init /\ [][Next]_ndarrayVars

-----------------------------------------------------------------------------

(* Who will call the deleter of a tensor: capsules, consumers, handles.        *)
Claims(t) == {o \in Obj : obj[o].kind \in {"capsule", "view"} /\ obj[o].t = t}
             \cup {h \in Handle : handle[h].t = t /\ handle[h].call_deleter}
             \cup (IF import.capsule = None /\ import.t = t THEN {import} ELSE {})

TypeOK == /\ held \subseteq Obj /\ refs \in [Obj -> Nat]
          /\ \A h \in Handle : handle[h].t \in Tensor \cup {None}
          /\ \A o \in Obj : obj[o].kind \in {"none", "data", "array", "capsule", "used", "view"}

(* The count of a handle is the number of those who will decrease it, and      *)
(* ndarray_dec_ref() never finds a count of zero.                              *)
HandleCount == ~aborted /\ \A h \in Handle : ~Unused(h) =>
    handle[h].rc = handle[h].cpp + Cardinality({o \in Obj : obj[o].kind = "array" /\ obj[o].h = h})
        + Cardinality(UNION {Claims(t) : t \in {x \in Tensor : tensor[x].ctx = h}})

(* A tensor that somebody is going to delete exists, only the own tensor of a  *)
(* handle has several such, and its memory has not been freed unless the C++   *)
(* code insisted on a reference.                                               *)
Backed == \A t \in Tensor : Claims(t) # {} =>
    LET ctx == tensor[t].ctx
    IN  /\ tensor[t] # NoTensor
        /\ Cardinality(Claims(t)) > 1 => ctx \in Handle /\ handle[ctx].t = t
        /\ \/ obj[tensor[t].data].kind = "data"
           \/ ctx \in Handle /\ handle[ctx].lent

(* The same for an nb_ndarray that Python code can see.                        *)
ViewsBacked == \A o \in held : obj[o].kind = "array" =>
    \/ obj[Data(obj[o].h)].kind = "data"
    \/ handle[obj[o].h].lent

(* Reference counts of Python objects are exact, so nothing leaks and nothing  *)
(* is freed early once the program lets go.                                    *)
ArrayRefsExact == \A o \in Obj : refs[o] = Count(o \in held)
    + Cardinality({h \in Handle : handle[h].owner = o}) + Cardinality({h \in Handle : handle[h].self = o})
    + Cardinality({t \in Tensor : tensor[t].ctx = o}) + Cardinality({v \in Obj : obj[v].base = o})
    + Count(import.capsule = o)
=============================================================================
