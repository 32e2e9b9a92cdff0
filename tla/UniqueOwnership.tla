--------------------------- MODULE UniqueOwnership ---------------------------
(* Transfer of ownership between Python and std::unique_ptr (nb_type.cpp and    *)
(* stl/unique_ptr.h): a wrapper hands its object to C++ and is unusable until   *)
(* it gets the object back.  C++ pointers use the default deleter, which        *)
(* deletes the object, or nb::deleter, which holds a reference to the wrapper.  *)
(*                                                                              *)
(* An object is named by its address: that of a heap object, or the wrapper     *)
(* that stores it.  Heap addresses are reused.                                  *)
EXTENDS Naturals, Sequences, FiniteSets, Functions

CONSTANTS Heap, Inst,
          Slot,     \* C++ variables of type std::unique_ptr
          Nil,
          Alias     \* do functions return references to objects that C++ owns?

VARIABLES alive,    \* the objects that exist
          wrap,     \* the nanobind instances
          ptrs,     \* what each C++ variable holds
          held,     \* instances that the Python program refers to
          call,     \* a call that passes unique pointers
          aborted

ownershipVars == <<alive, wrap, ptrs, held, call, aborted>>

NoInst == [st |-> "none", addr |-> Nil, destruct |-> FALSE, cpp_delete |-> FALSE]
NoPtr == [addr |-> Nil, by |-> Nil]
Cpp == "cpp"
NoCall == [pc |-> "idle", args |-> <<>>, nb |-> FALSE, nested |-> FALSE, i |-> 0]

Init == /\ alive = {} /\ wrap = [w \in Inst |-> NoInst]
        /\ ptrs = [p \in Slot |-> NoPtr] /\ held = {}
        /\ call = NoCall /\ aborted = FALSE

At(a) == {w \in Inst : wrap[w].addr = a}
Pinned(w, h, q) == w \in h \/ \E p \in Slot : q[p].by = w

(* The last reference to an instance goes: it destroys what it owns.            *)
Swept(wr, h, q) == [w \in Inst |-> IF Pinned(w, h, q) THEN wr[w] ELSE NoInst]
Destroyed(wr, h, q) == {wr[w].addr : w \in {v \in Inst : wr[v].destruct /\ ~Pinned(v, h, q)}}
Sweep(live, wr, h, q) ==
    /\ wrap' = Swept(wr, h, q) /\ held' = h /\ ptrs' = q
    /\ alive' = live \ Destroyed(wr, h, q)

(* Python constructs an object; C++ code makes one.                             *)
Construct(w) ==
    /\ wrap[w] = NoInst
    /\ wrap' = [wrap EXCEPT ![w] = [st |-> "ready", addr |-> w, destruct |-> TRUE, cpp_delete |-> FALSE]]
    /\ alive' = alive \cup {w} /\ held' = held \cup {w}
    /\ UNCHANGED <<ptrs, call, aborted>>
Make(p, a) ==
    /\ ptrs[p] = NoPtr /\ a \notin alive
    /\ ptrs' = [ptrs EXCEPT ![p] = [addr |-> a, by |-> Cpp]]
    /\ alive' = alive \cup {a}
    /\ UNCHANGED <<wrap, held, call, aborted>>

(* The program drops a reference to an instance; a C++ pointer is destroyed.    *)
Drop(w) ==
    /\ w \in held /\ w \notin Range(call.args)
    /\ Sweep(alive, wrap, held \ {w}, ptrs)
    /\ UNCHANGED <<call, aborted>>
Deleted(p) == IF ptrs[p].by = Cpp THEN alive \ {ptrs[p].addr} ELSE alive
Delete(p) ==
    /\ ptrs[p] # NoPtr
    /\ Sweep(Deleted(p), wrap, held, [ptrs EXCEPT ![p] = NoPtr])
    /\ UNCHANGED <<call, aborted>>

(* A bound function returns a reference to an object that a pointer owns: the   *)
(* wrapper that exists, or a new one that does not own the object.              *)
Refer(p, w) ==
    LET a == ptrs[p].addr
    IN  /\ ptrs[p] # NoPtr
        /\ IF At(a) # {} THEN w \in At(a) ELSE Alias /\ wrap[w] = NoInst
        /\ wrap' = IF At(a) # {} THEN wrap
                   ELSE [wrap EXCEPT ![w] = [NoInst EXCEPT !.st = "ready", !.addr = a]]
        /\ held' = held \cup {w}
        /\ UNCHANGED <<alive, ptrs, call, aborted>>

(* The checks of nb_type_put_unique_finalize() on an instance that exists.      *)
Finalizable(w, cpp_delete) ==
    /\ wrap[w].st = "relinquished"
    /\ cpp_delete => ~wrap[w].destruct /\ ~wrap[w].cpp_delete
Owning(w, cpp_delete) == [wrap EXCEPT ![w].st = "ready",
    ![w].destruct = @ \/ cpp_delete, ![w].cpp_delete = @ \/ cpp_delete]

(* A bound function returns a unique_ptr: from_cpp() and nb_type_put_unique().  *)
(* The process ends when the flags of the instance are not the expected ones.   *)
Return(p, w) ==
    LET a == ptrs[p].addr
        byCpp == ptrs[p].by = Cpp
    IN  /\ ptrs[p] # NoPtr
        /\ \/ /\ w \in At(a)
              /\ aborted' = ~Finalizable(w, byCpp)
              /\ IF Finalizable(w, byCpp)
                   THEN Sweep(alive, Owning(w, byCpp), held \cup {w}, [ptrs EXCEPT ![p] = NoPtr])
                   ELSE UNCHANGED <<alive, wrap, ptrs, held>>
           \/ /\ At(a) = {} /\ wrap[w] = NoInst /\ byCpp
              /\ Sweep(alive, [wrap EXCEPT ![w] =
                    [st |-> "ready", addr |-> a, destruct |-> TRUE, cpp_delete |-> TRUE]],
                    held \cup {w}, [ptrs EXCEPT ![p] = NoPtr])
              /\ UNCHANGED aborted
        /\ UNCHANGED call

\* Mutant: an object stored in the instance is handed to C++ like any other.
RelinquishableAny(w) == wrap[w].st = "ready"

(* nb_type_relinquish_ownership(): only what C++ allocated can be deleted there.*)
Relinquishable(w) == wrap[w].st = "ready" /\
    (~call.nb => wrap[w].cpp_delete /\ wrap[w].destruct /\ wrap[w].addr # w)

\* Mutant: the instance stays usable.
RelinquishedReady(wr, w) == [wr EXCEPT ![w].destruct = @ /\ call.nb, ![w].cpp_delete = @ /\ call.nb]

\* Mutant: the flags are kept.
RelinquishedKeep(wr, w) == [wr EXCEPT ![w].st = "relinquished"]
Relinquished(wr, w) == [wr EXCEPT ![w].st = "relinquished",
    ![w].destruct = @ /\ call.nb, ![w].cpp_delete = @ /\ call.nb]

\* Mutant: the ownership flags are not restored.
RestoredPartly(wr, w) == [wr EXCEPT ![w].st = "ready"]

(* nb_type_restore_ownership().                                                 *)
Restored(wr, w) == [wr EXCEPT ![w].st = "ready",
    ![w].destruct = @ \/ ~call.nb, ![w].cpp_delete = @ \/ ~call.nb]

(* A call with unique_ptr parameters, direct or nested in a container.  The     *)
(* casters first look at every argument (nb_type_get()), which must be ready.   *)
Begin(args, nb, nested) ==
    /\ call = NoCall /\ Range(args) \subseteq held
    /\ \A w \in Range(args) : wrap[w].st = "ready"
    /\ call' = [pc |-> "cast", args |-> args, nb |-> nb, nested |-> nested, i |-> 1]
    /\ UNCHANGED <<alive, wrap, ptrs, held, aborted>>
Arg == call.args[call.i]
Casting == call.pc = "cast" /\ call.i <= Len(call.args)

(* A direct parameter is cast right away: relinquish, then a pointer exists.    *)
Pointer(w) == [addr |-> wrap[w].addr, by |-> IF call.nb THEN w ELSE Cpp]
CastDirect(p) ==
    /\ Casting /\ ~call.nested /\ Relinquishable(Arg) /\ ptrs[p] = NoPtr
    /\ wrap' = Relinquished(wrap, Arg)
    /\ ptrs' = [ptrs EXCEPT ![p] = Pointer(Arg)]
    /\ call' = [call EXCEPT !.i = @ + 1]
    /\ UNCHANGED <<alive, held, aborted>>

(* Inside a container, can_cast() relinquishes, and the pointers are made once  *)
(* all elements can be cast; otherwise the casters restore what is in flight.   *)
CanCast ==
    /\ Casting /\ call.nested /\ Relinquishable(Arg)
    /\ wrap' = Relinquished(wrap, Arg)
    /\ call' = [call EXCEPT !.i = @ + 1]
    /\ UNCHANGED <<alive, ptrs, held, aborted>>
InFlight == IF call.nested THEN {call.args[j] : j \in 1 .. (call.i - 1)} ELSE {}

(* next_overload: a direct call destroys the pointers it made before.           *)
Made == {p \in Slot : ptrs[p] # NoPtr /\ \E j \in 1 .. (call.i - 1) : ptrs[p] = Pointer(call.args[j])}
Refused ==
    /\ Casting /\ ~Relinquishable(Arg)
    /\ IF call.nested
         THEN /\ wrap' = [w \in Inst |-> IF w \in InFlight THEN Restored(wrap, w)[w] ELSE wrap[w]]
              /\ UNCHANGED <<alive, ptrs, held>>
         ELSE Sweep(alive \ {ptrs[p].addr : p \in {q \in Made : ptrs[q].by = Cpp}}, wrap, held,
                    [p \in Slot |-> IF p \in Made THEN NoPtr ELSE ptrs[p]])
    /\ call' = [call EXCEPT !.pc = "failed"]
    /\ UNCHANGED aborted
Ready(f) == \A j \in DOMAIN call.args : ptrs[f[j]] = NoPtr
Succeed(f) ==
    /\ call.pc = "cast" /\ call.i > Len(call.args)
    /\ IF call.nested
         THEN /\ Ready(f) /\ IsInjective(f)
              /\ ptrs' = [p \in Slot |-> IF p \in Range(f)
                            THEN Pointer(call.args[CHOOSE j \in DOMAIN f : f[j] = p]) ELSE ptrs[p]]
         ELSE UNCHANGED ptrs
    /\ call' = NoCall
    /\ UNCHANGED <<alive, wrap, held, aborted>>
Fail == call.pc = "failed" /\ call' = NoCall /\ UNCHANGED <<alive, wrap, ptrs, held, aborted>>

Next == /\ ~aborted
        /\ \/ \E w \in Inst : Construct(w) \/ Drop(w)
           \/ \E p \in Slot : Delete(p) \/ CastDirect(p)
           \/ \E p \in Slot, a \in Heap : Make(p, a)
           \/ \E p \in Slot, w \in Inst : Refer(p, w) \/ Return(p, w)
           \/ \E u \in Inst, v \in Inst, nb \in BOOLEAN, nested \in BOOLEAN : Begin(<<u, v>>, nb, nested)
           \/ CanCast \/ Refused \/ Fail
           \/ \E p \in Slot, q \in Slot : Succeed(<<p, q>>)
Spec == Init /\ [][Next]_ownershipVars

-----------------------------------------------------------------------------

Instance == [st : {"none", "ready", "relinquished"}, addr : Heap \cup Inst \cup {Nil},
             destruct : BOOLEAN, cpp_delete : BOOLEAN]
UniquePtr == [addr : Heap \cup Inst \cup {Nil}, by : Inst \cup {Cpp, Nil}]
Call == [pc : {"idle", "cast", "failed"}, args : Seq(Inst), nb : BOOLEAN, nested : BOOLEAN, i : 0..3]
TypeOK == /\ alive \subseteq Heap \cup Inst /\ held \subseteq Inst
          /\ wrap \in [Inst -> Instance] /\ ptrs \in [Slot -> UniquePtr]
          /\ call \in Call /\ aborted \in BOOLEAN

(* Every object has exactly one owner that will destroy it: a pointer with the  *)
(* default deleter, an instance, or a call in progress; what is dead has none.  *)
Owners(a) == {p \in Slot : ptrs[p] = [addr |-> a, by |-> Cpp]}
             \cup {w \in Inst : wrap[w].addr = a /\ (wrap[w].destruct \/ w \in InFlight)}
OneOwner == \A a \in Heap \cup Inst :
    Cardinality(Owners(a)) = IF a \in alive THEN 1 ELSE 0

(* An instance that Python can use has an object, to which no C++ pointer       *)
(* refers: unique ownership is unique across the two languages.                 *)
ReadyExclusive == \A w \in Inst : wrap[w].st = "ready" =>
    /\ wrap[w].addr \in alive
    /\ ~Alias => \A p \in Slot : ptrs[p].addr # wrap[w].addr

(* A call that could not pass all elements of a container leaves the arguments  *)
(* usable, as if it had not been tried.                                         *)
FailedCallGivesBack == (call.pc = "failed" /\ call.nested) =>
    \A w \in Range(call.args) : wrap[w].st = "ready" /\ wrap[w].destruct

(* Returning a unique_ptr always works: no check of the flags fails.            *)
ReturnWorks == ~aborted
=============================================================================
