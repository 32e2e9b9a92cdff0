---------------------------- MODULE FuncDispatch ----------------------------
(* Overloaded functions (nb_func.cpp): how a chain of overloads is built, how   *)
(* its dispatcher is chosen, and how a call picks an overload, converts the     *)
(* arguments, runs the body and reports the outcome.  A call never overlaps a   *)
(* definition.                                                                  *)
(*                                                                              *)
(* An argument is one of three kinds: "a", "b" (which a parameter for "a" takes *)
(* only by an implicit conversion, through a temporary) and "none".             *)
EXTENDS Naturals, Sequences, FiniteSets, SequencesExt, FiniteSetsExt

CONSTANTS Shape,       \* overloads: see Shapes below
          PosArgs,     \* positional arguments of the calls, sequences of kinds
          KwArgs,      \* keyword arguments of the calls, functions from names to kinds
          MaxSimple,   \* NB_MAXARGS_SIMPLE
          MaxOverloads

VARIABLES chain,       \* the overloads: a shape and what the body does
          complexity,  \* which dispatcher the chain needs
          call,        \* the call under way
          temps,       \* temporaries of the call that are alive
          inst         \* the object that a constructor fills

dispatchVars == <<chain, complexity, call, temps, inst>>

(* A shape lists its parameters, "-" for no name or no default; the first       *)
(* "npos" may be given by position, "star" and "kw" stand for nb::args and      *)
(* nb::kwargs, "op" for nb::is_operator, "copy" for a copy constructor.         *)
Param == [name : {"-", "x", "y"}, takes : {"a", "b"}, default : {"-", "a", "b"}, none : BOOLEAN]
Shapes == [params : Seq(Param), npos : Nat, star : BOOLEAN, kw : BOOLEAN,
           ctor : BOOLEAN, copy : BOOLEAN, op : BOOLEAN]
Num(b) == IF b THEN 1 ELSE 0
NArgs(s) == Num(s.ctor) + Len(s.params) + Num(s.star) + Num(s.kw)
HasArgs(s) == \E i \in DOMAIN s.params : s.params[i].name # "-" \/ s.params[i].none

(* What the compiler accepts as an overload, and Python as a call: a default or *)
(* a keyword-only parameter takes an annotation, an operator is a method.       *)
WellFormed(s) ==
    /\ s \in Shapes /\ s.npos <= Len(s.params) /\ ~(s.ctor /\ s.op)
    /\ \A i \in DOMAIN s.params : i > s.npos \/ s.params[i].default # "-" => HasArgs(s)
Kinds == {"a", "b", "none"}
Legal ==
    /\ MaxSimple \in Nat /\ \A s \in Shape : WellFormed(s)
    /\ \A p \in PosArgs : p \in Seq(Kinds)
    /\ \A kw \in KwArgs : /\ kw = [n \in DOMAIN kw |-> kw[n]] /\ "-" \notin DOMAIN kw
                          /\ \A n \in DOMAIN kw : kw[n] \in Kinds

NoCall == [pc |-> "idle", pos |-> <<>>, kw |-> <<>>, pass |-> 0, k |-> 0,
           result |-> "-", error |-> FALSE, handler |-> FALSE]
Init == /\ chain = <<>> /\ complexity = 0 /\ call = NoCall
        /\ temps = {} /\ inst = "none"

\* Mutant: a chain is dispatched the way its last overload needs.
NeedsOwn(s, previous) ==
    IF s.star \/ s.kw \/ NArgs(s) > MaxSimple THEN 2 ELSE Num(HasArgs(s))

(* nb_func_new(): simple (0), medium (1) or complex (2).  A chain keeps the     *)
(* most complex of its overloads' needs.                                        *)
Needs(s, previous) ==
    Max({previous, IF s.star \/ s.kw \/ NArgs(s) > MaxSimple THEN 2 ELSE Num(HasArgs(s))})

(* An overload joins the chain of its own scope and hides that of a base class. *)
Define(s, body, hides) ==
    /\ call.pc = "idle" /\ Len(chain) < MaxOverloads
    /\ chain # <<>> /\ ~hides => chain[1].shape.ctor = s.ctor
    /\ LET previous == IF hides THEN <<>> ELSE chain
       IN  /\ chain' = Append(previous, [shape |-> s, body |-> body])
           /\ complexity' = Needs(s, IF hides THEN 0 ELSE complexity)
    /\ call' = NoCall /\ inst' = "none" /\ UNCHANGED temps

Simple == complexity = 0
Ctor == chain[1].shape.ctor
Start(p, kw, refused) ==
    /\ inst' = IF Ctor THEN "raw" ELSE "none"
    /\ call' = [NoCall EXCEPT !.pos = p, !.kw = kw, !.k = 1,
                  !.pass = IF Len(chain) > 1 THEN 0 ELSE 1,
                  !.pc = IF refused THEN "nomatch" ELSE "try", !.handler = refused]
    /\ UNCHANGED <<chain, complexity, temps>>

(* nb_type_vectorcall() allocates the object of a constructor; then the         *)
(* dispatcher starts.  The general simple dispatcher refuses keyword arguments  *)
(* and None at once.                                                            *)
Specialized == Simple /\ Len(chain) = 1 /\ NArgs(chain[1].shape) <= 2
Call(p, kw) ==
    /\ call.pc = "idle" /\ chain # <<>> /\ ~Specialized
    /\ Start(p, kw, Simple /\ (kw # <<>> \/ "none" \in Range(p)))

(* nb_func_vectorcall_simple_0(), _1() and _2(): one overload and no loop; they *)
(* also check the number of arguments at once.                                  *)
CallSpecialized(p, kw) ==
    /\ call.pc = "idle" /\ chain # <<>> /\ Specialized
    /\ Start(p, kw, kw # <<>> \/ Len(p) # Len(chain[1].shape.params) \/ "none" \in Range(p))

(* What each dispatcher collects for a parameter: "-" is nothing, "clash" is a   *)
(* parameter given by position and by name.  A medium chain leaves calls with   *)
(* keyword arguments to the complex dispatcher.                                 *)
Named(s, i) == s.params[i].name # "-" /\ s.params[i].name \in DOMAIN call.kw
FromComplex(s, i) ==
    LET placed == i <= Len(call.pos) /\ i <= s.npos
    IN  CASE placed /\ Named(s, i) -> "clash"
          [] placed /\ ~Named(s, i) -> call.pos[i]
          [] ~placed /\ Named(s, i) -> call.kw[s.params[i].name]
          [] OTHER -> s.params[i].default
FromMedium(s, i) == IF i <= Len(call.pos) THEN call.pos[i] ELSE s.params[i].default
Positional == complexity = 1 /\ call.kw = <<>>
Collected(s, i) == CASE Simple -> call.pos[i]
                     [] Positional -> FromMedium(s, i)
                     [] OTHER -> FromComplex(s, i)
Used(s) == {s.params[i].name : i \in {j \in DOMAIN s.params : Named(s, j)}}

CountFits(s) ==
    CASE Simple -> Len(call.pos) = Len(s.params)
      [] Positional -> /\ Len(call.pos) <= s.npos
                       /\ Len(call.pos) >= Len(s.params) \/ HasArgs(s)
      [] OTHER -> /\ Len(call.pos) <= s.npos \/ s.star
                  /\ Len(call.pos) >= s.npos \/ HasArgs(s)

\* Mutant: None is taken for every parameter.
AvailableNone(s, i) == Collected(s, i) \notin {"-", "clash"}
Available(s, i) == /\ Collected(s, i) \notin {"-", "clash"}
                   /\ Collected(s, i) = "none" => s.params[i].none

(* The type casters convert one parameter after the other.                      *)
Converts(s, i) == /\ Collected(s, i) = "b" /\ s.params[i].takes = "a"
                  /\ call.pass = 1 /\ ~s.copy
Castable(s, i) == \/ Collected(s, i) \in {s.params[i].takes, "none"}
                  \/ Converts(s, i)
Packed(s) == (IF s.star THEN {0} ELSE {}) \cup (IF s.kw THEN {Len(s.params) + 1} ELSE {})
Temps(slots) == {<<call.pass, call.k, i>> : i \in slots}
Converted(s, upTo) == {i \in DOMAIN s.params : i <= upTo /\ Converts(s, i)}

NextOverload ==
    LET last == call.k = Len(chain)
        out == last /\ call.pass = 1
    IN  [call EXCEPT !.k = IF last THEN 1 ELSE @ + 1, !.pass = IF last THEN 1 ELSE @,
                     !.pc = IF out THEN "nomatch" ELSE "try", !.handler = out]
Current == chain[call.k].shape
Try ==
    LET s == Current
        bad == {i \in DOMAIN s.params : ~Castable(s, i)}
        reached == IF bad = {} THEN Len(s.params) ELSE Min(bad) - 1
        available == CountFits(s) /\ \A i \in DOMAIN s.params : Available(s, i)
        named == s.kw \/ DOMAIN call.kw \subseteq Used(s)
    IN  /\ call.pc = "try"
        /\ temps' = IF ~available THEN temps
                    ELSE temps \cup Temps(Packed(s) \cup IF named THEN Converted(s, reached) ELSE {})
        /\ call' = IF available /\ named /\ bad = {} THEN [call EXCEPT !.pc = "body"] ELSE NextOverload
        /\ UNCHANGED <<chain, complexity, inst>>

\* Mutant: an object is ready as soon as its constructor ran.
BodyReady ==
    /\ call.pc = "body"
    /\ LET b == chain[call.k].body
       IN  /\ call' = IF b = "next" THEN NextOverload
                      ELSE [call EXCEPT !.pc = "done", !.result = IF b = "ok" THEN "value" ELSE "NULL",
                              !.error = b = "throws", !.handler = b = "unconvertible"]
           /\ inst' = IF Ctor THEN "ready" ELSE inst
    /\ UNCHANGED <<chain, complexity, temps>>

(* The body returns, throws (which becomes a Python error), returns something   *)
(* that has no Python form, or throws next_overload.                            *)
Body ==
    /\ call.pc = "body"
    /\ LET b == chain[call.k].body
       IN  /\ call' = IF b = "next" THEN NextOverload
                      ELSE [call EXCEPT !.pc = "done", !.result = IF b = "ok" THEN "value" ELSE "NULL",
                              !.error = b = "throws", !.handler = b = "unconvertible"]
           /\ inst' = IF b = "ok" /\ Ctor THEN "ready" ELSE inst
    /\ UNCHANGED <<chain, complexity, temps>>

(* The error handlers; an operator lets Python try the other operand's method.   *)
Declines == call.pc = "nomatch" /\ chain[1].shape.op
Fails == call.handler /\ ~Declines
Report(result) == IF Declines THEN "NotImplemented" ELSE IF Fails THEN "NULL" ELSE result

\* Mutant: temporaries are kept when no overload matched.
FinishKeeping ==
    /\ call.pc \in {"done", "nomatch"}
    /\ temps' = IF call.pc = "done" THEN {} ELSE temps
    /\ call' = [call EXCEPT !.pc = "returned", !.result = Report(@), !.error = @ \/ Fails]
    /\ inst' = IF inst = "raw" THEN "freed" ELSE inst
    /\ UNCHANGED <<chain, complexity>>

(* The label done: release the temporaries, then run the error handler.  The    *)
(* object of a failed constructor is freed without running its destructor.      *)
Finish ==
    /\ call.pc \in {"done", "nomatch"}
    /\ temps' = {}
    /\ call' = [call EXCEPT !.pc = "returned", !.result = Report(@), !.error = @ \/ Fails]
    /\ inst' = IF inst = "raw" THEN "freed" ELSE inst
    /\ UNCHANGED <<chain, complexity>>
Return == /\ call.pc = "returned" /\ call' = NoCall /\ inst' = "none"
          /\ UNCHANGED <<chain, complexity, temps>>

Bodies(s) == {"ok", "next", "throws"} \cup (IF s.ctor THEN {} ELSE {"unconvertible"})
Next == \/ \E s \in Shape, hides \in BOOLEAN : \E b \in Bodies(s) : Define(s, b, hides)
        \/ \E p \in PosArgs, kw \in KwArgs : Call(p, kw) \/ CallSpecialized(p, kw)
        \/ Try \/ Body \/ Finish \/ Return
Spec == Init /\ [][Next]_dispatchVars

-----------------------------------------------------------------------------

TypeOK == /\ chain \in Seq([shape : Shape, body : {"ok", "next", "throws", "unconvertible"}])
          /\ complexity \in 0 .. 2
          /\ inst \in {"none", "raw", "ready", "freed"}

(* The rules of a call, without dispatchers: every parameter has one source,    *)
(* every argument has one destination.                                          *)
Sources(s, p, kw, i) ==
    (IF i <= Len(p) /\ i <= s.npos THEN {<<"position", p[i]>>} ELSE {})
    \cup (IF s.params[i].name \in DOMAIN kw THEN {<<"name", kw[s.params[i].name]>>} ELSE {})
Fits(s, p, kw, strict) ==
    /\ s.star \/ Len(p) <= s.npos
    /\ s.kw \/ \A n \in DOMAIN kw : \E i \in DOMAIN s.params : s.params[i].name = n
    /\ \A i \in DOMAIN s.params :
          LET src == Sources(s, p, kw, i)
              v == IF src = {} THEN s.params[i].default ELSE (CHOOSE v \in src : TRUE)[2]
          IN  /\ Cardinality(src) <= 1 /\ v # "-"
              /\ \/ v = s.params[i].takes \/ (v = "none" /\ s.params[i].none)
                 \/ (~strict /\ ~s.copy /\ v = "b")
Candidates(strict, p, kw) == {k \in DOMAIN chain : /\ Fits(chain[k].shape, p, kw, strict)
                                                   /\ chain[k].body # "next"}
Chosen(p, kw) ==
    LET exact == IF Len(chain) > 1 THEN Candidates(TRUE, p, kw) ELSE {}
        loose == Candidates(FALSE, p, kw)
    IN  IF exact # {} THEN Min(exact) ELSE IF loose # {} THEN Min(loose) ELSE 0

(* Whichever dispatcher the chain got (and an overload added later may change   *)
(* it), a call runs the first overload that takes its arguments as they are,    *)
(* else the first that takes them converted, else it fails.                     *)
RightOverload ==
    /\ call.pc = "done" => call.k = Chosen(call.pos, call.kw)
    /\ call.pc = "nomatch" => Chosen(call.pos, call.kw) = 0

(* Temporaries live until the body has ended, also those of overloads that were *)
(* given up, and none outlives the call, however it ends.                       *)
TempsHeld ==
    /\ call.pc = "body" => Temps(Packed(Current) \cup Converted(Current, Len(Current.params))) \subseteq temps
    /\ call.pc \in {"idle", "returned"} => temps = {}

(* The interpreter's rule for native functions: NULL exactly if an error is set *)
(* and the object of a constructor is usable exactly if there was none.         *)
OutcomeConsistent == call.pc = "returned" =>
    /\ (call.result = "NULL") = call.error
    /\ Ctor => inst = IF call.error THEN "freed" ELSE "ready"
=============================================================================
