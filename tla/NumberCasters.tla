--------------------------- MODULE NumberCasters ---------------------------
(* Conversion of Python numbers to C++ arithmetic types (common.cpp:809-1057).  *)
(* Widths are scaled: Acc bits for uint64_t, Shift bits for a digit of a Python  *)
(* int (PyLong_SHIFT, 30), targets of less than one, one to two, and Acc bits.   *)
(* Of doubles the model tells apart: -1.0, which the C API also returns for an   *)
(* error, one that a float represents and one that it does not, and NaN.         *)
EXTENDS Integers, FiniteSets, SequencesExt

CONSTANTS Acc, Shift,
          Target,        \* integer types: [bits, signed]
          PyInt,         \* bound: the Python integers
          Refused, NaN

VARIABLES arg,           \* the Python object: class, and what it converts to
          convert,       \* cast_flags::convert
          limited,       \* the module uses the limited API
          out,           \* last outcome: [loader, type, value]
          err            \* the error indicator of Python

numVars == <<arg, convert, limited, out, err>>

Double == {-1, 4, 5}                       \* 5 is not representable as a float
ToFloat(d) == IF d = 5 THEN 4 ELSE d

Init == /\ arg \in     [class : {"int", "subclass", "index"}, n : PyInt, raises : {"no"}]
                 \cup [class : {"index"}, n : {0}, raises : {"yes"}]
                 \cup [class : {"float", "floatable"}, d : Double \cup {NaN}, raises : {"no"}]
                 \cup [class : {"floatable"}, d : {-1}, raises : {"yes"}]
                 \cup [class : {"complex"}, re : Double, im : Double, raises : {"no"}]
                 \cup [class : {"complexlike"}, re : Double, im : Double,
                       raises : {"no", "re", "im"}]
                 \cup [class : {"other"}, raises : {"yes"}]
        /\ convert \in BOOLEAN /\ limited \in BOOLEAN
        /\ out = Refused /\ err = FALSE

-----------------------------------------------------------------------------
(* Integers.                                                                   *)

Cast(v, t) == LET m == v % 2 ^ t.bits       \* (T) v
              IN  IF t.signed /\ m >= 2 ^ (t.bits - 1) THEN m - 2 ^ t.bits ELSE m

Abs(n) == IF n < 0 THEN -n ELSE n
(* int_repr_get(): the digits, the least significant one first.                *)
Size(n) == CHOOSE s \in 0 .. 2 * Acc :
               Abs(n) < 2 ^ (s * Shift) /\ (s = 0 \/ Abs(n) >= 2 ^ ((s - 1) * Shift))
Digit(n, i) == (Abs(n) \div 2 ^ (i * Shift)) % 2 ^ Shift

\* Mutant: the leading digit is not checked.
DigitMaxAny(size_max) == 2 ^ Shift
DigitMax(size_max) == (2 ^ Acc - 1) \div 2 ^ ((size_max - 1) * Shift)

LoadIntExact(n, t) ==
    LET size_max == (t.bits + Shift - 1) \div Shift
        max_pos == (2 ^ Acc - 1) \div 2 ^ (Acc - t.bits + (IF t.signed THEN 1 ELSE 0))
        max_neg == IF t.signed THEN max_pos + 1 ELSE 0
        size == Size(n)
        value == FoldRight(LAMBDA d, acc : (acc * 2 ^ Shift + d) % 2 ^ Acc,
                           [i \in 1 .. size |-> Digit(n, i - 1)], 0)
    IN  IF \/ size > 1 /\ size > size_max
           \/ size > 1 /\ size = size_max /\ Digit(n, size - 1) > DigitMax(size_max)
           \/ value > (IF n < 0 THEN max_neg ELSE max_pos)
        THEN Refused ELSE Cast(IF n < 0 THEN 2 ^ Acc - value ELSE value, t)

\* The same with the limited API: PyLong_AsLongLongAndOverflow().
LoadIntLimited(n, t) ==
    LET fits == n \in -(2 ^ (Acc - 1)) .. 2 ^ (Acc - 1) - 1
    IN  IF fits
        THEN IF (~t.signed /\ n < 0) \/ (t.bits # Acc /\ n # Cast(n, t)) THEN Refused
             ELSE Cast(n, t)
        ELSE IF ~t.signed /\ t.bits = Acc /\ n > 0 /\ n < 2 ^ Acc THEN n % 2 ^ Acc ELSE Refused

IntLoader(n, t) == IF limited THEN LoadIntLimited(n, t) ELSE LoadIntExact(n, t)
Outcome(loader, t, v) == out' = [loader |-> loader, type |-> t, value |-> v]

\* Mutant: the error of __index__ is left for the next overload.
ClearedNot == TRUE
Cleared == FALSE

LoadInt(t) ==
    /\ IF arg.class = "int" \/ (arg.class = "subclass" /\ convert)
       THEN Outcome("int", t, IntLoader(arg.n, t)) /\ UNCHANGED err
       ELSE IF arg.class = "index" /\ convert
       THEN IF arg.raises = "yes" THEN Outcome("int", t, Refused) /\ err' = Cleared
            ELSE Outcome("int", t, IntLoader(arg.n, t)) /\ UNCHANGED err
       ELSE Outcome("int", t, Refused) /\ UNCHANGED err
    /\ UNCHANGED <<arg, convert, limited>>

-----------------------------------------------------------------------------
(* Floats and complex numbers.  The C API converts integers, too.               *)

Reals == {"int", "subclass", "index", "float", "floatable"}
AsDouble == IF arg.class \in Reals /\ arg.raises = "no"
            THEN IF arg.class \in {"float", "floatable"} THEN arg.d ELSE arg.n
            ELSE -1
Raises == ~(arg.class \in Reals /\ arg.raises = "no")

\* Mutant: -1.0 counts as an error.
SentinelOnly(v, raised) == -1 \notin v
NoError(v, raised) == -1 \notin v \/ ~raised

LoadF64 ==
    /\ IF arg.class = "float" /\ ~limited THEN Outcome("f64", "double", arg.d)
       ELSE IF (arg.class = "float" \/ convert) /\ NoError({AsDouble}, Raises)
       THEN Outcome("f64", "double", AsDouble) ELSE Outcome("f64", "double", Refused)
    /\ err' = IF Raises /\ convert THEN Cleared ELSE err
    /\ UNCHANGED <<arg, convert, limited>>

\* Mutant: a NaN does not equal itself.
SameIeee(d) == d # NaN /\ ToFloat(d) = d
Same(d) == d = NaN \/ ToFloat(d) = d

LoadF32 ==
    /\ IF /\ arg.class = "float" \/ convert
          /\ (arg.class = "float" /\ ~limited) \/ NoError({AsDouble}, Raises)
          /\ convert \/ Same(AsDouble)
       THEN Outcome("f32", "float", IF AsDouble = NaN THEN NaN ELSE ToFloat(AsDouble))
       ELSE Outcome("f32", "float", Refused)
    /\ err' = IF Raises /\ convert THEN Cleared ELSE err
    /\ UNCHANGED <<arg, convert, limited>>

\* Both parts, from one call or, with the limited API, from two.
LoadComplex ==
    LET is_complex == arg.class \in {"complex", "complexlike"}
        raised == IF is_complex THEN arg.raises # "no" ELSE Raises
        re == IF ~is_complex THEN AsDouble
              ELSE IF arg.raises = "re" \/ (arg.raises = "im" /\ ~limited) THEN -1 ELSE arg.re
        im == IF ~is_complex THEN 0 ELSE IF arg.raises = "im" THEN -1 ELSE arg.im
        tried == arg.class = "complex" \/ convert
    IN  /\ IF tried /\ NoError(IF limited THEN {re, im} ELSE {re}, raised)
           THEN Outcome("complex", "double", <<re, im>>)
           ELSE Outcome("complex", "double", Refused)
        /\ err' = IF tried /\ raised THEN Cleared ELSE err
        /\ UNCHANGED <<arg, convert, limited>>

-----------------------------------------------------------------------------
Next == \/ \E t \in Target : LoadInt(t)
        \/ LoadF64 \/ LoadF32 \/ LoadComplex

Spec == Init /\ [][Next]_numVars

-----------------------------------------------------------------------------
Values(t) == IF t.signed THEN -(2 ^ (t.bits - 1)) .. 2 ^ (t.bits - 1) - 1 ELSE 0 .. 2 ^ t.bits - 1

\* Every integer is converted exactly or refused, with its digits and with the
\* limited API alike: a value that does not fit the type never wraps around.
IntExact ==
    out # Refused /\ out.loader = "int" =>
        LET tried == arg.class = "int" \/ (convert /\ arg.class \in {"subclass", "index"})
        IN  out.value = IF tried /\ arg.raises = "no" /\ arg.n \in Values(out.type)
                        THEN arg.n ELSE Refused

\* A number that is -1.0 is converted, although the C API returns it for errors.
MinusOneLoads ==
    out # Refused /\ convert =>
        /\ out.loader \in {"f64", "f32"} /\ ~Raises => out.value # Refused
        /\ out.loader = "complex" /\ arg.class \in {"complex", "complexlike"} /\ arg.raises = "no"
              => out.value = <<arg.re, arg.im>>

\* Without the permission to convert, a float keeps the value of the double; a NaN
\* has none to lose.
NoPrecisionLost ==
    out # Refused /\ out.loader = "f32" /\ ~convert =>
        out.value = IF arg.class = "float" /\ arg.d # 5 THEN arg.d ELSE Refused

\* A conversion that fails leaves no error behind for the next overload to find.
NoErrorLeft == ~err
=============================================================================
