----------------------------- MODULE EnumTables -----------------------------
(* Enumerations (nb_enum.cpp).  A C++ enumeration is a Python class made by the*)
(* enum module; nanobind adds the members to the dictionaries of that class and*)
(* to two tables of its own, from values to members and back.  All values are  *)
(* kept as signed integers of W bits (64 in the code), whatever their type is. *)
(* All members are added before the first conversion, as in the definition of a*)
(* module.                                                                     *)
EXTENDS Integers, FiniteSets, FiniteSetsExt

CONSTANTS Name, Str,      \* member names; values of the members of a StrEnum
          W, Fail

VARIABLES kind,        \* what the enumeration was declared as, and its underlying type
          fwd, rev,    \* the tables: value -> member, member -> value
          members,     \* _member_map_: the members by name, with their Python values
          value_map,   \* _value2member_map_
          flag_mask, singles_mask, all_bits   \* attributes of a flag class

enumVars == <<kind, fwd, rev, members, value_map, flag_mask, singles_mask, all_bits>>

(* A C++ enumeration is signed unless its underlying type is not, flags too.  An *)
(* "int flag" was declared with is_arithmetic(): an IntFlag, which keeps bits that*)
(* no member has, where a Flag rejects them.                                    *)
Strict == {"flag", "signed flag"}
Keeping == {"int flag", "signed int flag"}
Signed == {"signed", "signed flag", "signed int flag"}
is_flag == kind \in Strict \cup Keeping
is_signed == kind \in Signed

Value == 0 .. (2 ^ W - 1)         \* bit patterns

(* Python integers have no width: above the bits of the largest one here all bits*)
(* are like the one at Top.                                                     *)
Top == W + 2
Bits(n) == {i \in 0 .. Top : (n \div 2 ^ i) % 2 = 1}
FromBits(bits) == MapThenSumSet(LAMBDA i : IF i = Top THEN - (2 ^ i) ELSE 2 ^ i, bits)
BitLength(n) == Cardinality({k \in 0 .. Top : 2 ^ k <= n \/ 2 ^ k <= -n})

Empty == [x \in {} |-> x]
Put(f, k, v) == [x \in DOMAIN f \cup {k} |-> IF x = k THEN v ELSE f[x]]

\* Mutant: a later member replaces an earlier one.
EmplaceOver(f, k, v) == Put(f, k, v)
Emplace(f, k, v) == IF k \in DOMAIN f THEN f ELSE Put(f, k, v)

Init == /\ kind \in {"unsigned", "signed", "str"} \cup Strict \cup Keeping
        /\ fwd = Empty /\ rev = Empty /\ members = Empty /\ value_map = Empty
        /\ flag_mask = 0 /\ singles_mask = 0 /\ all_bits = 0

(* Conversions between patterns and Python integers.                           *)

\* Mutant: the value of a flag is never signed.
ToPyFlag(v) == IF kind = "signed" /\ v >= 2 ^ (W - 1) THEN v - 2 ^ W ELSE v
ToPy(v) == IF is_signed /\ v >= 2 ^ (W - 1) THEN v - 2 ^ W ELSE v

\* Mutant: PyLong_AsUnsignedLongLongMask() instead of PyLong_AsUnsignedLongLong().
FromPyMask(n) == n % 2 ^ W
FromPy(n) ==
    LET range == IF is_signed THEN - (2 ^ (W - 1)) .. (2 ^ (W - 1) - 1) ELSE Value
    IN  IF n \in range THEN n % 2 ^ W ELSE Fail

\* Mutant: the mask is that of the last member.
MaskOfLast(mask, v) == ToPy(v)
MaskWith(mask, v) == FromBits(Bits(mask) \cup Bits(ToPy(v)))

(* enum_append(); members are objects, named here by their names.  Two members *)
(* with one value are both kept, and the first one stands for the value.       *)
AddMember(name, v, s) ==
    LET val == IF kind = "str" THEN s ELSE ToPy(v)
    IN  /\ name \notin DOMAIN members
        /\ members' = Put(members, name, val)
        /\ value_map' = Put(value_map, val, IF val \in DOMAIN value_map THEN value_map[val] ELSE name)
        /\ fwd' = Emplace(fwd, v, name)
        /\ rev' = Put(rev, name, v)
        /\ IF is_flag
           THEN /\ flag_mask' = MaskWith(flag_mask, v)
                /\ singles_mask' = IF Cardinality(Bits(v)) = 1 THEN MaskWith(singles_mask, v)
                                   ELSE singles_mask
                /\ all_bits' = 2 ^ (BitLength(flag_mask') + 1) - 1
           ELSE UNCHANGED <<flag_mask, singles_mask, all_bits>>
        /\ UNCHANGED kind

Next == \E n \in Name, v \in Value, s \in IF kind = "str" THEN Str ELSE {Fail} : AddMember(n, v, s)
Spec == Init /\ [][Next]_enumVars

-----------------------------------------------------------------------------
Member(n) == [is |-> "member", of |-> n]
Combination(n) == [is |-> "combination", of |-> n]
Integer(n) == [is |-> "int", of |-> n]
String(s) == [is |-> "str", of |-> s]

(* Flag.__new__ for an integer that is no member, in Python's enum module.  A    *)
(* Flag takes integers between -all_bits-1 and all_bits without bits in all_bits *)
(* that no member has, and makes negative ones positive, by either of two rules, *)
(* depending on the release; an IntFlag takes any.                              *)
Unfit(n) == \/ n \notin - all_bits - 1 .. all_bits
            \/ Bits(n) \cap Bits(all_bits) # Bits(n) \cap Bits(flag_mask)
Positive(n) ==
    CASE n >= 0                                -> {n}
      [] n < 0 /\ kind \in Keeping /\ Unfit(n)  -> {Max({all_bits + 1, 2 ^ BitLength(n)}) + n}
      [] n < 0 /\ kind \in Keeping /\ ~Unfit(n)  -> {all_bits + 1 + n}
      [] OTHER -> {all_bits + 1 + n, FromBits(Bits(n) \cap Bits(singles_mask))}

(* It lists the members that a combination is made of, those of a single bit by  *)
(* their value.                                                                 *)
Listed(n) == {v \in DOMAIN value_map : v # 0 /\ Bits(v) \subseteq Bits(n)}
Composes(n) ==
    LET covered == UNION {Bits(v) : v \in Listed(n)}
    IN  /\ n >= 0
        /\ \A i \in Bits(n) \cap Bits(singles_mask) \cap Bits(flag_mask) : 2 ^ i \in DOMAIN value_map
        /\ kind \in Strict => /\ Bits(n) \subseteq Bits(flag_mask)
                              /\ covered \in {{}, Bits(n)}
Object(n) == IF n \in DOMAIN value_map THEN Member(value_map[n]) ELSE Combination(n)

Flag(n) == IF members = Empty \/ (kind \in Strict /\ Unfit(n)) THEN {Fail}
           ELSE {IF Composes(m) THEN Object(m) ELSE Fail : m \in Positive(n)}

(* enum_from_cpp(): the objects that may be returned.                           *)
FromCpp(v) == CASE v \in DOMAIN fwd             -> {Member(fwd[v])}
                [] v \notin DOMAIN fwd /\ is_flag -> Flag(ToPy(v))
                [] OTHER                        -> {Fail}

\* Mutant: a flag is looked up like any member.
OfFlagTable(o) == IF o.is = "member" /\ o.of \in DOMAIN fwd THEN rev[o.of] ELSE Fail
OfFlag(o) == FromPy(IF o.is = "member" THEN members[o.of] ELSE o.of)

\* Mutant: text is looked up among the names.
OfTextByName(s) == IF s \in DOMAIN rev THEN rev[s] ELSE Fail
OfText(s) == IF s \in DOMAIN value_map THEN rev[value_map[s]] ELSE Fail
OfInteger(n) == IF FromPy(n) \in DOMAIN fwd THEN FromPy(n) ELSE Fail

(* enum_from_python(): members are known by their address, objects of a flag   *)
(* class have their value; integers and text need an implicit conversion and   *)
(* must be the value of a member.                                              *)
FromPython(o, convert) ==
    CASE is_flag /\ o.is \in {"member", "combination"} -> OfFlag(o)
      [] ~is_flag /\ o.is = "member" -> rev[o.of]
      [] convert /\ kind = "str" /\ o.is = "str" -> OfText(o.of)
      [] convert /\ kind # "str" /\ o.is = "int" -> OfInteger(o.of)
      [] OTHER -> Fail

-----------------------------------------------------------------------------

(* What C++ returns to Python comes back as the same value: members, aliases   *)
(* and combinations of flags, except that Python makes negative combinations   *)
(* positive.                                                                   *)
RoundTrip == \A v \in Value : v \in DOMAIN fwd \/ ToPy(v) >= 0 =>
    \A o \in FromCpp(v) : o # Fail => FromPython(o, FALSE) = v

(* A negative combination of flags that is accepted comes back with the flags  *)
(* of a single bit that it had, and no others.  Only of an IntFlag it may be    *)
(* refused on the way back, when the positive number does not fit.              *)
FlagsKept == \A v \in Value : ToPy(v) < 0 =>
    \A o \in FromCpp(v) : o # Fail =>
        LET w == FromPython(o, FALSE)
        IN  /\ w = Fail => kind \in Keeping
            /\ w # Fail => \A b \in 0 .. W - 1 : (\E m \in DOMAIN members : members[m] = 2 ^ b) =>
                             (b \in Bits(v) <=> b \in Bits(w))

(* A value is returned as the very member that the Python class finds for it,  *)
(* since members are compared by identity.                                     *)
Canonical == \A v \in Value : kind # "str" /\ v \in DOMAIN fwd =>
    ToPy(v) \in DOMAIN value_map /\ value_map[ToPy(v)] = fwd[v]

(* An integer is accepted if it is the value of a member, and then as that     *)
(* value: out of range integers do not wrap around to a member.                *)
IntegersExact == \A n \in -(2 ^ W) .. 2 ^ (W + 1) : kind # "str" =>
    LET v == FromPython(Integer(n), TRUE)
    IN  IF \E m \in DOMAIN members : members[m] = n THEN v # Fail /\ ToPy(v) = n ELSE v = Fail

(* Text is accepted exactly if a member of a StrEnum has it, as such a member. *)
StringsExact == \A s \in Str :
    LET v == FromPython(String(s), TRUE)
        named == {n \in DOMAIN members : members[n] = s}
    IN  IF named = {} THEN v = Fail ELSE \E n \in named : rev[n] = v

(* The union of two flags can always be returned to Python, unless one of the   *)
(* flags is negative (as All = -1 in a signed enumeration): the masks are then   *)
(* no longer those of the other members.                                        *)
FlagsClosed == \A m, n \in DOMAIN members : is_flag /\ (\A k \in DOMAIN members : members[k] >= 0) =>
    Fail \notin FromCpp(FromBits(Bits(rev[m]) \cup Bits(rev[n])))
=============================================================================
