----------------------------- MODULE TextBuffer -----------------------------
(* The growing character buffer of buffer.h, in which signatures, docstrings and *)
(* error messages are put together.  A cell that was allocated and never written *)
(* holds Junk; Nul is the terminator.                                            *)
EXTENDS Integers, Sequences

CONSTANTS Text,          \* the strings that are appended
          Size,          \* the initial allocation (128 in the code)
          MaxLen,        \* bound on the text
          Nul, Junk

VARIABLES mem,           \* m_start .. m_end
          cur,           \* m_cur - m_start
          pending,       \* the text that fmt() is writing, or <<>>
          text           \* what the calls so far amount to (history)

bufVars == <<mem, cur, pending, text>>

Remain == Len(mem) - cur

Init == /\ mem = [i \in 1..Size |-> IF i = 1 THEN Nul ELSE Junk]
        /\ cur = 0 /\ pending = <<>> /\ text = <<>>

\* expand(minval): the memory m after it, with the text and the byte behind it.
Expanded(m, minval) == [i \in 1..(2 * Len(m) + minval) |->
                           IF i <= Len(m) /\ i <= cur + 1 THEN m[i] ELSE Junk]

\* The memory m after s was written at m_cur, with a terminator if it fits.
Written(m, s) == [i \in 1..Len(m) |->
    IF i <= cur \/ i > cur + Len(s) + 1 THEN m[i]
    ELSE IF i = cur + Len(s) + 1 THEN Nul ELSE s[i - cur]]

Idle(s) == pending = <<>> /\ Len(text) + Len(s) <= MaxLen

\* Mutant: no room is made for the terminator.
NeedsRoomExact(n) == cur + n > Len(mem)
NeedsRoom(n) == cur + n >= Len(mem)

\* put(str, size), and put(c, count).
Put(s) == /\ Idle(s)
          /\ mem' = Written(IF NeedsRoom(Len(s)) THEN Expanded(mem, Len(s) + 1 - Remain)
                            ELSE mem, s)
          /\ cur' = cur + Len(s) /\ text' = text \o s /\ UNCHANGED pending

\* put(c).
PutChar(c) == /\ Idle(<<c>>)
              /\ mem' = Written(IF NeedsRoom(1) THEN Expanded(mem, 2) ELSE mem, <<c>>)
              /\ cur' = cur + 1 /\ text' = Append(text, c) /\ UNCHANGED pending

\* fmt(): tries until what vsnprintf() would write fits.
FmtBegin(s) == Idle(s) /\ s # <<>> /\ pending' = s /\ UNCHANGED <<mem, cur, text>>

\* Mutant: the length that was asked for is taken for the length that was written.
FitsAlways(n) == TRUE
Fits(n) == n + 1 < Remain

FmtTry ==
    /\ pending # <<>>
    /\ LET n == Len(pending)
           m == Written(mem, SubSeq(pending, 1, IF n < Remain THEN n ELSE Remain - 1))
       IN  IF Fits(n)
           THEN /\ mem' = m /\ cur' = cur + n
                /\ text' = text \o pending /\ pending' = <<>>
           ELSE /\ mem' = Expanded(m, 2)
                /\ UNCHANGED <<cur, pending, text>>

\* Mutant: the old end of the text stays where it was.
CutNot(n) == mem
Cut(n) == [mem EXCEPT ![n + 1] = Nul]

Rewind(n) == /\ pending = <<>>
             /\ LET k == IF cur < n THEN 0 ELSE cur - n IN
                cur' = k /\ mem' = Cut(k) /\ text' = SubSeq(text, 1, k)
             /\ UNCHANGED pending

Clear == /\ pending = <<>>
         /\ cur' = 0 /\ mem' = Cut(0) /\ text' = <<>> /\ UNCHANGED pending

Next == \/ \E s \in Text : Put(s) \/ FmtBegin(s)
        \/ \E s \in Text : Len(s) = 1 /\ PutChar(s[1])
        \/ FmtTry
        \/ \E n \in 1..2 : Rewind(n)
        \/ Clear

Spec == Init /\ [][Next]_bufVars

-----------------------------------------------------------------------------
\* Between calls the text is terminated, and its terminator is inside the allocation
\* (buffer.h:33-65): what get() returns is a string, at every length.
Terminated == cur < Len(mem) /\ (pending = <<>> => mem[cur + 1] = Nul)

\* The text is what was appended and not removed, however often the memory was
\* moved (buffer.h:138-159).
TextRight == cur = Len(text) /\ SubSeq(mem, 1, cur) = text
=============================================================================
