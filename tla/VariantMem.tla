----------------------------- MODULE VariantMem -----------------------------
(***************************************************************************)
(* Memory of a traced process as the monitor reaches it: PTRACE_PEEKDATA   *)
(* and PTRACE_POKEDATA move one word at a time.  A memory is a function    *)
(* from the offsets of its mapped bytes, counted from the start of the     *)
(* buffer that a call names.  A process that is gone has no memory.        *)
(***************************************************************************)
EXTENDS Integers

W       == 8            \* sizeof(long)
Word(a) == a .. a + W - 1

NoMemory == [b \in {} |-> 0]

\* A word that is not mapped to its end cannot be read: ptrace returns -1,
\* which the code takes for data.
Minus1 == 255
Peek(mem, a) ==
    [i \in 0 .. W - 1 |->
        IF Word(a) \subseteq DOMAIN mem THEN mem[a + i] ELSE Minus1]

\* A word that is mapped in part is written in part.
Poke(mem, a, word) ==
    [b \in DOMAIN mem |-> IF b \in Word(a) THEN word[b - a] ELSE mem[b]]

\* The local buffer after readVariantMem, which writes it in whole words.
ReadInto(buf, mem, size) ==
    [b \in DOMAIN buf |->
        LET a == W * (b \div W)
        IN  IF a < size THEN Peek(mem, a)[b - a] ELSE buf[b]]
=============================================================================
