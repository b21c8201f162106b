----------------------------- MODULE MCCompare ------------------------------
(***************************************************************************)
(* Small instances of Compare for TLC: strings, what follows them, and     *)
(* where the memory ends.                                                  *)
(***************************************************************************)
EXTENDS Compare

\* n bytes of one kind and another byte, a zero, and other bytes to the end.
String(n, last, rest, end) ==
    [b \in 0 .. end - 1 |-> IF b < n THEN 1
                            ELSE IF b = n THEN last
                            ELSE IF b = n + 1 THEN 0 ELSE rest]

\* Strings that end in the first read or in a later one, some that start
\* another, one that fills the buffer; memory that ends within a word.
Strings == {String(0, 0, 7, 24), String(0, 2, 7, 24), String(3, 0, 7, 24),
            String(3, 2, 7, 24), String(3, 2, 8, 24), String(6, 2, 7, 24),
            String(16, 2, 7, 24)}

\* A memory without an end that differs from the last string after the words
\* of the first read.
Endless == [b \in 0 .. 23 |-> IF b = 10 THEN 2 ELSE 1]

AnyMemory == Strings \cup {Endless, NoMemory, String(9, 2, 7, 12)}
SomeSizes  == {0, 3, 8, 11, 16, 17}
=============================================================================
