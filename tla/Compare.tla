------------------------------ MODULE Compare -------------------------------
(***************************************************************************)
(* The comparisons of memory of the two variants: variantStrCmp and        *)
(* variantMemCmp (variant.c), and the loop of its own that newfstatat has. *)
(* A string is read from its start again with a larger size until it ends  *)
(* within what was read.  The buffers are static: they keep what earlier   *)
(* comparisons have left.                                                  *)
(***************************************************************************)
EXTENDS Executors, VariantMem

CONSTANTS
    CHUNK,          \* first size of variantStrCmp, and its increase
    FSTAT_CHUNK,    \* increase of newfstatat, which begins with 1
    Memories,       \* memories at the addresses that the variants pass
    Sizes,          \* sizes of variantMemCmp
    MaxCalls        \* bound: comparisons, one after the other

ASSUME CompareAssumption ==
    /\ CHUNK \in Nat \ {0} /\ BUF_SIZE % CHUNK = 0 /\ CHUNK < BUF_SIZE
    /\ FSTAT_CHUNK \in Nat \ {0}
    /\ \A m \in Memories : DOMAIN m \subseteq Nat /\ m \in [DOMAIN m -> Int]
    /\ Sizes \subseteq Nat
    /\ MaxCalls \in Nat

VARIABLES
    buf,        \* the static buffers
    op,         \* the function that compares
    m1, m2,     \* the memories of master and replica
    size,       \* argument of variantMemCmp
    curSize, stringLen,
    pc, result,
    calls,      \* history: comparisons begun
    died        \* history: has a variant died?

vars == <<buf, op, m1, m2, size, curSize, stringLen, pc, result, calls, died>>

Buffer  == {"bufA", "bufB", "newfstatat_bufA", "newfstatat_bufB"}
Content == [0 .. BUF_SIZE - 1 -> Int]
Zeros   == [b \in 0 .. BUF_SIZE - 1 |-> 0]

A == IF op = "newfstatat" THEN "newfstatat_bufA" ELSE "bufA"
B == IF op = "newfstatat" THEN "newfstatat_bufB" ELSE "bufB"

TypeOK ==
    /\ buf \in [Buffer -> Content]
    /\ op \in {"none", "variantStrCmp", "variantMemCmp", "newfstatat"}
    /\ {m1, m2} \subseteq Memories \cup {NoMemory}
    /\ size \in Nat
    /\ curSize \in 0 .. BUF_SIZE + FSTAT_CHUNK
    /\ stringLen \in 0 .. BUF_SIZE - 1
    /\ pc \in {"idle", "loop", "compare"}
    /\ result \in {-1, 0, 1}
    /\ calls \in 0 .. MaxCalls
    /\ died \in BOOLEAN

Init ==
    /\ buf = [b \in Buffer |-> Zeros]
    /\ op = "none"
    /\ m1 = NoMemory /\ m2 = NoMemory
    /\ size = 0 /\ curSize = 0 /\ stringLen = 0
    /\ pc = "idle"
    /\ result = 0
    /\ calls = 0
    /\ died = FALSE

-----------------------------------------------------------------------------
(* The C library                                                           *)

strnlen(a, n) ==
    CHOOSE k \in 0 .. n : /\ \A i \in 0 .. k - 1 : a[i] # 0
                          /\ k = n \/ a[k] = 0

memcmp(a, b, n)  == IF \A i \in 0 .. n - 1 : a[i] = b[i] THEN 0 ELSE 1

\* Nothing behind the end of the strings counts.
strncmp(a, b, n) ==
    IF \A i \in 0 .. n - 1 : a[i] = b[i] \/ \E j \in 0 .. i - 1 : a[j] = 0
    THEN 0 ELSE 1

-----------------------------------------------------------------------------
Begin(f) ==
    /\ pc = "idle"
    /\ calls < MaxCalls
    /\ ~died
    /\ calls' = calls + 1
    /\ op' = f
    /\ m1' \in Memories
    /\ m2' \in Memories
    /\ UNCHANGED died

StartStrCmp ==
    /\ Begin("variantStrCmp")
    /\ buf' = [buf EXCEPT !["bufA"] = Zeros, !["bufB"] = Zeros]
    /\ curSize' = CHUNK
    /\ pc' = "loop"
    /\ UNCHANGED <<size, stringLen, result>>

StartFstatat ==
    /\ Begin("newfstatat")
    /\ curSize' = 1
    /\ pc' = "loop"
    /\ UNCHANGED <<buf, size, stringLen, result>>

\* Mutant of MemCmp: the limit is off by one.
MemCmpBelow ==
    /\ Begin("variantMemCmp")
    /\ size' \in Sizes
    /\ IF size' >= BUF_SIZE
       THEN result' = -1 /\ UNCHANGED buf
       ELSE /\ buf' = [buf EXCEPT !["bufA"] = ReadInto(@, m1', size'),
                                  !["bufB"] = ReadInto(@, m2', size')]
            /\ result' = memcmp(buf'["bufA"], buf'["bufB"], size')
    /\ UNCHANGED <<curSize, stringLen, pc>>

MemCmp ==
    /\ Begin("variantMemCmp")
    /\ size' \in Sizes
    /\ IF size' > BUF_SIZE
       THEN result' = -1 /\ UNCHANGED buf
       ELSE /\ buf' = [buf EXCEPT !["bufA"] = ReadInto(@, m1', size'),
                                  !["bufB"] = ReadInto(@, m2', size')]
            /\ result' = memcmp(buf'["bufA"], buf'["bufB"], size')
    /\ UNCHANGED <<curSize, stringLen, pc>>

InLoop == pc = "loop" /\ curSize < BUF_SIZE

\* The master's string, as far as it is read in this iteration.  Its length
\* is less than the buffer's, so the first branch of the code is never taken.
ReadString ==
    /\ buf' = [buf EXCEPT ![A] = ReadInto(@, m1, curSize)]
    /\ stringLen' = strnlen(buf'[A], curSize)

\* Mutants of Longer: the size stays, or doubles.
LongerForever ==
    /\ InLoop
    /\ ReadString
    /\ stringLen' = curSize
    /\ UNCHANGED <<op, m1, m2, size, curSize, pc, result, calls, died>>
LongerDoubled ==
    /\ InLoop
    /\ ReadString
    /\ stringLen' = curSize
    /\ curSize' = 2 * curSize + (IF op = "newfstatat" THEN FSTAT_CHUNK ELSE CHUNK)
    /\ UNCHANGED <<op, m1, m2, size, pc, result, calls, died>>

Longer ==
    /\ InLoop
    /\ ReadString
    /\ stringLen' = curSize
    /\ curSize' = curSize + (IF op = "newfstatat" THEN FSTAT_CHUNK ELSE CHUNK)
    /\ UNCHANGED <<op, m1, m2, size, pc, result, calls, died>>

\* The string has ended.  variantStrCmp takes this branch for an error.
Ended ==
    /\ InLoop
    /\ ReadString
    /\ stringLen' < curSize
    /\ IF op = "newfstatat" THEN pc' = "compare" /\ UNCHANGED result
                            ELSE pc' = "idle" /\ result' = -1
    /\ UNCHANGED <<op, m1, m2, size, curSize, calls, died>>

LoopOver ==
    /\ pc = "loop"
    /\ curSize >= BUF_SIZE
    /\ pc' = "compare"
    /\ UNCHANGED <<buf, op, m1, m2, size, curSize, stringLen, result, calls,
                   died>>

\* Mutants of CompareStrings: the replica's memory is not read, or as much is
\* compared as was read of the master's.
CompareUnread ==
    /\ pc = "compare"
    /\ LET eq == strncmp(buf[A], buf[B], stringLen) = 0
       IN  result' = IF eq THEN 0 ELSE IF op = "newfstatat" THEN -1 ELSE 1
    /\ pc' = "idle"
    /\ UNCHANGED <<buf, op, m1, m2, size, curSize, stringLen, calls, died>>

CompareAllRead ==
    /\ pc = "compare"
    /\ buf' = [buf EXCEPT ![B] = ReadInto(@, m2, stringLen)]
    /\ LET eq == memcmp(buf[A], buf'[B], curSize) = 0
       IN  result' = IF eq THEN 0 ELSE IF op = "newfstatat" THEN -1 ELSE 1
    /\ pc' = "idle"
    /\ UNCHANGED <<op, m1, m2, size, curSize, stringLen, calls, died>>

\* variantStrCmp reads curSize bytes of the replica, newfstatat stringLen.
CompareStrings ==
    /\ pc = "compare"
    /\ LET n == IF op = "newfstatat" THEN stringLen ELSE curSize
       IN  buf' = [buf EXCEPT ![B] = ReadInto(@, m2, n)]
    /\ LET eq == strncmp(buf[A], buf'[B], stringLen) = 0
       IN  result' = IF eq THEN 0 ELSE IF op = "newfstatat" THEN -1 ELSE 1
    /\ pc' = "idle"
    /\ UNCHANGED <<op, m1, m2, size, curSize, stringLen, calls, died>>

\* A fatal signal to a variant during a comparison.
Die ==
    /\ pc # "idle"
    /\ \/ m1' = NoMemory /\ m2' = m2
       \/ m2' = NoMemory /\ m1' = m1
    /\ died' = TRUE
    /\ UNCHANGED <<buf, op, size, curSize, stringLen, pc, result, calls>>

Step == Longer \/ Ended \/ LoopOver \/ CompareStrings

Finished ==
    /\ pc = "idle"
    /\ calls = MaxCalls \/ died
    /\ UNCHANGED vars

Next == Step \/ StartStrCmp \/ StartFstatat \/ MemCmp \/ Die \/ Finished

Spec == Init /\ [][Next]_vars /\ WF_vars(Step)

-----------------------------------------------------------------------------
Done(f) == pc = "idle" /\ op = f /\ ~died

\* Where the string at an address ends, if it can be read to its end and is
\* shorter than the buffer, as every path is.
IsString(m) ==
    \E n \in 0 .. BUF_SIZE - CHUNK - 1 :
        /\ n \in DOMAIN m /\ m[n] = 0
        /\ \A b \in 0 .. n : Word(W * (b \div W)) \subseteq DOMAIN m
EndOf(m) == CHOOSE n \in DOMAIN m : m[n] = 0 /\ \A i \in 0 .. n - 1 : m[i] # 0
Text(m)  == [i \in 0 .. EndOf(m) - 1 |-> m[i]]
Plain(m) == m = NoMemory \/ IsString(m)
StartsWith(m, p) ==
    \/ p = NoMemory /\ m = NoMemory
    \/ IsString(p) /\ EndOf(p) = 0
    \/ /\ IsString(p) /\ IsString(m)
       /\ EndOf(p) <= EndOf(m)
       /\ \A i \in DOMAIN Text(p) : m[i] = p[i]

\* What variantStrCmp returns, by the comment above it: 0 for equal strings and
\* 1 for others (variant.c:336-341).
StrDocumented ==
    Done("variantStrCmp") /\ IsString(m1) /\ IsString(m2) =>
        result = IF Text(m1) = Text(m2) THEN 0 ELSE 1

\* What a read sees at an offset.
Seen(m, b) == IF Word(W * (b \div W)) \subseteq DOMAIN m THEN m[b] ELSE Minus1

\* variantStrCmp does not let a difference pass: what it does not report as an
\* error it has compared over all that was read before the buffer was full, of
\* memory of any kind and whatever earlier calls left in the buffers.
StrSound ==
    Done("variantStrCmp") /\ result # -1 =>
        (result = 0 <=> \A b \in 0 .. BUF_SIZE - CHUNK - 1 : Seen(m1, b) = Seen(m2, b))

\* newfstatat accepts exactly the paths of the replica that start with the
\* master's, whatever earlier comparisons left in the buffers.
PrefixOutcome ==
    Done("newfstatat") /\ Plain(m1) /\ Plain(m2) =>
        (result = 0 <=> StartsWith(m2, m1))

\* Buffers of any size that the monitor's have place for are compared over
\* their whole length, and no further: to the bytes behind them, which are
\* read with the last word.  (variantMemCmp)
MemOutcome ==
    /\ Done("variantMemCmp")
    /\ size <= BUF_SIZE => \A m \in {m1, m2} : \A b \in 0 .. size - 1 :
                               Word(W * (b \div W)) \subseteq DOMAIN m
    => LET first(m) == [b \in 0 .. size - 1 |-> m[b]]
       IN  result = IF size > BUF_SIZE THEN -1
                    ELSE variantMemCmp(first(m1), first(m2), size)

\* Every comparison ends, of memory that cannot be read too.
Ends == []<>(pc = "idle")
=============================================================================
