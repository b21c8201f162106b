---------------------------- MODULE CompareProofs ----------------------------
(***************************************************************************)
(* The comparisons of memory, for every size of the buffers and of what is *)
(* read at a time, and for all memories.                                   *)
(***************************************************************************)
EXTENDS Compare, WellFoundedInduction, TLAPS

\* By how much the size goes up.
Stride == IF op = "newfstatat" THEN FSTAT_CHUNK ELSE CHUNK

\* Only the two loops take more than a step, and variantStrCmp, which reads
\* the replica up to its size, does not outgrow the buffer.
InLoops ==
    pc # "idle" =>
        /\ op \in {"variantStrCmp", "newfstatat"}
        /\ curSize >= 1
        /\ op = "variantStrCmp" =>
               /\ curSize <= BUF_SIZE
               /\ \E k \in Nat : curSize = k * CHUNK

\* The first bytes of the master's buffer are those of no memory.
Unreadable(n) == \A i \in 0 .. n - 1 : buf[A][i] = Minus1

\* Of a memory that cannot be read the loop sees no end.
NoEndSeen ==
    pc # "idle" /\ ~died /\ m1 = NoMemory =>
        /\ \/ /\ pc = "loop" /\ curSize < BUF_SIZE
              /\ curSize = IF op = "newfstatat" THEN 1 ELSE CHUNK
           \/ /\ stringLen = curSize - Stride
              /\ stringLen >= 1
              /\ Unreadable(stringLen)
        /\ pc = "compare" => curSize >= BUF_SIZE

\* Of a string it sees the end before the buffer is full.
EndSeen ==
    pc # "idle" /\ ~died /\ IsString(m1) /\ Stride <= CHUNK =>
        /\ pc = "loop" => curSize < BUF_SIZE
        /\ pc = "compare" =>
               /\ op = "newfstatat"
               /\ stringLen = EndOf(m1)
               /\ \A i \in 0 .. stringLen - 1 : buf[A][i] = m1[i]

\* The loop of variantStrCmp that has not ended yet has seen no zero in the
\* bytes that the last reads have in common.
LongSeen ==
    pc # "idle" /\ ~died /\ op = "variantStrCmp" =>
        /\ \/ pc = "loop" /\ curSize = CHUNK
           \/ /\ stringLen = curSize - CHUNK
              /\ \A i \in 0 .. stringLen - 1 : /\ buf["bufA"][i] = Seen(m1, i)
                                              /\ buf["bufA"][i] # 0
        /\ pc = "compare" => curSize = BUF_SIZE

CompareInv == TypeOK /\ InLoops /\ NoEndSeen /\ EndSeen /\ LongSeen

-----------------------------------------------------------------------------
(* What is read, and where a string ends                                   *)

\* A non-empty set of naturals has a least element.
LEMMA LeastNatural ==
    ASSUME NEW I \in SUBSET Nat, I # {}
    PROVE  \E x \in I : \A y \in I : x <= y
<1> DEFINE R == {ss \in Nat \X Nat : ss[1] < ss[2]}
<1>1. R = OpToRel(<, Nat)
  BY DEF OpToRel
<1> HIDE DEF R
<1>2. PICK x \in I : \A y \in I : ~(<<y, x>> \in R)
  BY <1>1, NatLessThanWellFounded, WFMin
<1>3. ASSUME NEW y \in I, y < x PROVE FALSE
  <2>1. <<y, x>> \in Nat \X Nat /\ <<y, x>>[1] < <<y, x>>[2]
    BY <1>3
  <2> QED
    BY <1>2, <2>1 DEF R
<1> QED
  BY <1>3

\* The word a byte is in.
LEMMA WordOf ==
    ASSUME NEW b \in Nat
    PROVE  LET a == W * (b \div W)
           IN  /\ a \in Nat /\ a <= b /\ b - a \in 0 .. W - 1
               /\ a + (b - a) = b /\ b \in Word(a)
<1> DEFINE q == b \div 8
<1>1. q \in Nat /\ 8 * q <= b /\ b < 8 * q + 8
  OBVIOUS
<1> HIDE DEF q
<1>2. /\ 8 * q \in Nat /\ 8 * q <= b /\ b - 8 * q \in 0 .. 8 - 1
      /\ 8 * q + (b - 8 * q) = b /\ b \in 8 * q .. 8 * q + 8 - 1
  BY <1>1
<1> QED
  BY <1>2 DEF q, W, Word

\* The memories are functions on bytes.
LEMMA Bytes ==
    ASSUME NEW m \in Memories \cup {NoMemory}
    PROVE  /\ m \in [DOMAIN m -> Int] /\ DOMAIN m \subseteq Nat
           /\ m = NoMemory => DOMAIN m = {}
BY CompareAssumption DEF NoMemory

\* strnlen counts the bytes before the first zero, at most n.
LEMMA StrnlenCounts ==
    ASSUME NEW a \in [0 .. BUF_SIZE - 1 -> Int], NEW n \in 0 .. BUF_SIZE
    PROVE  /\ strnlen(a, n) \in 0 .. n
           /\ \A i \in 0 .. strnlen(a, n) - 1 : a[i] # 0
           /\ strnlen(a, n) = n \/ a[strnlen(a, n)] = 0
<1> DEFINE I == {k \in 0 .. n : k = n \/ a[k] = 0}
<1>1. I \in SUBSET Nat /\ n \in I
  BY BufSizeAssumption
<1>2. PICK k \in I : \A y \in I : k <= y
  BY <1>1, LeastNatural
<1>3. \A i \in 0 .. k - 1 : a[i] # 0
  BY <1>2
<1> QED
  BY <1>2, <1>3 DEF strnlen

\* A string that can be read to its end has one.
LEMMA StringEnd ==
    ASSUME NEW m \in Memories \cup {NoMemory}, IsString(m)
    PROVE  /\ EndOf(m) \in 0 .. BUF_SIZE - CHUNK - 1
           /\ m[EndOf(m)] = 0
           /\ \A i \in 0 .. EndOf(m) - 1 : m[i] # 0
           /\ \A b \in 0 .. EndOf(m) : /\ Word(W * (b \div W)) \subseteq DOMAIN m
                                       /\ b \in DOMAIN m
<1> DEFINE n0 == BUF_SIZE - CHUNK - 1
<1>1. /\ BUF_SIZE \in Nat /\ CHUNK \in Nat /\ n0 \in Int
      /\ DOMAIN m \subseteq Nat
  BY BufSizeAssumption, CompareAssumption, Bytes
<1>2. PICK n \in 0 .. n0 :
          /\ n \in DOMAIN m /\ m[n] = 0
          /\ \A b \in 0 .. n : Word(W * (b \div W)) \subseteq DOMAIN m
  BY DEF IsString
<1>3. \A b \in 0 .. n : b \in DOMAIN m
  BY <1>1, <1>2 DEF Word, W
<1> DEFINE I == {k \in 0 .. n : m[k] = 0}
<1>4. I \in SUBSET Nat /\ n \in I
  BY <1>1, <1>2
<1>5. PICK k \in I : \A y \in I : k <= y
  BY <1>4, LeastNatural
<1>6. k \in DOMAIN m /\ m[k] = 0 /\ \A i \in 0 .. k - 1 : m[i] # 0
  BY <1>1, <1>3, <1>5
<1> DEFINE e == EndOf(m)
<1>7. e \in DOMAIN m /\ m[e] = 0 /\ \A i \in 0 .. e - 1 : m[i] # 0
  BY <1>6 DEF EndOf
<1>8. e \in Nat
  BY <1>1, <1>7
<1> HIDE DEF e, n0
<1>9. e <= n
  BY <1>1, <1>2, <1>7, <1>8
<1>10. e \in 0 .. n0
  BY <1>1, <1>2, <1>8, <1>9
<1>11. \A b \in 0 .. e : b \in 0 .. n
  BY <1>1, <1>2, <1>8, <1>9
<1> QED
  BY <1>2, <1>3, <1>7, <1>10, <1>11 DEF e, n0

LEMMA NoMemoryNoString == ~IsString(NoMemory)
BY DEF IsString, NoMemory

\* The bytes of a buffer that a read of that size has put there.
LEMMA ReadByte ==
    ASSUME NEW m \in Memories \cup {NoMemory}, NEW old \in Content,
           NEW n \in Nat
    PROVE  /\ ReadInto(old, m, n) \in Content
           /\ \A b \in 0 .. BUF_SIZE - 1 :
                 b < n => ReadInto(old, m, n)[b] =
                              IF Word(W * (b \div W)) \subseteq DOMAIN m
                              THEN m[b] ELSE Minus1
<1>1. BUF_SIZE \in Nat /\ m \in [DOMAIN m -> Int]
  BY BufSizeAssumption, Bytes
<1>2. DOMAIN old = 0 .. BUF_SIZE - 1 /\ old \in [0 .. BUF_SIZE - 1 -> Int]
  BY DEF Content
<1>3. ASSUME NEW b \in 0 .. BUF_SIZE - 1
      PROVE  LET a == W * (b \div W)
             IN  /\ a \in Nat /\ a <= b /\ b - a \in 0 .. W - 1
                 /\ a + (b - a) = b /\ b \in Word(a)
                 /\ Peek(m, a)[b - a] = IF Word(a) \subseteq DOMAIN m
                                        THEN m[b] ELSE Minus1
                 /\ Peek(m, a)[b - a] \in Int
  <2> DEFINE a == W * (b \div W)
  <2>1. /\ a \in Nat /\ a <= b /\ b - a \in 0 .. W - 1
        /\ a + (b - a) = b /\ b \in Word(a)
    BY <1>1, <1>3, WordOf
  <2> HIDE DEF a
  <2>2. Peek(m, a)[b - a] = IF Word(a) \subseteq DOMAIN m THEN m[b] ELSE Minus1
    <3> DEFINE i == b - a
    <3>1. i \in 0 .. W - 1 /\ a + i = b
      BY <2>1
    <3> HIDE DEF i
    <3>2. Peek(m, a)[i] = IF Word(a) \subseteq DOMAIN m THEN m[a + i] ELSE Minus1
      BY <3>1 DEF Peek
    <3> QED
      BY <3>1, <3>2 DEF i
  <2>3. Peek(m, a)[b - a] \in Int
    BY <1>1, <2>1, <2>2 DEF Minus1
  <2> QED
    BY <2>1, <2>2, <2>3 DEF a
<1>4. ReadInto(old, m, n) \in Content
  BY <1>2, <1>3 DEF ReadInto, Content
<1>5. ASSUME NEW b \in 0 .. BUF_SIZE - 1, b < n
      PROVE  ReadInto(old, m, n)[b] =
                 IF Word(W * (b \div W)) \subseteq DOMAIN m THEN m[b] ELSE Minus1
  <2> DEFINE a == W * (b \div W)
  <2>1. a \in Nat /\ a <= b /\ b \in Int
    BY <1>1, <1>3
  <2>2. a < n
    BY <1>5, <2>1
  <2>3. ReadInto(old, m, n)[b] = Peek(m, a)[b - a]
    BY <1>2, <2>2 DEF ReadInto
  <2> QED
    BY <1>3, <2>3
<1> QED
  BY <1>4, <1>5

-----------------------------------------------------------------------------
(* Types, and the sizes                                                    *)

LEMMA Sized ==
    /\ BUF_SIZE \in Nat /\ CHUNK \in Nat /\ FSTAT_CHUNK \in Nat
    /\ CHUNK >= 1 /\ FSTAT_CHUNK >= 1 /\ CHUNK < BUF_SIZE /\ MaxCalls \in Nat
BY BufSizeAssumption, CompareAssumption

\* A multiple of the stride that is less than the buffer's size is so by a
\* whole stride.
LEMMA NextMultiple ==
    ASSUME NEW k \in Nat, k * CHUNK < BUF_SIZE
    PROVE  /\ (k + 1) * CHUNK <= BUF_SIZE
           /\ (k + 1) * CHUNK = k * CHUNK + CHUNK
<1> DEFINE q == BUF_SIZE \div CHUNK
<1>1. q \in Nat /\ BUF_SIZE = CHUNK * q + (BUF_SIZE % CHUNK)
  BY Sized
<1>2. BUF_SIZE = q * CHUNK
  BY <1>1, Sized, CompareAssumption
<1> HIDE DEF q
<1>3. (k + 1) * CHUNK = k * CHUNK + CHUNK
  BY Sized
<1>4. k < q
  <2> SUFFICES ASSUME q <= k PROVE FALSE
    BY <1>1
  <2>1. q * CHUNK <= k * CHUNK
    BY <1>1, Sized
  <2> QED
    BY <1>2, <2>1, Sized
<1>5. (k + 1) * CHUNK <= q * CHUNK
  BY <1>1, <1>4, Sized
<1> QED
  BY <1>2, <1>3, <1>5

\* What an iteration of a loop reads.
LEMMA ReadFacts ==
    ASSUME TypeOK, InLoops, InLoop, ReadString
    PROVE  /\ buf' \in [Buffer -> Content]
           /\ A \in Buffer /\ buf'[A] \in Content
           /\ curSize \in 1 .. BUF_SIZE - 1
           /\ \A b \in 0 .. curSize - 1 :
                 buf'[A][b] = IF Word(W * (b \div W)) \subseteq DOMAIN m1
                              THEN m1[b] ELSE Minus1
           /\ stringLen' \in 0 .. curSize
           /\ \A i \in 0 .. stringLen' - 1 : buf'[A][i] # 0
           /\ stringLen' = curSize \/ buf'[A][stringLen'] = 0
<1>1. /\ A \in Buffer /\ buf \in [Buffer -> Content]
      /\ m1 \in Memories \cup {NoMemory}
      /\ curSize \in 1 .. BUF_SIZE - 1 /\ curSize \in Nat
  BY Sized DEF TypeOK, A, Buffer, InLoops, InLoop
<1>2. buf'[A] = ReadInto(buf[A], m1, curSize)
  BY <1>1 DEF ReadString
<1>3. /\ buf'[A] \in Content
      /\ \A b \in 0 .. BUF_SIZE - 1 :
            b < curSize => buf'[A][b] = IF Word(W * (b \div W)) \subseteq DOMAIN m1
                                        THEN m1[b] ELSE Minus1
  BY <1>1, <1>2, ReadByte
<1>4. buf' \in [Buffer -> Content]
  BY <1>1, <1>2, <1>3 DEF ReadString
<1>5. stringLen' = strnlen(buf'[A], curSize) /\ curSize \in 0 .. BUF_SIZE
  BY <1>1, Sized DEF ReadString
<1>6. /\ stringLen' \in 0 .. curSize
      /\ \A i \in 0 .. stringLen' - 1 : buf'[A][i] # 0
      /\ stringLen' = curSize \/ buf'[A][stringLen'] = 0
  BY <1>3, <1>5, StrnlenCounts DEF Content
<1>7. \A b \in 0 .. curSize - 1 : b \in 0 .. BUF_SIZE - 1 /\ b < curSize
  BY <1>1, Sized
<1> QED
  BY <1>1, <1>3, <1>4, <1>6, <1>7

LEMMA TypeInit == Init => TypeOK /\ InLoops
<1> SUFFICES ASSUME Init PROVE TypeOK /\ InLoops
  OBVIOUS
<1>1. Zeros \in Content
  BY DEF Zeros, Content
<1>2. buf \in [Buffer -> Content]
  BY <1>1 DEF Init
<1>3. {m1, m2} \subseteq Memories \cup {NoMemory}
  BY DEF Init
<1>4. /\ size \in Nat /\ curSize \in 0 .. BUF_SIZE + FSTAT_CHUNK
      /\ stringLen \in 0 .. BUF_SIZE - 1 /\ calls \in 0 .. MaxCalls
      /\ result \in {-1, 0, 1}
  BY Sized DEF Init
<1>5. pc = "idle" /\ op = "none" /\ died \in BOOLEAN
  BY DEF Init
<1> QED
  BY <1>2, <1>3, <1>4, <1>5 DEF TypeOK, InLoops

LEMMA TypeStep ==
    ASSUME TypeOK, InLoops, [Next]_vars
    PROVE  TypeOK' /\ InLoops'
<1> USE Sized
<1>1. /\ buf \in [Buffer -> Content] /\ calls \in Nat
      /\ "bufA" \in Buffer /\ "bufB" \in Buffer
      /\ A \in Buffer /\ B \in Buffer /\ Zeros \in Content
      /\ curSize \in Nat /\ stringLen \in Nat /\ size \in Nat
      /\ m1 \in Memories \cup {NoMemory} /\ m2 \in Memories \cup {NoMemory}
  BY DEF TypeOK, Buffer, A, B, Zeros, Content
<1>2. ASSUME NEW f \in {"variantStrCmp", "variantMemCmp", "newfstatat"}, Begin(f)
      PROVE  /\ op' = f /\ calls' \in 0 .. MaxCalls /\ died' = died
             /\ {m1', m2'} \subseteq Memories
  BY <1>1, <1>2 DEF Begin
<1>3. CASE StartStrCmp
  <2>1. buf' \in [Buffer -> Content]
    BY <1>1, <1>3 DEF StartStrCmp
  <2>2. CHUNK = 1 * CHUNK
    OBVIOUS
  <2> QED
    BY <1>2, <1>3, <2>1, <2>2 DEF StartStrCmp, TypeOK, InLoops
<1>4. CASE StartFstatat
  BY <1>2, <1>4 DEF StartFstatat, TypeOK, InLoops
<1>5. CASE MemCmp
  <2>1. /\ size' \in Nat /\ result' \in {-1, 0, 1} /\ pc' = "idle"
        /\ UNCHANGED <<curSize, stringLen>>
    BY <1>5, CompareAssumption DEF MemCmp, Begin, memcmp
  <2>2. buf' \in [Buffer -> Content]
    <3>1. \A m \in Memories, o \in Content : ReadInto(o, m, size') \in Content
      BY <2>1, ReadByte
    <3>2. {m1', m2'} \subseteq Memories
      BY <1>2, <1>5 DEF MemCmp
    <3>3. CASE buf' = buf
      BY <1>1, <3>3
    <3>4. CASE buf' = [buf EXCEPT !["bufA"] = ReadInto(@, m1', size'),
                                  !["bufB"] = ReadInto(@, m2', size')]
      <4>1. /\ ReadInto(buf["bufA"], m1', size') \in Content
            /\ ReadInto(buf["bufB"], m2', size') \in Content
        BY <1>1, <3>1, <3>2
      <4> QED
        BY <1>1, <3>4, <4>1 DEF Buffer
    <3> QED
      BY <1>5, <3>3, <3>4 DEF MemCmp
  <2> QED
    BY <1>2, <1>5, <2>1, <2>2 DEF MemCmp, TypeOK, InLoops
<1>6. CASE Longer
  <2>1. /\ InLoop /\ ReadString /\ stringLen' = curSize
        /\ curSize' = curSize + Stride
        /\ UNCHANGED <<op, m1, m2, size, pc, result, calls, died>>
    BY <1>6 DEF Longer, Stride
  <2>2. /\ buf' \in [Buffer -> Content] /\ curSize \in 1 .. BUF_SIZE - 1
    BY <2>1, ReadFacts
  <2>3. ASSUME op = "variantStrCmp"
        PROVE  curSize' <= BUF_SIZE /\ \E k \in Nat : curSize' = k * CHUNK
    <3>1. PICK k \in Nat : curSize = k * CHUNK
      BY <2>1, <2>3 DEF InLoops, InLoop
    <3>2. /\ (k + 1) * CHUNK <= BUF_SIZE
          /\ (k + 1) * CHUNK = curSize + CHUNK
      BY <2>2, <3>1, NextMultiple
    <3>3. curSize' = (k + 1) * CHUNK /\ k + 1 \in Nat
      BY <2>1, <2>3, <3>2 DEF Stride
    <3> QED
      BY <3>2, <3>3
  <2>4. op = "newfstatat" => curSize' = curSize + FSTAT_CHUNK
    BY <2>1 DEF Stride
  <2>5. op \in {"variantStrCmp", "newfstatat"} /\ pc' # "idle"
    BY <2>1 DEF InLoops, InLoop
  <2>6. TypeOK'
    BY <2>1, <2>2, <2>3, <2>4, <2>5 DEF TypeOK
  <2>7. curSize' >= 1
    BY <2>1, <2>2 DEF Stride
  <2> QED
    BY <2>1, <2>3, <2>5, <2>6, <2>7 DEF InLoops
<1>7. CASE Ended
  <2>1. /\ InLoop /\ ReadString /\ stringLen' < curSize
        /\ pc' \in {"idle", "compare"} /\ result' \in {-1, 0, 1}
        /\ UNCHANGED <<op, m1, m2, size, curSize, calls, died>>
    BY <1>7 DEF Ended, TypeOK
  <2>2. /\ buf' \in [Buffer -> Content] /\ curSize \in 1 .. BUF_SIZE - 1
        /\ stringLen' \in 0 .. curSize
    BY <2>1, ReadFacts
  <2>3. TypeOK'
    BY <2>1, <2>2 DEF TypeOK
  <2> QED
    BY <2>1, <2>3 DEF InLoops, InLoop
<1>8. CASE LoopOver
  BY <1>8 DEF LoopOver, TypeOK, InLoops
<1>9. CASE CompareStrings
  <2>1. /\ pc' = "idle" /\ result' \in {-1, 0, 1}
        /\ UNCHANGED <<op, m1, m2, size, curSize, stringLen, calls, died>>
    BY <1>9 DEF CompareStrings
  <2>2. buf' \in [Buffer -> Content]
    <3>1. PICK n \in Nat : buf' = [buf EXCEPT ![B] = ReadInto(@, m2, n)]
      BY <1>1, <1>9 DEF CompareStrings
    <3>2. ReadInto(buf[B], m2, n) \in Content
      BY <1>1, ReadByte
    <3> QED
      BY <1>1, <3>1, <3>2
  <2> QED
    BY <2>1, <2>2 DEF TypeOK, InLoops
<1>10. CASE Die
  BY <1>10 DEF Die, TypeOK, InLoops
<1>11. CASE UNCHANGED vars
  BY <1>11 DEF vars, TypeOK, InLoops
<1> QED
  BY <1>3, <1>4, <1>5, <1>6, <1>7, <1>8, <1>9, <1>10, <1>11
     DEF Next, Step, Finished

\* The buffers keep their size, and what is read into them stays within.
THEOREM CompareTypeCorrect == Spec => []TypeOK
<1>1. TypeOK /\ InLoops /\ [Next]_vars => TypeOK' /\ InLoops'
  BY TypeStep
<1> QED
  BY <1>1, TypeInit, PTL DEF Spec

-----------------------------------------------------------------------------
(* What the loops see of the master's memory                               *)

\* No byte of a memory that is not there is a zero.
LEMMA ReadNothing ==
    ASSUME TypeOK, InLoops, InLoop, ReadString, m1 = NoMemory
    PROVE  /\ stringLen' = curSize
           /\ \A i \in 0 .. curSize - 1 : buf'[A][i] = Minus1
<1>1. \A b \in 0 .. curSize - 1 : buf'[A][b] = Minus1
  <2> SUFFICES ASSUME NEW b \in 0 .. curSize - 1 PROVE buf'[A][b] = Minus1
    OBVIOUS
  <2>1. curSize \in Nat /\ b \in Nat
    BY ReadFacts, Sized
  <2>2. b \in Word(W * (b \div W))
    BY <2>1, WordOf
  <2>3. ~(Word(W * (b \div W)) \subseteq DOMAIN m1)
    BY <2>2, Bytes
  <2> QED
    BY <2>3, ReadFacts
<1>2. stringLen' \in 0 .. curSize - 1 => buf'[A][stringLen'] # 0
  BY <1>1 DEF Minus1
<1> QED
  BY <1>1, <1>2, ReadFacts, Sized

\* Of a string the end is seen as soon as it is read.
LEMMA ReadEnd ==
    ASSUME TypeOK, InLoops, InLoop, ReadString, IsString(m1)
    PROVE  /\ stringLen' = curSize => curSize <= EndOf(m1)
           /\ stringLen' < curSize =>
                  /\ stringLen' = EndOf(m1)
                  /\ \A i \in 0 .. stringLen' - 1 : buf'[A][i] = m1[i]
<1> DEFINE e == EndOf(m1)
           s == stringLen'
           a == buf'[A]
<1>1. /\ e \in Nat /\ m1[e] = 0 /\ \A i \in 0 .. e - 1 : m1[i] # 0
      /\ \A b \in 0 .. e : Word(W * (b \div W)) \subseteq DOMAIN m1
  BY StringEnd, Sized DEF TypeOK
<1>2. /\ curSize \in Nat /\ s \in 0 .. curSize
      /\ \A b \in 0 .. curSize - 1 :
            a[b] = IF Word(W * (b \div W)) \subseteq DOMAIN m1 THEN m1[b] ELSE Minus1
      /\ \A i \in 0 .. s - 1 : a[i] # 0
      /\ s = curSize \/ a[s] = 0
  BY ReadFacts, Sized
<1> HIDE DEF e, s, a
<1>3. \A b \in 0 .. e : b < curSize => a[b] = m1[b]
  BY <1>1, <1>2
<1>4. s > e => FALSE
  BY <1>1, <1>2, <1>3
<1>5. s < curSize => s = e
  <2> SUFFICES ASSUME s < curSize, s < e PROVE FALSE
    BY <1>1, <1>2, <1>4
  <2>1. s \in 0 .. e /\ s \in 0 .. e - 1
    BY <1>1, <1>2
  <2> QED
    BY <1>1, <1>2, <1>3, <2>1
<1>6. s < curSize => \A i \in 0 .. s - 1 : a[i] = m1[i]
  BY <1>1, <1>2, <1>3, <1>5
<1>7. s = curSize => curSize <= e
  BY <1>1, <1>2, <1>4
<1> QED
  BY <1>5, <1>6, <1>7 DEF e, s, a

LEMMA NoEndSeenStep ==
    ASSUME TypeOK, InLoops, NoEndSeen, [Next]_vars
    PROVE  NoEndSeen'
<1> USE Sized
<1> SUFFICES ASSUME pc' # "idle", ~died', m1' = NoMemory
             PROVE  /\ \/ /\ pc' = "loop" /\ curSize' < BUF_SIZE
                          /\ curSize' = IF op' = "newfstatat" THEN 1 ELSE CHUNK
                       \/ /\ stringLen' = curSize' - Stride'
                          /\ stringLen' >= 1
                          /\ Unreadable(stringLen)'
                    /\ pc' = "compare" => curSize' >= BUF_SIZE
  BY DEF NoEndSeen
<1>1. CASE StartStrCmp
  BY <1>1 DEF StartStrCmp, Begin
<1>2. CASE StartFstatat
  BY <1>2 DEF StartFstatat, Begin
<1>3. ~MemCmp /\ ~CompareStrings /\ ~Die
  BY DEF MemCmp, Begin, CompareStrings, Die
<1>4. CASE Longer
  <2>1. /\ InLoop /\ ReadString /\ m1 = NoMemory /\ pc' = "loop"
        /\ stringLen' = curSize /\ curSize' = curSize + Stride /\ op' = op
    BY <1>4 DEF Longer, Stride, InLoop
  <2>2. /\ \A i \in 0 .. curSize - 1 : buf'[A][i] = Minus1
        /\ curSize \in 1 .. BUF_SIZE - 1
    BY <2>1, ReadNothing, ReadFacts
  <2>3. A' = A /\ Stride' = Stride /\ Stride \in Nat
    BY <2>1 DEF A, Stride
  <2>4. Unreadable(stringLen)'
    BY <2>1, <2>2, <2>3 DEF Unreadable
  <2> QED
    BY <2>1, <2>2, <2>3, <2>4
<1>5. ~Ended
  <2> SUFFICES ASSUME Ended PROVE FALSE
    OBVIOUS
  <2>1. InLoop /\ ReadString /\ stringLen' < curSize /\ m1 = NoMemory
    BY DEF Ended
  <2> QED
    BY <2>1, ReadNothing, ReadFacts
<1>6. CASE LoopOver
  <2>1. /\ pc = "loop" /\ curSize >= BUF_SIZE /\ pc' = "compare"
        /\ UNCHANGED <<buf, op, m1, curSize, stringLen, died>>
    BY <1>6 DEF LoopOver
  <2>2. /\ curSize \in Nat
        /\ stringLen = curSize - Stride /\ stringLen >= 1
        /\ Unreadable(stringLen)
    BY <2>1 DEF NoEndSeen, TypeOK
  <2>3. Stride' = Stride /\ Unreadable(stringLen)'
    BY <2>1, <2>2 DEF Stride, Unreadable, A
  <2> QED
    BY <2>1, <2>2, <2>3
<1>7. CASE UNCHANGED vars
  BY <1>7 DEF vars, NoEndSeen, Stride, Unreadable, A
<1> QED
  BY <1>1, <1>2, <1>3, <1>4, <1>5, <1>6, <1>7 DEF Next, Step, Finished

LEMMA EndSeenStep ==
    ASSUME TypeOK, InLoops, EndSeen, [Next]_vars
    PROVE  EndSeen'
<1> USE Sized
<1> SUFFICES ASSUME pc' # "idle", ~died', IsString(m1'), Stride' <= CHUNK
             PROVE  /\ pc' = "loop" => curSize' < BUF_SIZE
                    /\ pc' = "compare" =>
                           /\ op' = "newfstatat"
                           /\ stringLen' = EndOf(m1')
                           /\ \A i \in 0 .. stringLen' - 1 : buf'[A'][i] = m1'[i]
  BY DEF EndSeen, IsString, EndOf
<1>1. CASE StartStrCmp
  BY <1>1 DEF StartStrCmp, Begin
<1>2. CASE StartFstatat
  BY <1>2 DEF StartFstatat, Begin
<1>3. ~MemCmp /\ ~CompareStrings /\ ~Die
  BY DEF MemCmp, Begin, CompareStrings, Die
<1>4. CASE Longer
  <2>1. /\ InLoop /\ ReadString /\ m1' = m1 /\ pc' = "loop"
        /\ stringLen' = curSize /\ curSize' = curSize + Stride /\ op' = op
    BY <1>4 DEF Longer, Stride, InLoop
  <2>2. IsString(m1) /\ Stride' = Stride /\ Stride \in Nat
    BY <2>1 DEF Stride
  <2>3. curSize <= EndOf(m1) /\ curSize \in Nat
    BY <2>1, <2>2, ReadEnd, ReadFacts
  <2>4. EndOf(m1) \in 0 .. BUF_SIZE - CHUNK - 1
    BY <2>2, StringEnd DEF TypeOK
  <2> QED
    BY <2>1, <2>2, <2>3, <2>4
<1>5. CASE Ended
  <2>1. /\ InLoop /\ ReadString /\ stringLen' < curSize
        /\ UNCHANGED <<op, m1>>
        /\ op = "newfstatat" /\ pc' = "compare"
    BY <1>5 DEF Ended
  <2>2. IsString(m1) /\ A' = A
    BY <2>1 DEF A
  <2> QED
    BY <2>1, <2>2, ReadEnd
<1>6. ~LoopOver
  <2> SUFFICES ASSUME LoopOver PROVE FALSE
    OBVIOUS
  <2>1. /\ pc = "loop" /\ curSize >= BUF_SIZE /\ curSize \in Nat
        /\ ~died /\ m1' = m1 /\ Stride' = Stride
    BY DEF LoopOver, TypeOK, Stride
  <2>2. IsString(m1) /\ Stride <= CHUNK
    BY <2>1
  <2> QED
    BY <2>1, <2>2 DEF EndSeen
<1>7. CASE UNCHANGED vars
  <2>1. UNCHANGED <<pc, died, m1, op, curSize, stringLen, buf>>
    BY <1>7 DEF vars
  <2>2. IsString(m1) /\ Stride <= CHUNK /\ A' = A
    BY <2>1 DEF Stride, A
  <2> QED
    BY <2>1, <2>2 DEF EndSeen
<1> QED
  BY <1>1, <1>2, <1>3, <1>4, <1>5, <1>6, <1>7 DEF Next, Step, Finished

LEMMA LongSeenStep ==
    ASSUME TypeOK, InLoops, LongSeen, [Next]_vars
    PROVE  LongSeen'
<1> USE Sized
<1> SUFFICES ASSUME pc' # "idle", ~died', op' = "variantStrCmp"
             PROVE  /\ \/ pc' = "loop" /\ curSize' = CHUNK
                       \/ /\ stringLen' = curSize' - CHUNK
                          /\ \A i \in 0 .. stringLen' - 1 :
                                 /\ buf'["bufA"][i] = Seen(m1', i)
                                 /\ buf'["bufA"][i] # 0
                    /\ pc' = "compare" => curSize' = BUF_SIZE
  BY DEF LongSeen, Seen
<1>1. CASE StartStrCmp
  BY <1>1 DEF StartStrCmp, Begin
<1>2. ~StartFstatat /\ ~MemCmp /\ ~CompareStrings /\ ~Die /\ ~Ended
  BY DEF StartFstatat, MemCmp, Begin, CompareStrings, Die, Ended, InLoop
<1>3. CASE Longer
  <2>1. /\ InLoop /\ ReadString /\ m1' = m1 /\ pc' = "loop"
        /\ op = "variantStrCmp"
        /\ stringLen' = curSize /\ curSize' = curSize + CHUNK
    BY <1>3 DEF Longer, InLoop
  <2>2. /\ A = "bufA" /\ curSize \in Nat
        /\ \A i \in 0 .. curSize - 1 : /\ buf'["bufA"][i] = Seen(m1, i)
                                      /\ buf'["bufA"][i] # 0
    BY <2>1, ReadFacts DEF A, Seen
  <2> QED
    BY <2>1, <2>2
<1>4. CASE LoopOver
  <2>1. /\ pc = "loop" /\ curSize >= BUF_SIZE /\ ~died
        /\ op = "variantStrCmp"
        /\ UNCHANGED <<buf, m1, curSize, stringLen>>
    BY <1>4 DEF LoopOver
  <2>2. curSize = BUF_SIZE
    BY <2>1 DEF InLoops, TypeOK
  <2> QED
    BY <2>1, <2>2 DEF LongSeen
<1>5. CASE UNCHANGED vars
  BY <1>5 DEF vars, LongSeen
<1> QED
  BY <1>1, <1>2, <1>3, <1>4, <1>5 DEF Next, Step, Finished

-----------------------------------------------------------------------------
(* What comes of a comparison                                              *)

\* Before a zero strncmp compares like memcmp.
LEMMA StrncmpCompares ==
    ASSUME NEW a, NEW b, NEW n \in Nat, \A i \in 0 .. n - 1 : a[i] # 0
    PROVE  strncmp(a, b, n) = 0 <=> \A i \in 0 .. n - 1 : a[i] = b[i]
<1>1. \A i \in 0 .. n - 1 : \A j \in 0 .. i - 1 : j \in 0 .. n - 1
  OBVIOUS
<1> QED
  BY <1>1 DEF strncmp

\* The bytes of the replica that are compared, and those of the master.
LEMMA CompareFacts ==
    ASSUME TypeOK, InLoops, CompareStrings,
           op = "variantStrCmp" => stringLen <= curSize
    PROVE  /\ buf'[A] = buf[A] /\ stringLen \in 0 .. BUF_SIZE - 1
           /\ \A b \in 0 .. stringLen - 1 :
                 buf'[B][b] = IF Word(W * (b \div W)) \subseteq DOMAIN m2
                              THEN m2[b] ELSE Minus1
           /\ op \in {"variantStrCmp", "newfstatat"} /\ pc' = "idle"
           /\ result' = IF strncmp(buf[A], buf'[B], stringLen) = 0 THEN 0
                        ELSE IF op = "newfstatat" THEN -1 ELSE 1
           /\ UNCHANGED <<op, m1, m2, died>>
<1> DEFINE n == IF op = "newfstatat" THEN stringLen ELSE curSize
<1>1. /\ op \in {"variantStrCmp", "newfstatat"} /\ pc' = "idle"
      /\ buf' = [buf EXCEPT ![B] = ReadInto(@, m2, n)]
      /\ UNCHANGED <<op, m1, m2, died>>
  BY DEF CompareStrings, InLoops
<1>2. result' = IF strncmp(buf[A], buf'[B], stringLen) = 0 THEN 0
                ELSE IF op = "newfstatat" THEN -1 ELSE 1
  BY DEF CompareStrings
<1>3. /\ A \in Buffer /\ B \in Buffer /\ A # B
      /\ buf \in [Buffer -> Content] /\ n \in Nat /\ stringLen <= n
      /\ stringLen \in 0 .. BUF_SIZE - 1
      /\ m2 \in Memories \cup {NoMemory}
  BY <1>1, Sized DEF TypeOK, A, B, Buffer
<1> HIDE DEF n
<1>4. buf'[A] = buf[A] /\ buf'[B] = ReadInto(buf[B], m2, n)
  BY <1>1, <1>3
<1>5. \A b \in 0 .. stringLen - 1 : b \in 0 .. BUF_SIZE - 1 /\ b < n
  BY <1>3, Sized
<1>6. \A b \in 0 .. BUF_SIZE - 1 :
         b < n => ReadInto(buf[B], m2, n)[b] =
                      IF Word(W * (b \div W)) \subseteq DOMAIN m2
                      THEN m2[b] ELSE Minus1
  BY <1>3, ReadByte
<1>7. \A b \in 0 .. stringLen - 1 :
         buf'[B][b] = IF Word(W * (b \div W)) \subseteq DOMAIN m2
                      THEN m2[b] ELSE Minus1
  BY <1>4, <1>5, <1>6
<1> QED
  BY <1>1, <1>2, <1>3, <1>4, <1>7

\* Every memory that is plain either has an end or is not there.
LEMMA ReadOfPlain ==
    ASSUME NEW n \in Nat, NEW b, NEW m \in Memories \cup {NoMemory},
           \A i \in 0 .. n - 1 : b[i] = IF Word(W * (i \div W)) \subseteq DOMAIN m
                                        THEN m[i] ELSE Minus1
    PROVE  /\ m = NoMemory => \A i \in 0 .. n - 1 : b[i] = Minus1
           /\ IsString(m) => \A i \in 0 .. n - 1 : i <= EndOf(m) => b[i] = m[i]
<1>1. ASSUME m = NoMemory, NEW i \in 0 .. n - 1 PROVE b[i] = Minus1
  <2>1. i \in Word(W * (i \div W))
    BY WordOf
  <2> QED
    BY <1>1, <2>1, Bytes
<1>2. ASSUME IsString(m), NEW i \in 0 .. n - 1, i <= EndOf(m) PROVE b[i] = m[i]
  <2>1. i \in 0 .. EndOf(m)
    BY <1>2, StringEnd, Sized
  <2> QED
    BY <1>2, <2>1, StringEnd
<1> QED
  BY <1>1, <1>2

\* A finished comparison stays as it is until the next.
LEMMA OutcomesKept ==
    ASSUME InLoops, [Next]_vars, ~Ended, ~CompareStrings, ~MemCmp, pc' = "idle"
    PROVE  UNCHANGED <<pc, op, m1, m2, size, result, died>>
BY DEF Next, Step, StartStrCmp, StartFstatat, Longer, InLoop, LoopOver, Die,
       Finished, vars

\* What variantStrCmp returns has been compared over the bytes in the buffers.
LEMMA StrSoundStep ==
    ASSUME CompareInv, StrSound, [Next]_vars
    PROVE  StrSound'
<1> USE Sized
<1> SUFFICES ASSUME pc' = "idle", op' = "variantStrCmp", ~died', result' # -1
             PROVE  result' = 0 <=>
                        \A b \in 0 .. BUF_SIZE - CHUNK - 1 :
                            Seen(m1', b) = Seen(m2', b)
  BY DEF StrSound, Done, Seen
<1>1. ~MemCmp /\ ~Ended
  BY DEF MemCmp, Begin, Ended, InLoop
<1>2. CASE CompareStrings
  <2>1. /\ pc = "compare" /\ op = "variantStrCmp" /\ ~died
        /\ m1' = m1 /\ m2' = m2 /\ A = "bufA"
    BY <1>2 DEF CompareStrings, A
  <2>2. /\ curSize = BUF_SIZE /\ stringLen = BUF_SIZE - CHUNK
        /\ \A i \in 0 .. stringLen - 1 : /\ buf[A][i] = Seen(m1, i)
                                        /\ buf[A][i] # 0
    BY <2>1 DEF CompareInv, LongSeen
  <2>3. /\ stringLen \in Nat
        /\ \A b \in 0 .. stringLen - 1 : buf'[B][b] = Seen(m2, b)
        /\ result' = IF strncmp(buf[A], buf'[B], stringLen) = 0 THEN 0 ELSE 1
    BY <1>2, <2>1, <2>2, CompareFacts DEF CompareInv, Seen
  <2>4. strncmp(buf[A], buf'[B], stringLen) = 0
            <=> \A i \in 0 .. stringLen - 1 : buf[A][i] = buf'[B][i]
    BY <2>2, <2>3, StrncmpCompares
  <2> QED
    BY <2>1, <2>2, <2>3, <2>4
<1>3. CASE ~CompareStrings
  <2>1. UNCHANGED <<pc, op, m1, m2, size, result, died>>
    BY <1>1, <1>3, OutcomesKept DEF CompareInv
  <2> QED
    BY <2>1 DEF StrSound, Done, Seen
<1> QED
  BY <1>2, <1>3

\* The outcome that module Executors has for variantStrCmp, of a path or of an
\* address that cannot be read: what the loop does, not what is written of it.
StrRecord ==
    Done("variantStrCmp") /\ Plain(m1) /\ Plain(m2) =>
        LET readable(m) == IF m = NoMemory THEN 0 ELSE 2
        IN  result = variantStrCmp(readable(m1), readable(m2))

LEMMA StrRecordStep ==
    ASSUME CompareInv, StrRecord, [Next]_vars
    PROVE  StrRecord'
<1> USE Sized
<1> DEFINE readable(m) == IF m = NoMemory THEN 0 ELSE 2
<1> SUFFICES ASSUME pc' = "idle", op' = "variantStrCmp", ~died',
                    Plain(m1'), Plain(m2')
             PROVE  result' = variantStrCmp(readable(m1'), readable(m2'))
  BY DEF StrRecord, Done, Plain, IsString
<1>1. ~MemCmp
  BY DEF MemCmp, Begin
<1>2. CASE Ended
  <2>1. /\ InLoop /\ ReadString /\ stringLen' < curSize
        /\ result' = -1 /\ m1' = m1
    BY <1>2 DEF Ended
  <2>2. m1 # NoMemory
    BY <2>1, ReadNothing, ReadFacts DEF CompareInv
  <2> QED
    BY <2>1, <2>2 DEF variantStrCmp
<1>3. CASE CompareStrings
  <2>1. /\ pc = "compare" /\ op = "variantStrCmp" /\ ~died
        /\ m1' = m1 /\ m2' = m2 /\ Plain(m1) /\ Plain(m2)
    BY <1>3 DEF CompareStrings
  <2>2. m1 = NoMemory
    BY <2>1 DEF Plain, CompareInv, EndSeen, Stride
  <2>3. /\ stringLen = curSize - CHUNK /\ curSize >= BUF_SIZE
        /\ curSize \in Nat
        /\ \A i \in 0 .. stringLen - 1 : buf[A][i] = Minus1
    BY <2>1, <2>2 DEF CompareInv, NoEndSeen, Stride, Unreadable, TypeOK
  <2>4. /\ stringLen \in 0 .. BUF_SIZE - 1
        /\ \A b \in 0 .. stringLen - 1 :
              buf'[B][b] = IF Word(W * (b \div W)) \subseteq DOMAIN m2
                           THEN m2[b] ELSE Minus1
        /\ result' = IF strncmp(buf[A], buf'[B], stringLen) = 0 THEN 0 ELSE 1
    BY <1>3, <2>1, <2>3, CompareFacts DEF CompareInv
  <2>5. m2 \in Memories \cup {NoMemory} /\ stringLen \in Nat
    BY <2>4 DEF CompareInv, TypeOK
  <2>6. strncmp(buf[A], buf'[B], stringLen) = 0
            <=> \A i \in 0 .. stringLen - 1 : buf[A][i] = buf'[B][i]
    BY <2>3, <2>5, StrncmpCompares DEF Minus1
  <2>7. CASE m2 = NoMemory
    <3>1. \A i \in 0 .. stringLen - 1 : buf'[B][i] = Minus1
      BY <2>4, <2>5, <2>7, ReadOfPlain
    <3> QED
      BY <2>1, <2>2, <2>3, <2>4, <2>6, <2>7, <3>1 DEF variantStrCmp
  <2>8. CASE m2 # NoMemory
    <3>1. IsString(m2)
      BY <2>1, <2>8 DEF Plain
    <3>2. EndOf(m2) \in 0 .. BUF_SIZE - CHUNK - 1 /\ m2[EndOf(m2)] = 0
      BY <2>5, <3>1, StringEnd
    <3>3. EndOf(m2) \in 0 .. stringLen - 1
      BY <2>3, <2>5, <3>2
    <3>4. buf'[B][EndOf(m2)] = 0
      BY <2>4, <2>5, <3>1, <3>2, <3>3, ReadOfPlain
    <3>5. buf[A][EndOf(m2)] # 0
      BY <2>3, <3>3 DEF Minus1
    <3> QED
      BY <2>1, <2>2, <2>4, <2>6, <2>8, <3>3, <3>4, <3>5 DEF variantStrCmp
  <2> QED
    BY <2>7, <2>8
<1>4. CASE ~Ended /\ ~CompareStrings
  <2>1. UNCHANGED <<pc, op, m1, m2, size, result, died>>
    BY <1>1, <1>4, OutcomesKept DEF CompareInv
  <2> QED
    BY <2>1 DEF StrRecord, Done
<1> QED
  BY <1>2, <1>3, <1>4

FirstBytes(m, n) == [b \in 0 .. n - 1 |-> m[b]]

\* What is read of two mapped buffers compares like the buffers.
LEMMA WholeCompared ==
    ASSUME NEW n \in 0 .. BUF_SIZE, NEW o1 \in Content, NEW o2 \in Content,
           NEW x \in Memories, NEW y \in Memories,
           \A b \in 0 .. n - 1 : Word(W * (b \div W)) \subseteq DOMAIN x,
           \A b \in 0 .. n - 1 : Word(W * (b \div W)) \subseteq DOMAIN y
    PROVE  memcmp(ReadInto(o1, x, n), ReadInto(o2, y, n), n) =
               variantMemCmp(FirstBytes(x, n), FirstBytes(y, n), n)
<1> DEFINE a == ReadInto(o1, x, n)
           c == ReadInto(o2, y, n)
           xs == FirstBytes(x, n)
           ys == FirstBytes(y, n)
           same == \A i \in 0 .. n - 1 : x[i] = y[i]
<1>1. n \in Nat /\ \A i \in 0 .. n - 1 : i \in 0 .. BUF_SIZE - 1 /\ i < n
  BY Sized
<1>2. \A i \in 0 .. n - 1 : a[i] = x[i]
  BY <1>1, ReadByte
<1>3. \A i \in 0 .. n - 1 : c[i] = y[i]
  BY <1>1, ReadByte
<1> HIDE DEF a, c
<1>4. memcmp(a, c, n) = IF same THEN 0 ELSE 1
  BY <1>2, <1>3 DEF memcmp
<1>5. xs = ys <=> same
  <2>1. xs = ys => \A i \in 0 .. n - 1 : xs[i] = ys[i]
    OBVIOUS
  <2> QED
    BY <2>1 DEF FirstBytes
<1>6. FitsBuffer(n) /\ (n = 0 => same)
  BY <1>1 DEF FitsBuffer
<1> HIDE DEF xs, ys, same
<1>7. variantMemCmp(xs, ys, n) = IF same THEN 0 ELSE 1
  BY <1>5, <1>6 DEF variantMemCmp
<1> QED
  BY <1>4, <1>7 DEF a, c, xs, ys

LEMMA MemOutcomeStep ==
    ASSUME CompareInv, MemOutcome, [Next]_vars
    PROVE  MemOutcome'
<1>1. CASE MemCmp
  <2>1. /\ size' \in Nat /\ m1' \in Memories /\ m2' \in Memories
    BY <1>1, CompareAssumption DEF MemCmp, Begin
  <2>2. size' > BUF_SIZE => result' = -1
    BY <1>1 DEF MemCmp
  <2>3. ASSUME size' <= BUF_SIZE,
               \A b \in 0 .. size' - 1 : Word(W * (b \div W)) \subseteq DOMAIN m1',
               \A b \in 0 .. size' - 1 : Word(W * (b \div W)) \subseteq DOMAIN m2'
        PROVE  result' = variantMemCmp(FirstBytes(m1', size'),
                                       FirstBytes(m2', size'), size')
    <3>1. /\ buf' = [buf EXCEPT !["bufA"] = ReadInto(@, m1', size'),
                                !["bufB"] = ReadInto(@, m2', size')]
          /\ result' = memcmp(buf'["bufA"], buf'["bufB"], size')
      BY <1>1, <2>1, <2>3, Sized DEF MemCmp
    <3>2. /\ buf'["bufA"] = ReadInto(buf["bufA"], m1', size')
          /\ buf'["bufB"] = ReadInto(buf["bufB"], m2', size')
          /\ buf["bufA"] \in Content /\ buf["bufB"] \in Content
      BY <3>1 DEF CompareInv, TypeOK, Buffer
    <3>3. size' \in 0 .. BUF_SIZE
      BY <2>1, <2>3, Sized
    <3>4. memcmp(ReadInto(buf["bufA"], m1', size'),
                 ReadInto(buf["bufB"], m2', size'), size') =
          variantMemCmp(FirstBytes(m1', size'), FirstBytes(m2', size'), size')
      BY <2>1, <2>3, <3>2, <3>3, WholeCompared, ZenonT(30)
    <3> QED
      BY <3>1, <3>2, <3>4, ZenonT(30)
  <2>4. size' > BUF_SIZE \/ size' <= BUF_SIZE
    BY <2>1, Sized
  <2> QED
    BY <2>1, <2>2, <2>3, <2>4, Sized DEF MemOutcome, FirstBytes
<1>2. CASE ~MemCmp /\ Done("variantMemCmp")'
  <2>1. ~Ended /\ ~CompareStrings
    BY <1>2 DEF Done, Ended, CompareStrings, InLoop, CompareInv, InLoops
  <2>2. UNCHANGED <<pc, op, m1, m2, size, result, died>>
    BY <1>2, <2>1, OutcomesKept DEF CompareInv, Done
  <2> QED
    BY <2>2 DEF MemOutcome, Done
<1>3. CASE ~Done("variantMemCmp")'
  BY <1>3 DEF MemOutcome, Done
<1> QED
  BY <1>1, <1>2, <1>3

\* No byte of a path is 255, which no text in UTF-8 has: the monitor could not
\* tell it from memory that is not there.
NoMinus1 == \A m \in Memories : \A b \in DOMAIN m : m[b] # Minus1

LEMMA PrefixOutcomeStep ==
    ASSUME FSTAT_CHUNK <= CHUNK, NoMinus1, CompareInv, PrefixOutcome, [Next]_vars
    PROVE  PrefixOutcome'
<1> USE Sized
<1> SUFFICES ASSUME pc' = "idle", op' = "newfstatat", ~died',
                    Plain(m1'), Plain(m2')
             PROVE  result' = 0 <=> StartsWith(m2', m1')
  BY DEF PrefixOutcome, Done, Plain, IsString, StartsWith, EndOf, Text
<1>1. ~MemCmp /\ ~Ended
  BY DEF MemCmp, Begin, Ended, InLoop
<1>2. CASE CompareStrings
  <2> DEFINE a == buf[A]
             b == buf'[B]
  <2>1. /\ pc = "compare" /\ op = "newfstatat" /\ ~died
        /\ m1' = m1 /\ m2' = m2 /\ Plain(m1) /\ Plain(m2)
        /\ Stride <= CHUNK /\ Stride = FSTAT_CHUNK
    BY <1>2 DEF CompareStrings, Stride
  <2>2. /\ stringLen \in 0 .. BUF_SIZE - 1
        /\ \A i \in 0 .. stringLen - 1 :
              b[i] = IF Word(W * (i \div W)) \subseteq DOMAIN m2
                     THEN m2[i] ELSE Minus1
        /\ result' = IF strncmp(a, b, stringLen) = 0 THEN 0 ELSE -1
    BY <1>2, <2>1, CompareFacts DEF CompareInv
  <2> HIDE DEF a, b
  <2>3. /\ m1 \in Memories \cup {NoMemory} /\ m2 \in Memories \cup {NoMemory}
        /\ stringLen \in Nat /\ curSize \in Nat
    BY <2>2 DEF CompareInv, TypeOK
  <2>4. /\ m2 = NoMemory => \A i \in 0 .. stringLen - 1 : b[i] = Minus1
        /\ IsString(m2) =>
               \A i \in 0 .. stringLen - 1 : i <= EndOf(m2) => b[i] = m2[i]
    <3>1. \A i \in 0 .. stringLen - 1 :
              b[i] = IF Word(W * (i \div W)) \subseteq DOMAIN m2
                     THEN m2[i] ELSE Minus1
      BY <2>2
    <3>2. CASE m2 = NoMemory
      <4>1. \A i \in 0 .. stringLen - 1 : b[i] = Minus1
        <5> TAKE i \in 0 .. stringLen - 1
        <5>1. i \in Word(W * (i \div W))
          BY <2>3, WordOf
        <5> QED
          BY <3>1, <3>2, <5>1, Bytes
      <4> QED
        BY <3>2, <4>1, NoMemoryNoString
    <3>3. CASE IsString(m2)
      <4>1. ASSUME NEW i \in 0 .. stringLen - 1, i <= EndOf(m2)
            PROVE  b[i] = m2[i]
        <5>1. i \in 0 .. EndOf(m2)
          BY <2>3, <3>3, <4>1, StringEnd
        <5>2. Word(W * (i \div W)) \subseteq DOMAIN m2
          BY <2>3, <3>3, <5>1, StringEnd
        <5> QED
          BY <3>1, <5>2
      <4> QED
        BY <3>3, <4>1, NoMemoryNoString
    <3> QED
      BY <3>2, <3>3
  <2>5. /\ IsString(m2) =>
               /\ EndOf(m2) \in 0 .. BUF_SIZE - CHUNK - 1
               /\ m2[EndOf(m2)] = 0
               /\ \A i \in 0 .. EndOf(m2) - 1 : m2[i] # 0
               /\ \A i \in 0 .. EndOf(m2) : i \in DOMAIN m2
    BY <2>3, StringEnd
  <2>6. CASE m1 = NoMemory
    <3>1. /\ stringLen = curSize - FSTAT_CHUNK /\ curSize >= BUF_SIZE
          /\ stringLen >= 1 /\ \A i \in 0 .. stringLen - 1 : a[i] = Minus1
      BY <2>1, <2>6 DEF CompareInv, NoEndSeen, Unreadable, a
    <3>2. strncmp(a, b, stringLen) = 0
              <=> \A i \in 0 .. stringLen - 1 : a[i] = b[i]
      BY <2>3, <3>1, StrncmpCompares DEF Minus1
    <3>3. StartsWith(m2, m1) <=> m2 = NoMemory
      BY <2>6, NoMemoryNoString DEF StartsWith
    <3>4. CASE m2 = NoMemory
      BY <2>1, <2>2, <2>4, <3>1, <3>2, <3>3, <3>4
    <3>5. CASE IsString(m2)
      <4>1. EndOf(m2) \in 0 .. stringLen - 1
        BY <2>1, <2>3, <2>5, <3>1, <3>5
      <4>2. b[EndOf(m2)] = 0 /\ a[EndOf(m2)] = Minus1
        BY <2>3, <2>4, <2>5, <3>1, <3>5, <4>1
      <4> QED
        BY <2>1, <2>2, <3>2, <3>3, <3>5, <4>1, <4>2, NoMemoryNoString DEF Minus1
    <3> QED
      BY <2>1, <3>4, <3>5 DEF Plain
  <2>7. CASE IsString(m1)
    <3> DEFINE e == EndOf(m1)
    <3>1. /\ stringLen = e
          /\ \A i \in 0 .. e - 1 : a[i] = m1[i]
      BY <2>1, <2>7 DEF CompareInv, EndSeen, a
    <3>2. /\ e \in 0 .. BUF_SIZE - CHUNK - 1
          /\ \A i \in 0 .. e - 1 : m1[i] # 0 /\ m1[i] # Minus1
      <4>1. /\ e \in 0 .. BUF_SIZE - CHUNK - 1
            /\ \A i \in 0 .. e - 1 : m1[i] # 0
            /\ \A i \in 0 .. e : i \in DOMAIN m1
        BY <2>3, <2>7, StringEnd
      <4>2. m1 \in Memories
        BY <2>3, <2>7, NoMemoryNoString
      <4>3. \A i \in 0 .. e - 1 : i \in 0 .. e
        BY <4>1
      <4> QED
        BY <4>1, <4>2, <4>3 DEF NoMinus1
    <3>3. strncmp(a, b, e) = 0 <=> \A i \in 0 .. e - 1 : a[i] = b[i]
      BY <2>3, <3>1, <3>2, StrncmpCompares
    <3>4. result' = 0 <=> \A i \in 0 .. e - 1 : m1[i] = b[i]
      BY <2>2, <3>1, <3>3
    <3>5. StartsWith(m2, m1) <=>
              \/ e = 0
              \/ /\ IsString(m2) /\ e <= EndOf(m2)
                 /\ \A i \in 0 .. e - 1 : m2[i] = m1[i]
      BY <2>7, NoMemoryNoString DEF StartsWith, Text
    <3> HIDE DEF e
    <3>6. CASE m2 = NoMemory
      <4>1. \A i \in 0 .. e - 1 : b[i] = Minus1
        BY <2>4, <3>1, <3>6
      <4>2. e = 0 \/ ~ \A i \in 0 .. e - 1 : m1[i] = b[i]
        <5> SUFFICES ASSUME e # 0 PROVE m1[0] # b[0] /\ 0 \in 0 .. e - 1
          OBVIOUS
        <5> QED
          BY <3>2, <4>1
      <4>3. e = 0 => \A i \in 0 .. e - 1 : m1[i] = b[i]
        OBVIOUS
      <4> QED
        BY <2>1, <3>4, <3>5, <3>6, <4>2, <4>3, NoMemoryNoString
    <3>7. CASE IsString(m2)
      <4>1. CASE e <= EndOf(m2)
        <5>1. \A i \in 0 .. e - 1 : b[i] = m2[i]
          BY <2>4, <2>5, <3>1, <3>2, <3>7, <4>1
        <5>2. e = 0 => \A i \in 0 .. e - 1 : m1[i] = b[i]
          OBVIOUS
        <5> QED
          BY <2>1, <3>4, <3>5, <3>7, <4>1, <5>1, <5>2
      <4>2. CASE EndOf(m2) < e
        <5>1. EndOf(m2) \in 0 .. e - 1 /\ e # 0
          BY <2>5, <3>2, <3>7, <4>2
        <5>2. b[EndOf(m2)] = 0
          BY <2>4, <2>5, <3>1, <3>7, <5>1
        <5> QED
          BY <2>1, <2>5, <3>2, <3>4, <3>5, <3>7, <4>2, <5>1, <5>2
      <4> QED
        BY <2>5, <3>2, <3>7, <4>1, <4>2
    <3> QED
      BY <2>1, <3>6, <3>7 DEF Plain
  <2> QED
    BY <2>1, <2>6, <2>7 DEF Plain
<1>3. CASE ~CompareStrings
  <2>1. UNCHANGED <<pc, op, m1, m2, size, result, died>>
    BY <1>1, <1>3, OutcomesKept DEF CompareInv
  <2> QED
    BY <2>1 DEF PrefixOutcome, Done
<1> QED
  BY <1>2, <1>3

-----------------------------------------------------------------------------
(* The theorems                                                            *)

LEMMA CompareInvCorrect == Spec => []CompareInv
<1>1. Init => NoEndSeen /\ EndSeen /\ LongSeen
  BY DEF Init, NoEndSeen, EndSeen, LongSeen
<1>2. TypeOK /\ InLoops /\ NoEndSeen /\ EndSeen /\ LongSeen /\ [Next]_vars =>
          TypeOK' /\ InLoops' /\ NoEndSeen' /\ EndSeen' /\ LongSeen'
  BY TypeStep, NoEndSeenStep, EndSeenStep, LongSeenStep
<1> QED
  BY <1>1, <1>2, TypeInit, PTL DEF Spec, CompareInv

\* Executors has the outcome of the loop of variantStrCmp: an error for every
\* string that ends, and else whether the other memory cannot be read either.
LEMMA StrRecordCorrect == Spec => []StrRecord
<1>1. Init => StrRecord
  BY DEF Init, StrRecord, Done
<1>2. CompareInv /\ StrRecord /\ [Next]_vars => StrRecord'
  BY StrRecordStep
<1> QED
  BY <1>1, <1>2, CompareInvCorrect, PTL DEF Spec

\* Whatever variantStrCmp does not report as an error it has compared.
THEOREM StrSoundCorrect == Spec => []StrSound
<1>1. Init => StrSound
  BY DEF Init, StrSound, Done
<1>2. CompareInv /\ StrSound /\ [Next]_vars => StrSound'
  BY StrSoundStep
<1> QED
  BY <1>1, <1>2, CompareInvCorrect, PTL DEF Spec

\* variantMemCmp compares what the two buffers hold, all of it and no more.
THEOREM MemOutcomeCorrect == Spec => []MemOutcome
<1>1. Init => MemOutcome
  BY DEF Init, MemOutcome, Done
<1>2. CompareInv /\ MemOutcome /\ [Next]_vars => MemOutcome'
  BY MemOutcomeStep
<1> QED
  BY <1>1, <1>2, CompareInvCorrect, PTL DEF Spec

\* newfstatat accepts a path that starts with the master's, if it increases
\* its size by no more than variantStrCmp does, as in the code.
THEOREM PrefixOutcomeCorrect ==
    ASSUME FSTAT_CHUNK <= CHUNK, NoMinus1
    PROVE  Spec => []PrefixOutcome
<1>1. Init => PrefixOutcome
  BY DEF Init, PrefixOutcome, Done
<1>2. CompareInv /\ PrefixOutcome /\ [Next]_vars => PrefixOutcome'
  BY PrefixOutcomeStep
<1> QED
  BY <1>1, <1>2, CompareInvCorrect, PTL DEF Spec
=============================================================================
