--------------------------- MODULE TransferProofs ---------------------------
(***************************************************************************)
(* Type correctness of Transfer, and what a transfer leaves alone and      *)
(* reads, for every size, buffer and memory, with deaths at any point.     *)
(***************************************************************************)
EXTENDS Transfer, TLAPS

\* What peeking gives is data, whether or not the word is mapped: -1 stands
\* for a failed PTRACE_PEEKDATA.
LEMMA PeekType ==
    ASSUME NEW mem, mem \in [DOMAIN mem -> Int], NEW a \in Int
    PROVE  Peek(mem, a) \in [0 .. W - 1 -> Int]
  BY DEF Peek, Word, Minus1, W

\* A poke maps nothing and unmaps nothing.
LEMMA PokeType ==
    ASSUME NEW mem, mem \in [DOMAIN mem -> Int], DOMAIN mem \subseteq Int,
           NEW a \in Int, NEW word \in [0 .. W - 1 -> Int]
    PROVE  Poke(mem, a, word) \in [DOMAIN mem -> Int]
  BY DEF Poke, Word, W

\* The memories and buffers that the constants name are functions on bytes.
LEMMA Memories ==
    /\ \A m \in Sources \cup Dests : /\ m \in [DOMAIN m -> Int]
                                    /\ DOMAIN m \subseteq Int
    /\ \A l \in Locals : /\ l \in [DOMAIN l -> Int]
                         /\ DOMAIN l = 0 .. LOCAL_SIZE + W - 1
<1>1. ASSUME NEW m \in Sources \cup Dests
      PROVE  m \in [DOMAIN m -> Int] /\ DOMAIN m \subseteq Int
  <2>1. DOMAIN m \subseteq Nat /\ m \in [DOMAIN m -> Int]
    BY TransferAssumption
  <2> QED
    BY <2>1
<1>2. ASSUME NEW l \in Locals
      PROVE  l \in [DOMAIN l -> Int] /\ DOMAIN l = 0 .. LOCAL_SIZE + W - 1
  <2>1. l \in [Mapped(LOCAL_SIZE + W) -> Int]
    BY TransferAssumption
  <2>2. Mapped(LOCAL_SIZE + W) = 0 .. LOCAL_SIZE + W - 1
    BY TransferAssumption DEF Mapped, W
  <2> QED
    BY <2>1, <2>2
<1> QED
  BY <1>1, <1>2

\* The bytes of a memory are those that the constants say, or none.
LEMMA Domains ==
    ASSUME TypeOK
    PROVE  /\ src \in [DOMAIN src -> Int]
           /\ dst \in [DOMAIN dst -> Int]
           /\ DOMAIN dst \subseteq Int
           /\ local \in [DOMAIN local -> Int]
           /\ DOMAIN local = 0 .. LOCAL_SIZE + W - 1
           /\ DOMAIN was.local = DOMAIN local
<1>1. /\ was.src \in Sources /\ was.dst \in Dests /\ was.local \in Locals
  BY DEF TypeOK
<1>2. NoMemory \in [{} -> Int] /\ DOMAIN NoMemory = {}
  BY DEF NoMemory
<1>3. src \in [DOMAIN src -> Int]
  BY <1>1, <1>2, Memories DEF TypeOK
<1>4. dst \in [DOMAIN dst -> Int] /\ DOMAIN dst \subseteq Int
  BY <1>1, <1>2, Memories DEF TypeOK
<1>5. /\ local \in [DOMAIN was.local -> Int]
      /\ DOMAIN was.local = 0 .. LOCAL_SIZE + W - 1
  BY <1>1, Memories DEF TypeOK
<1> QED
  BY <1>3, <1>4, <1>5

\* Writing a word leaves the destination what it was: mapped alike, or gone.
LEMMA PokeDst ==
    ASSUME TypeOK, NEW a \in Int, NEW word \in [0 .. W - 1 -> Int],
           dst' = Poke(dst, a, word), UNCHANGED was
    PROVE  (dst = NoMemory \/ dst \in [DOMAIN was.dst -> Int])'
<1>1. CASE dst = NoMemory
  BY <1>1 DEF Poke, NoMemory
<1>2. CASE dst \in [DOMAIN was.dst -> Int]
  <2>1. Poke(dst, a, word) \in [DOMAIN dst -> Int]
    BY Domains, PokeType
  <2> QED
    BY <1>2, <2>1
<1> QED
  BY <1>1, <1>2 DEF TypeOK

-----------------------------------------------------------------------------
\* The variables have the types of the C locals and of the memories.
LEMMA TypeInit == Init => TypeOK
<1> SUFFICES ASSUME Init PROVE TypeOK
  OBVIOUS
<1>1. was.dst \in [DOMAIN was.dst -> Int] /\ was.local \in [DOMAIN was.local -> Int]
  BY TransferAssumption DEF Init
<1>2. size \in 0 .. SIZE_MOD - 1
  BY TransferAssumption, BufSizeAssumption DEF Init
<1> QED
  BY <1>1, <1>2 DEF Init, TypeOK

\* Every step keeps the types.
LEMMA TypeStep == TypeOK /\ [Next]_vars => TypeOK'
<1> SUFFICES ASSUME TypeOK, [Next]_vars PROVE TypeOK'
  OBVIOUS
<1>1. /\ size \in Nat /\ moved \in Nat /\ moved <= size
      /\ size < SIZE_MOD /\ SIZE_MOD \in Nat
  BY TransferAssumption DEF TypeOK
<1>2. CASE Call
  BY <1>2 DEF Call, TypeOK
<1>3. CASE ReadWord
  <2>1. W * (moved \div W) \in Int
    BY <1>1 DEF W
  <2>2. Peek(src, moved) \in [0 .. W - 1 -> Int]
    BY <1>1, Domains, PeekType
  <2>3. local' \in [DOMAIN local -> Int]
    <3>1. DOMAIN local \subseteq Int
      BY Domains
    <3>2. Poke(local, W * (moved \div W), Peek(src, moved)) \in [DOMAIN local -> Int]
      BY <2>1, <2>2, <3>1, Domains, PokeType
    <3> QED
      BY <1>3, <3>2 DEF ReadWord
  <2>4. moved' \in 0 .. size
    BY <1>1, <1>3 DEF ReadWord, Remaining, W
  <2> QED
    BY <1>3, <2>3, <2>4, Domains DEF ReadWord, TypeOK
<1>4. CASE ReadDone
  BY <1>1, <1>4 DEF ReadDone, TypeOK
<1>5. CASE WriteShort
  <2> DEFINE word == [i \in 0 .. W - 1 |->
                        IF i < size THEN local[i] ELSE Peek(dst, 0)[i]]
  <2>1. \A i \in 0 .. W - 1 : local[i] \in Int
    <3>1. 0 .. W - 1 \subseteq DOMAIN local
      BY Domains, TransferAssumption DEF W
    <3> QED
      BY <3>1, Domains
  <2>2. Peek(dst, 0) \in [0 .. W - 1 -> Int]
    BY Domains, PeekType
  <2>3. word \in [0 .. W - 1 -> Int]
    BY <2>1, <2>2
  <2>4. dst' = Poke(dst, 0, word) /\ UNCHANGED was
    BY <1>5 DEF WriteShort
  <2>5. (dst = NoMemory \/ dst \in [DOMAIN was.dst -> Int])'
    <3> HIDE DEF word
    <3> QED
      BY <2>3, <2>4, PokeDst
  <2> QED
    BY <1>5, <2>5 DEF WriteShort, TypeOK
<1>6. CASE WriteWord
  <2>1. W * (moved \div W) \in Int
    BY <1>1 DEF W
  <2>2. Peek(local, W * (moved \div W)) \in [0 .. W - 1 -> Int]
    BY <2>1, Domains, PeekType
  <2>3. (dst = NoMemory \/ dst \in [DOMAIN was.dst -> Int])'
    BY <1>1, <1>6, <2>2, PokeDst DEF WriteWord
  <2>4. moved' \in 0 .. size
    BY <1>1, <1>6 DEF WriteWord, Remaining, W
  <2> QED
    BY <1>6, <2>3, <2>4 DEF WriteWord, TypeOK
<1>7. CASE WriteTail
  <2>1. W * (size - W) \in Int /\ size - W \in Int
    BY <1>1 DEF W
  <2>2. Peek(local, W * (size - W)) \in [0 .. W - 1 -> Int]
    BY <2>1, Domains, PeekType
  <2>3. (dst = NoMemory \/ dst \in [DOMAIN was.dst -> Int])'
    <3>1. CASE dst' = Poke(dst, size - W, Peek(local, W * (size - W)))
      BY <1>7, <2>1, <2>2, <3>1, PokeDst DEF WriteTail
    <3>2. CASE dst' = dst
      BY <1>7, <3>2 DEF WriteTail, TypeOK
    <3> QED
      BY <1>7, <3>1, <3>2 DEF WriteTail
  <2>4. moved' \in 0 .. size /\ pc' \in {"write", "crashed"}
    BY <1>1, <1>7 DEF WriteTail
  <2> QED
    BY <1>7, <2>3, <2>4 DEF WriteTail, TypeOK
<1>8. CASE WriteDone
  BY <1>8 DEF WriteDone, TypeOK
<1>9. CASE Die
  BY <1>9 DEF Die, TypeOK
<1>10. CASE UNCHANGED vars
  BY <1>10 DEF vars, TypeOK
<1> QED
  BY <1>2, <1>3, <1>4, <1>5, <1>6, <1>7, <1>8, <1>9, <1>10
     DEF Next, Step, Finished

\* Type correctness of a transfer, for every size and memory.
THEOREM TransferTypeCorrect == Spec => []TypeOK
  BY TypeInit, TypeStep, PTL DEF Spec

-----------------------------------------------------------------------------
(* Where a transfer reads and writes                                       *)

\* A transfer under way is of a size that the buffer has place for, and has
\* read whole words, but for the last.
InPlace ==
    /\ pc \in {"read", "write"} => size <= BUF_SIZE
    /\ pc = "call" => moved = 0
    /\ pc = "read" => moved = size \/ moved % W = 0

\* Nothing is under way before the call.
LEMMA InPlaceInit == Init => InPlace
  BY DEF Init, InPlace

\* A word is read to its own place, which is within the buffer if that is a
\* number of words.
LEMMA ReadWithin ==
    ASSUME TypeOK, InPlace, ReadWord
    PROVE  /\ W * (moved \div W) = moved
           /\ moved \in Nat /\ moved % W = 0
           /\ moved < moved' /\ moved' <= moved + W
           /\ moved' = size \/ moved' = moved + W
           /\ BUF_SIZE % W = 0 => moved + W <= BUF_SIZE
<1>1. /\ size \in Nat /\ moved \in Nat /\ moved < size /\ size <= BUF_SIZE
      /\ moved % W = 0
  BY TransferAssumption DEF InPlace, TypeOK, ReadWord, Remaining
<1> QED
  BY <1>1, BufSizeAssumption DEF W, ReadWord, Remaining

\* Every step keeps the reading in place.
LEMMA InPlaceStep ==
    ASSUME TypeOK, InPlace, [Next]_vars
    PROVE  InPlace'
<1>1. CASE ReadWord
  <2>1. moved' = size \/ moved' % W = 0
    BY <1>1, ReadWithin DEF W
  <2> QED
    BY <1>1, <2>1 DEF InPlace, ReadWord
<1>2. CASE Call
  <2>1. size \in Nat /\ size = size' /\ moved' = 0
    BY <1>2, TransferAssumption DEF Call, InPlace, TypeOK
  <2> QED
    BY <1>2, <2>1, BufSizeAssumption DEF Call, InPlace, W
<1>3. CASE ~ReadWord /\ ~Call
  BY <1>3 DEF InPlace, Next, Step, ReadDone, WriteShort, WriteWord,
              WriteTail, WriteDone, Die, Finished, vars
<1> QED
  BY <1>1, <1>2, <1>3

-----------------------------------------------------------------------------
(* What it leaves alone                                                    *)

\* Only the reading writes the local buffer, and it stays within.
LEMMA StaysLocalStep ==
    ASSUME BUF_SIZE % W = 0, BUF_SIZE <= LOCAL_SIZE,
           TypeOK, InPlace, StaysLocal, [Next]_vars
    PROVE  StaysLocal'
<1>1. CASE ReadWord
  <2>1. local' = Poke(local, moved, Peek(src, moved)) /\ UNCHANGED was
    BY <1>1, ReadWithin DEF ReadWord
  <2>2. \A b \in DOMAIN local : b >= LOCAL_SIZE => b \notin Word(moved)
    BY <1>1, ReadWithin, BufSizeAssumption, TransferAssumption, Domains
       DEF Word, W
  <2> QED
    BY <2>1, <2>2 DEF StaysLocal, Poke
<1>2. CASE ~ReadWord
  BY <1>2 DEF StaysLocal, Next, Step, Call, ReadDone, WriteShort,
              WriteWord, WriteTail, WriteDone, Die, Finished, vars
<1> QED
  BY <1>1, <1>2

\* The bytes behind the local buffer are never written, if the buffer is a
\* number of words: as bufA is, and an int is not.  (readVariantMem)
THEOREM StaysLocalCorrect ==
    ASSUME BUF_SIZE % W = 0, BUF_SIZE <= LOCAL_SIZE
    PROVE  Spec => []StaysLocal
<1> DEFINE I == TypeOK /\ InPlace /\ StaysLocal
<1>1. Init => I
  BY TypeInit, InPlaceInit DEF Init, StaysLocal
<1>2. I /\ [Next]_vars => I'
  BY TypeStep, InPlaceStep, StaysLocalStep
<1> QED
  BY <1>1, <1>2, PTL DEF Spec

\* A poke of bytes below an offset changes nothing from there on.
LEMMA PokeBelow ==
    ASSUME NEW a \in Int, NEW word, NEW n \in Int, a + W <= n,
           DOMAIN dst \subseteq Int, dst' = Poke(dst, a, word)
    PROVE  /\ DOMAIN dst' = DOMAIN dst
           /\ \A b \in DOMAIN dst : b >= n => dst'[b] = dst[b]
  BY DEF Poke, Word, W

\* No write of a word, nor the death of a variant, touches the rest.
LEMMA LeavesRestStep ==
    ASSUME TypeOK, LeavesRest, [Next]_vars
    PROVE  LeavesRest'
<1>1. size \in Nat /\ moved \in Nat
  BY TransferAssumption DEF TypeOK
<1>2. CASE WriteShort
  <2>1. ASSUME Word(0) \subseteq DOMAIN was.dst, dst # NoMemory
        PROVE  \A b \in DOMAIN dst : b >= size => dst'[b] = dst[b]
    <3>1. Word(0) \subseteq DOMAIN dst
      BY <2>1 DEF TypeOK
    <3> DEFINE old  == Peek(dst, 0)
               word == [i \in 0 .. W - 1 |->
                           IF i < size THEN local[i] ELSE old[i]]
    <3>2. dst' = Poke(dst, 0, word)
      BY <1>2 DEF WriteShort
    <3>3. TAKE b \in DOMAIN dst
    <3>4. HAVE b >= size
    <3>5. CASE b \in Word(0)
      <4>1. b \in 0 .. W - 1 /\ ~(b < size)
        BY <1>1, <3>4, <3>5 DEF Word, W
      <4>2. word[b] = dst[b]
        BY <3>1, <4>1 DEF Peek, W
      <4> HIDE DEF word
      <4> QED
        BY <3>2, <3>5, <4>1, <4>2 DEF Poke, W
    <3>6. CASE b \notin Word(0)
      BY <3>2, <3>6 DEF Poke
    <3> QED
      BY <3>5, <3>6
  <2>2. DOMAIN dst' = DOMAIN dst /\ UNCHANGED <<size, was>> /\ size < W
    BY <1>2 DEF WriteShort, Poke
  <2>3. dst = NoMemory => DOMAIN dst = {}
    BY DEF NoMemory
  <2> QED
    BY <2>1, <2>2, <2>3 DEF LeavesRest
<1>3. CASE WriteWord
  <2>1. /\ moved + W <= size
        /\ dst' = Poke(dst, moved, Peek(local, W * (moved \div W)))
        /\ UNCHANGED <<size, was>>
    BY <1>1, <1>3 DEF WriteWord, Remaining, W
  <2> QED
    BY <1>1, <2>1, PokeBelow, Domains DEF LeavesRest
<1>4. CASE WriteTail
  <2>1. CASE dst' = Poke(dst, size - W, Peek(local, W * (size - W)))
    <3>1. /\ size - W \in Int /\ (size - W) + W <= size
          /\ UNCHANGED <<size, was>>
      BY <1>1, <1>4 DEF WriteTail, W
    <3> QED
      BY <1>1, <2>1, <3>1, PokeBelow, Domains DEF LeavesRest
  <2>2. CASE dst' = dst
    BY <1>4, <2>2 DEF WriteTail, LeavesRest
  <2> QED
    BY <1>4, <2>1, <2>2 DEF WriteTail
<1>5. CASE Die
  <2>1. DOMAIN NoMemory = {}
    BY DEF NoMemory
  <2> QED
    BY <1>5, <2>1 DEF Die, LeavesRest
<1>6. CASE ~WriteShort /\ ~WriteWord /\ ~WriteTail /\ ~Die
  BY <1>6 DEF LeavesRest, Next, Step, Call, ReadWord, ReadDone, WriteDone,
              Finished, vars
<1> QED
  BY <1>2, <1>3, <1>4, <1>5, <1>6

\* The bytes behind the buffer of the destination are never changed, for every
\* size and at no moment, if the word that a short write goes through is
\* mapped.  (writeVariantMem)
THEOREM LeavesRestCorrect == Spec => []LeavesRest
<1> DEFINE I == TypeOK /\ LeavesRest
<1>1. Init => I
  BY TypeInit DEF Init, LeavesRest
<1>2. I /\ [Next]_vars => I'
  BY TypeStep, LeavesRestStep
<1> QED
  BY <1>1, <1>2, PTL DEF Spec

-----------------------------------------------------------------------------
(* What it reads                                                           *)

\* While it reads, the local buffer holds the words read so far.
ReadSoFar ==
    pc \in {"call", "read"} /\ src = was.src =>
        local = ReadInto(was.local, was.src, moved)

RInv == ReadSoFar /\ ReadsWords

\* Before the call nothing has been read.
LEMMA RInit == Init => RInv
<1> SUFFICES ASSUME Init PROVE RInv
  OBVIOUS
<1>1. /\ was.local \in [DOMAIN was.local -> Int]
      /\ DOMAIN was.local = 0 .. LOCAL_SIZE + W - 1
  BY TypeInit, Domains DEF Init
<1>2. \A b \in DOMAIN was.local : ~(W * (b \div W) < 0)
  BY <1>1, TransferAssumption DEF W
<1>3. ReadInto(was.local, was.src, 0) = was.local
  BY <1>1, <1>2 DEF ReadInto
<1> QED
  BY <1>3 DEF Init, RInv, ReadSoFar, ReadsWords

\* One more word: the bytes of the word at m are those whose own word is at m.
LEMMA OneMore ==
    ASSUME NEW m \in Nat, m % W = 0, NEW n \in Nat, m < n, n <= m + W,
           NEW b \in Nat
    PROVE  /\ b \in Word(m) <=> W * (b \div W) = m
           /\ W * (b \div W) < n <=> (W * (b \div W) < m \/ W * (b \div W) = m)
  BY DEF Word, W

\* The reading adds a word, and later steps keep what was read.
LEMMA RStep ==
    ASSUME TypeOK, InPlace, RInv, [Next]_vars
    PROVE  RInv'
<1>1. CASE ReadWord
  <2> SUFFICES ASSUME src = was.src
               PROVE  local' = ReadInto(was.local, was.src, moved')
    BY <1>1 DEF ReadWord, RInv, ReadSoFar, ReadsWords
  <2>1. local' = Poke(local, moved, Peek(src, moved))
    BY <1>1, ReadWithin DEF ReadWord
  <2>2. local = ReadInto(was.local, was.src, moved)
    BY <1>1 DEF RInv, ReadSoFar, ReadWord
  <2>3. DOMAIN was.local = DOMAIN local /\ DOMAIN local \subseteq Nat
    BY Domains, TransferAssumption DEF W
  <2>4. ASSUME NEW b \in DOMAIN local
        PROVE  local'[b] = ReadInto(was.local, was.src, moved')[b]
    <3>1. /\ b \in Word(moved) <=> W * (b \div W) = moved
          /\ W * (b \div W) < moved' <=>
                (W * (b \div W) < moved \/ W * (b \div W) = moved)
      <4>1. b \in Nat /\ moved \in Nat /\ moved' \in Nat
        BY <1>1, <2>3, <2>4, ReadWithin, TransferAssumption DEF TypeOK, W
      <4>2. moved % W = 0 /\ moved < moved' /\ moved' <= moved + W
        BY <1>1, ReadWithin
      <4> QED
        BY <4>1, <4>2, OneMore
    <3>2. CASE W * (b \div W) = moved
      BY <2>1, <2>3, <2>4, <3>1, <3>2 DEF ReadInto, Poke
    <3>3. CASE W * (b \div W) # moved
      <4>1. local'[b] = local[b]
        BY <2>1, <2>4, <3>1, <3>3 DEF Poke
      <4> QED
        BY <2>2, <2>3, <2>4, <3>1, <3>3, <4>1 DEF ReadInto
    <3> QED
      BY <3>2, <3>3
  <2>5. /\ local' = [b \in DOMAIN local |-> local'[b]]
        /\ ReadInto(was.local, was.src, moved') =
              [b \in DOMAIN local |->
                  ReadInto(was.local, was.src, moved')[b]]
    BY <2>1, <2>3 DEF Poke, ReadInto
  <2> QED
    BY <2>4, <2>5
<1>2. CASE Die
  BY <1>2 DEF Die, RInv, ReadSoFar, ReadsWords, TypeOK
<1>3. CASE ReadDone
  <2>1. moved = size
    BY <1>3, TransferAssumption DEF ReadDone, Remaining, TypeOK
  <2> QED
    BY <1>3, <2>1 DEF ReadDone, RInv, ReadSoFar, ReadsWords
<1>4. CASE Call
  BY <1>4 DEF Call, RInv, ReadSoFar, ReadsWords
<1>5. CASE ~ReadWord /\ ~Die /\ ~ReadDone /\ ~Call
  BY <1>5 DEF RInv, ReadSoFar, ReadsWords, Next, Step, WriteShort, WriteWord,
              WriteTail, WriteDone, Finished, vars
<1> QED
  BY <1>1, <1>2, <1>3, <1>4, <1>5

\* The loop of readVariantMem, word by word, fills the buffer as ReadInto says
\* at once, for every size and memory.  (readVariantMem)
THEOREM ReadsWordsCorrect == Spec => []ReadsWords
<1> DEFINE I == TypeOK /\ InPlace /\ RInv
<1>1. Init => I
  BY TypeInit, InPlaceInit, RInit
<1>2. I /\ [Next]_vars => I'
  BY TypeStep, InPlaceStep, RStep
<1>3. I => ReadsWords
  BY DEF RInv
<1> QED
  BY <1>1, <1>2, <1>3, PTL DEF Spec

-----------------------------------------------------------------------------
(* What it copies                                                          *)

\* The first n bytes are those of the local buffer.
Same(n) == \A b \in DOMAIN dst : b \in 0 .. n - 1 => dst[b] = local[b]

\* A transfer of whole words has written the words before moved, and one that
\* is over everything.
Written ==
    size < W \/ size % W = 0 =>
        /\ pc = "write" => moved % W = 0 /\ Same(moved)
        /\ pc = "done" /\ result = 0 => Same(size)

\* Every step writes the words in their order.
LEMMA WrittenStep ==
    ASSUME BUF_SIZE <= LOCAL_SIZE, TypeOK, InPlace, Written, [Next]_vars
    PROVE  Written'
<1>1. /\ size \in Nat /\ moved \in Nat /\ moved <= size
      /\ LOCAL_SIZE \in Nat
      /\ DOMAIN dst \subseteq Int
      /\ DOMAIN local = 0 .. LOCAL_SIZE + W - 1
  BY TransferAssumption, Domains DEF TypeOK
<1>2. CASE WriteShort
  <2>1. /\ DOMAIN dst' = DOMAIN dst
        /\ \A b \in DOMAIN dst : b \in 0 .. size - 1 => dst'[b] = local[b]
    BY <1>1, <1>2 DEF WriteShort, Poke, Word, W
  <2> QED
    BY <1>2, <2>1 DEF WriteShort, Written, Same
<1>3. CASE WriteWord
  <2> SUFFICES ASSUME size % W = 0
               PROVE  moved' % W = 0 /\ Same(moved)'
    BY <1>1, <1>3 DEF WriteWord, Written, W
  <2>1. moved % W = 0 /\ Same(moved) /\ size <= BUF_SIZE
    BY <1>3 DEF WriteWord, Written, InPlace
  <2>2. /\ W * (moved \div W) = moved
        /\ moved + W <= size
        /\ moved' = moved + W
    BY <1>1, <1>3, <2>1 DEF WriteWord, Remaining, W
  <2>3. Word(moved) \subseteq DOMAIN local
    BY <1>1, <2>1, <2>2, BufSizeAssumption DEF Word, W
  <2>4. dst' = Poke(dst, moved, Peek(local, moved)) /\ local' = local
    BY <1>3, <2>2 DEF WriteWord
  <2>5. ASSUME NEW b \in DOMAIN dst, b \in 0 .. moved + W - 1
        PROVE  dst'[b] = local[b]
    <3>1. CASE b \in Word(moved)
      <4>1. b - moved \in 0 .. W - 1 /\ moved + (b - moved) = b
        BY <1>1, <2>5, <3>1 DEF Word, W
      <4> QED
        BY <2>3, <2>4, <2>5, <3>1, <4>1 DEF Poke, Peek
    <3>2. CASE b \notin Word(moved)
      <4>1. b \in 0 .. moved - 1
        BY <1>1, <2>5, <3>2 DEF Word, W
      <4> QED
        BY <2>1, <2>4, <2>5, <3>2, <4>1 DEF Poke, Same
    <3> QED
      BY <3>1, <3>2
  <2>6. DOMAIN dst' = DOMAIN dst
    BY <2>4 DEF Poke
  <2>7. moved' % W = 0
    BY <1>1, <2>1, <2>2 DEF W
  <2> QED
    BY <1>1, <2>2, <2>4, <2>5, <2>6, <2>7 DEF Same, W
<1>4. CASE WriteTail
  <2>1. ~(size < W) /\ UNCHANGED size
    BY <1>1, <1>4 DEF WriteTail, W
  <2>2. ~(size % W = 0)
    BY <1>1, <1>4 DEF WriteTail, Written, Remaining, W
  <2> QED
    BY <2>1, <2>2 DEF Written
<1>5. CASE WriteDone
  BY <1>1, <1>5 DEF WriteDone, Remaining, Written, Same
<1>6. CASE ReadDone
  BY <1>1, <1>6 DEF ReadDone, Written, Same, W
<1>7. CASE Die
  <2>1. DOMAIN NoMemory = {}
    BY DEF NoMemory
  <2> QED
    BY <1>7, <2>1 DEF Die, Written, Same
<1>8. CASE Call \/ ReadWord
  BY <1>8 DEF Call, ReadWord, Written
<1>9. CASE UNCHANGED vars
  BY <1>9 DEF vars, Written, Same
<1> QED
  BY <1>2, <1>3, <1>4, <1>5, <1>6, <1>7, <1>8, <1>9 DEF Next, Step, Finished

\* What was read of mapped words is what is in the memory.
LEMMA ReadIsMemory ==
    ASSUME TypeOK, ReadsWords, BUF_SIZE <= LOCAL_SIZE, size <= BUF_SIZE,
           pc = "done", result = 0, src = was.src,
           Mapped(RoundUp(size)) \subseteq DOMAIN was.src,
           NEW b \in 0 .. size - 1
    PROVE  local[b] = was.src[b]
<1> DEFINE a == W * (b \div W)
<1>1. /\ size \in Nat /\ b \in Nat /\ b < size
      /\ DOMAIN was.local = 0 .. LOCAL_SIZE + W - 1
  BY TransferAssumption, Domains DEF TypeOK
<1>2. b \in DOMAIN was.local
  BY <1>1, TransferAssumption, BufSizeAssumption DEF W
<1>3. /\ a \in Int /\ b - a \in 0 .. W - 1 /\ a + (b - a) = b
      /\ a < size
      /\ Word(a) \subseteq 0 .. RoundUp(size) - 1
  BY <1>1 DEF Word, RoundUp, W
<1>4. local[b] = Peek(was.src, a)[b - a]
  BY <1>2, <1>3 DEF ReadsWords, ReadInto
<1>5. Word(a) \subseteq DOMAIN was.src
  BY <1>3 DEF Mapped
<1> QED
  BY <1>3, <1>4, <1>5 DEF Peek

\* Success is reported of transfers that the buffer had place for.
SuccessFits == pc = "done" /\ result = 0 => size <= BUF_SIZE

\* A transfer that reports success, of less than a word or of whole words of
\* mapped memory, has copied every byte: for every size, memory and buffer, if
\* the monitor's buffer is as large as the limit.  (transferVariantMem)
THEOREM CopiesWordsCorrect ==
    ASSUME BUF_SIZE <= LOCAL_SIZE
    PROVE  Spec => []CopiesWords
<1> DEFINE I == TypeOK /\ InPlace /\ RInv /\ Written /\ SuccessFits
<1>1. Init => I
  BY TypeInit, InPlaceInit, RInit DEF Init, Written, SuccessFits
<1>2. TypeOK /\ InPlace /\ SuccessFits /\ [Next]_vars => SuccessFits'
  BY DEF SuccessFits, InPlace, Next, Step, Call, ReadWord, ReadDone, WriteShort,
         WriteWord, WriteTail, WriteDone, Die, Finished, vars
<1>3. I /\ [Next]_vars => I'
  BY <1>2, TypeStep, InPlaceStep, RStep, WrittenStep
<1>4. I => CopiesWords
  <2> SUFFICES ASSUME I, pc = "done", result = 0, size < W \/ size % W = 0,
                      WordsMapped, Lived,
                      NEW b \in 0 .. size - 1
               PROVE  dst[b] = was.src[b]
    BY DEF CopiesWords, Copied
  <2>1. size <= BUF_SIZE /\ Same(size) /\ ReadsWords
    BY DEF SuccessFits, Written, RInv
  <2>2. /\ Mapped(RoundUp(size)) \subseteq DOMAIN was.src
        /\ Mapped(RoundUp(size)) \subseteq DOMAIN was.dst
    BY DEF WordsMapped
  <2>3. b \in Mapped(RoundUp(size))
    <3>1. size \in Nat
      BY TransferAssumption DEF TypeOK
    <3> QED
      BY <3>1 DEF Mapped, RoundUp, W
  <2>4. b \in DOMAIN dst
    <3>1. DOMAIN dst = DOMAIN was.dst
      BY DEF Lived
    <3> QED
      BY <2>2, <2>3, <3>1
  <2>5. local[b] = was.src[b]
    BY <2>1, <2>2, ReadIsMemory DEF Lived
  <2> QED
    BY <2>1, <2>4, <2>5 DEF Same
<1> QED
  BY <1>1, <1>3, <1>4, PTL DEF Spec

-----------------------------------------------------------------------------
(* What it reports                                                         *)

\* A number that becomes a size_t fits the buffer only if it did before: an
\* errno below zero becomes larger than any buffer.
LEMMA Conversion ==
    ASSUME NEW n \in Int, NEW m \in Nat, BUF_SIZE < m,
           n >= BUF_SIZE + 1 - m, n < m
    PROVE  n % m <= BUF_SIZE <=> FitsBuffer(n)
<1>1. CASE n >= 0
  <2>1. n % m = n
    BY <1>1, BufSizeAssumption
  <2> QED
    BY <1>1, <2>1, BufSizeAssumption DEF FitsBuffer
<1>2. CASE n < 0
  <2>1. n % m = n + m
    BY <1>2, BufSizeAssumption
  <2> QED
    BY <1>2, <2>1, BufSizeAssumption DEF FitsBuffer
<1> QED
  BY <1>1, <1>2

\* The outcome is decided at the call.
Decided ==
    /\ size <= BUF_SIZE <=> FitsBuffer(request)
    /\ pc \in {"call", "read", "write"} => result = 0
    /\ pc \in {"read", "write"} => size <= BUF_SIZE
    /\ pc = "done" => (result = 0 <=> size <= BUF_SIZE)

\* Success is reported exactly of the sizes that fit the buffer, before their
\* conversion, whatever happens to the variants.  (transferVariantMem)
THEOREM FitsOutcomeCorrect == Spec => []FitsOutcome
<1>1. Init => Decided
  <2> SUFFICES ASSUME Init PROVE Decided
    OBVIOUS
  <2>1. /\ request \in Int /\ request >= BUF_SIZE + 1 - SIZE_MOD
        /\ request < SIZE_MOD /\ SIZE_MOD \in Nat /\ BUF_SIZE < SIZE_MOD
    BY TransferAssumption, BufSizeAssumption DEF Init
  <2> QED
    BY <2>1, Conversion DEF Init, Decided
<1>2. TypeOK /\ Decided /\ [Next]_vars => Decided'
  <2> SUFFICES ASSUME TypeOK, Decided, [Next]_vars PROVE Decided'
    OBVIOUS
  <2>1. UNCHANGED <<size, request>>
    BY DEF Next, Step, Call, ReadWord, ReadDone, WriteShort, WriteWord,
           WriteTail, WriteDone, Die, Finished, vars
  <2>2. size \in Nat
    BY TransferAssumption DEF TypeOK
  <2>3. CASE Call
    BY <2>1, <2>2, <2>3, BufSizeAssumption DEF Call, Decided
  <2>4. CASE ~Call
    BY <2>1, <2>4 DEF Decided, Next, Step, ReadWord, ReadDone, WriteShort,
                      WriteWord, WriteTail, WriteDone, Die, Finished, vars
  <2> QED
    BY <2>3, <2>4
<1>3. Decided => FitsOutcome
  BY DEF Decided, FitsOutcome
<1> QED
  BY <1>1, <1>2, <1>3, TypeInit, TypeStep, PTL DEF Spec
=============================================================================
