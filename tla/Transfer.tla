------------------------------ MODULE Transfer ------------------------------
(***************************************************************************)
(* transferVariantMem (variant.c): a buffer of one variant is read, word   *)
(* by word, into a buffer of the monitor and written from there into the   *)
(* other variant.  Both are stopped, but either may be killed between two  *)
(* words.  set_tid_address calls the two halves with a buffer of its own,  *)
(* accept4 and getsockname the first half.                                 *)
(***************************************************************************)
EXTENDS Executors, VariantMem

CONSTANTS
    LOCAL_SIZE,   \* bytes in the local buffer: BUF_SIZE, or those of an int
    SIZE_MOD,     \* a size_t is a number below this one
    Requests,     \* sizes asked for, before they become a size_t
    Sources,      \* memories of the variant read from
    Dests,        \* memories of the variant written to
    Locals        \* contents of the local buffer and of what lies behind it

Mapped(end) == 0 .. end - 1

ASSUME TransferAssumption ==
    /\ LOCAL_SIZE \in Nat \ {0}
    /\ SIZE_MOD \in Nat /\ SIZE_MOD > BUF_SIZE
    /\ Requests \subseteq BUF_SIZE + 1 - SIZE_MOD .. SIZE_MOD - 1
    /\ \A m \in Sources \cup Dests : /\ DOMAIN m \subseteq Nat
                                    /\ m \in [DOMAIN m -> Int]
    /\ Locals \subseteq [Mapped(LOCAL_SIZE + W) -> Int]

VARIABLES
    src, dst,   \* the memories of the two variants
    local,      \* the local buffer, and a word of what lies behind it
    size,       \* the argument
    moved,      \* bytesTransferred
    pc, result,
    request,    \* history: the size before its conversion
    was         \* history: the memories and the local buffer at the call

vars == <<src, dst, local, size, moved, pc, result, request, was>>

TypeOK ==
    /\ was \in [src : Sources, dst : Dests, local : Locals]
    /\ src \in {was.src, NoMemory}
    /\ dst = NoMemory \/ dst \in [DOMAIN was.dst -> Int]
    /\ local \in [DOMAIN was.local -> Int]
    /\ request \in Requests
    /\ size \in 0 .. SIZE_MOD - 1
    /\ moved \in 0 .. size
    /\ pc \in {"call", "read", "write", "done", "crashed"}
    /\ result \in {0, -1}

Init ==
    /\ was \in [src : Sources, dst : Dests, local : Locals]
    /\ src = was.src
    /\ dst = was.dst
    /\ local = was.local
    /\ request \in Requests
    /\ size = request % SIZE_MOD
    /\ moved = 0
    /\ pc = "call"
    /\ result = 0

-----------------------------------------------------------------------------
\* Mutants of Call: there is no limit, or it is off by one.
CallAnySize ==
    /\ pc = "call"
    /\ pc' = "read"
    /\ UNCHANGED <<src, dst, local, size, moved, result, request, was>>
CallBelow ==
    /\ pc = "call"
    /\ IF size >= BUF_SIZE THEN pc' = "done" /\ result' = -1
                           ELSE pc' = "read" /\ result' = result
    /\ UNCHANGED <<src, dst, local, size, moved, request, was>>

Call ==
    /\ pc = "call"
    /\ IF size > BUF_SIZE THEN pc' = "done" /\ result' = -1
                          ELSE pc' = "read" /\ result' = result
    /\ UNCHANGED <<src, dst, local, size, moved, request, was>>

Remaining == size - moved

\* Mutants of ReadWord: the word is put at an index counted in bytes; the
\* last word counts as a whole.
ReadWordAtByte ==
    /\ pc = "read"
    /\ Remaining > 0
    /\ local' = Poke(local, W * moved, Peek(src, moved))
    /\ moved' = IF Remaining > W THEN moved + W ELSE size
    /\ UNCHANGED <<src, dst, size, pc, result, request, was>>
ReadWordWhole ==
    /\ pc = "read"
    /\ Remaining > 0
    /\ local' = Poke(local, W * (moved \div W), Peek(src, moved))
    /\ moved' = moved + W
    /\ UNCHANGED <<src, dst, size, pc, result, request, was>>

\* An iteration of readVariantMem.
ReadWord ==
    /\ pc = "read"
    /\ Remaining > 0
    /\ local' = Poke(local, W * (moved \div W), Peek(src, moved))
    /\ moved' = IF Remaining > W THEN moved + W ELSE size
    /\ UNCHANGED <<src, dst, size, pc, result, request, was>>

ReadDone ==
    /\ pc = "read"
    /\ Remaining = 0
    /\ pc' = "write"
    /\ moved' = 0
    /\ UNCHANGED <<src, dst, local, size, result, request, was>>

\* Mutant of WriteShort: the bytes behind the buffer are not fetched first.
WriteShortBlind ==
    /\ pc = "write"
    /\ size < W
    /\ dst' = Poke(dst, 0, Peek(local, 0))
    /\ pc' = "done"
    /\ UNCHANGED <<src, local, size, moved, result, request, was>>

\* writeVariantMem, for less than a word.
WriteShort ==
    /\ pc = "write"
    /\ size < W
    /\ dst' = LET old == Peek(dst, 0)
              IN  Poke(dst, 0, [i \in 0 .. W - 1 |->
                                   IF i < size THEN local[i] ELSE old[i]])
    /\ pc' = "done"
    /\ UNCHANGED <<src, local, size, moved, result, request, was>>

\* Mutant of WriteWord: the word is taken from an index counted in bytes.
WriteWordAtByte ==
    /\ pc = "write"
    /\ size >= W
    /\ Remaining >= W
    /\ dst' = Poke(dst, moved, Peek(local, W * moved))
    /\ moved' = moved + W
    /\ UNCHANGED <<src, local, size, pc, result, request, was>>

WriteWord ==
    /\ pc = "write"
    /\ size >= W
    /\ Remaining >= W
    /\ dst' = Poke(dst, moved, Peek(local, W * (moved \div W)))
    /\ moved' = moved + W
    /\ UNCHANGED <<src, local, size, pc, result, request, was>>

\* Mutant of WriteTail: the last bytes are never counted as written.
WriteTailForever ==
    /\ pc = "write"
    /\ size >= W
    /\ Remaining \in 1 .. W - 1
    /\ dst' = Poke(dst, size - W, Peek(local, W * (size - W)))
    /\ UNCHANGED <<src, local, size, moved, pc, result, request, was>>

\* The last word, of which only the tail is new.  The index into the array
\* of words is a number of bytes; behind the array it reads anything, or
\* ends the monitor.
WriteTail ==
    /\ pc = "write"
    /\ size >= W
    /\ Remaining \in 1 .. W - 1
    /\ \/ /\ dst' = Poke(dst, size - W, Peek(local, W * (size - W)))
          /\ moved' = size
          /\ pc' = pc
       \/ /\ ~(Word(W * (size - W)) \subseteq Mapped(LOCAL_SIZE))
          /\ pc' = "crashed"
          /\ UNCHANGED <<dst, moved>>
    /\ UNCHANGED <<src, local, size, result, request, was>>

WriteDone ==
    /\ pc = "write"
    /\ size >= W
    /\ Remaining = 0
    /\ pc' = "done"
    /\ UNCHANGED <<src, dst, local, size, moved, result, request, was>>

Step == \/ Call
        \/ ReadWord \/ ReadDone
        \/ WriteShort \/ WriteWord \/ WriteTail \/ WriteDone

\* A fatal signal to either variant.
Die ==
    /\ pc \in {"call", "read", "write"}
    /\ \/ src' = NoMemory /\ dst' = dst
       \/ dst' = NoMemory /\ src' = src
    /\ UNCHANGED <<local, size, moved, pc, result, request, was>>

Finished == pc \in {"done", "crashed"} /\ UNCHANGED vars

Next == Step \/ Die \/ Finished

Spec == Init /\ [][Next]_vars /\ WF_vars(Step)
-----------------------------------------------------------------------------
Lived == src = was.src /\ DOMAIN dst = DOMAIN was.dst

RoundUp(n)  == W * ((n + W - 1) \div W)
WordsMapped ==
    \A m \in {was.src, was.dst} : Mapped(RoundUp(size)) \subseteq DOMAIN m

Copied == \A b \in 0 .. size - 1 : dst[b] = was.src[b]

\* A transfer that reports success, of less than a word or of whole words of
\* mapped memory, has copied every byte.  (transferVariantMem)
CopiesWords ==
    /\ pc = "done" /\ result = 0
    /\ size < W \/ size % W = 0
    /\ WordsMapped /\ Lived
    => Copied

\* At no moment are bytes of the destination behind the buffer changed, for
\* all sizes: not by the short write, which goes through a whole word, nor by
\* the last word of a longer one.  (writeVariantMem)
LeavesRest ==
    (size < W => Word(0) \subseteq DOMAIN was.dst) =>
        \A b \in DOMAIN dst : b >= size => dst[b] = was.dst[b]

\* What lies behind the local buffer is not written, though the buffer is
\* written in whole words.  (readVariantMem)
StaysLocal ==
    \A b \in DOMAIN local : b >= LOCAL_SIZE => local[b] = was.local[b]

\* The loop of readVariantMem does what ReadInto says, and nothing later
\* touches the local buffer.
ReadsWords ==
    /\ pc \in {"write", "done"} /\ result = 0
    /\ src = was.src
    => local = ReadInto(was.local, was.src, size)

\* Success is reported for the sizes that the executors take to be possible,
\* errors of the kernel that became a size_t among the others, whatever
\* happens to the variants.  (transferVariantMem)
FitsOutcome == pc = "done" => (result = 0 <=> FitsBuffer(request))

\* The loops end.
Ends == <>(pc \in {"done", "crashed"})

\* A transfer that reports success has copied every byte, for every size: the
\* comment at the tail is "Write last word of data, counting from last byte".
CopiesAnySize ==
    pc = "done" /\ result = 0 /\ WordsMapped /\ Lived => Copied
=============================================================================
