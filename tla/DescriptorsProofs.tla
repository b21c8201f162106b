-------------------------- MODULE DescriptorsProofs --------------------------
(***************************************************************************)
(* What the variants see of their descriptors, for any number of           *)
(* descriptors and of calls: the inductive invariant DescriptorsInv, and   *)
(* from it the properties of Descriptors for a program that does not move  *)
(* in the file it has inherited.                                           *)
(***************************************************************************)
EXTENDS Descriptors, WellFoundedInduction, TLAPS

-----------------------------------------------------------------------------
(* The inductive invariant                                                 *)

\* A call of the program, as NextCalls builds it.
Makes(c, nr, n) ==
    /\ c.nr = nr
    /\ c \in Request
    /\ c.count = n
    /\ c.whence = "SEEK_SET"

Makable(c) ==
    \/ \E nr \in {"socket", "close", "accept4", "lseek"} : Makes(c, nr, 0)
    \/ \E nr \in {"read", "write", "pread64"} : Makes(c, nr, 1)

\* The call that the replica has before it, and what the master's result is
\* when a substitute is given it as an argument.
PendingOK ==
    /\ pending = Idle \/ Makable(pending)
    /\ rval \in Results
    /\ pending.nr = "read" => rval \in {0, 1}

\* The program neither seeks in the inherited file nor reads on in it.
NoSeeking == Habits = {}

\* The kernel does the same for the master as for the program alone, and the
\* replica, when it has its turn, does not undo that.
MasterAsNative ==
    /\ fds["master"] = fds["native"]
    /\ pending # Idle => saw["master"] = rval
    /\ NoSeeking => /\ file["monitored"] = file["native"]
                    /\ saw["master"] = saw["native"]

AlikeAt(d) ==
    fds["replica"][d] = IF fds["master"][d] = "connection"
                        THEN "closed" ELSE fds["master"][d]
Alike == \A d \in Fd : AlikeAt(d)

\* The master has a new socket, at the lowest of its free descriptors, and the
\* replica is about to make its own.
SocketMade ==
    \/ /\ rval = -EMFILE
       /\ Alike
       /\ \A d \in Fd : fds["master"][d] # "closed"
    \/ /\ rval \in Fd
       /\ fds["master"][rval] = "socket"
       /\ fds["replica"][rval] = "closed"
       /\ \A d \in Fd : d < rval => fds["master"][d] # "closed"
       /\ \A d \in Fd \ {rval} : AlikeAt(d)

\* The master's side of a call is over.
Underway ==
    /\ pending.nr = "socket" => SocketMade
    /\ pending.nr = "close" =>
           /\ fds["master"][pending.fd] = "closed"
           /\ \A d \in Fd \ {pending.fd} : AlikeAt(d)
    /\ pending.nr \notin {"socket", "close"} => Alike
    /\ NoSeeking /\ pending.nr \in {"read", "lseek"} =>
           pending.fd \notin OldFile
    /\ NoSeeking /\ pending.nr = "lseek" =>
           rval = IF fds["master"][pending.fd] = "closed" THEN -EBADF ELSE -ESPIPE

DescriptorsInv ==
    /\ MasterAsNative
    /\ pending = Idle => /\ SameView => Alike
                         /\ NoSeeking => Transparent
    /\ pending # Idle => Underway

-----------------------------------------------------------------------------
(* The kernel                                                              *)

File == [pos : Nat, len : Nat]

\* Some free descriptor is the lowest.
LEMMA LowestFree ==
    ASSUME NEW D \in SUBSET Fd, D # {}
    PROVE  \E d \in D : \A x \in D : d <= x
<1> DEFINE R == {ss \in Nat \X Nat : ss[1] < ss[2]}
<1>1. R = OpToRel(<, Nat)
  BY DEF OpToRel
<1> HIDE DEF R
<1>2. IsWellFoundedOn(R, Nat)
  BY <1>1, NatLessThanWellFounded
<1>3. D \subseteq Nat
  BY DescriptorsAssumption DEF Fd
<1>4. PICK d \in D : \A x \in D : ~(<<x, d>> \in R)
  BY <1>2, <1>3, WFMin
<1>5. ASSUME NEW x \in D, x < d PROVE FALSE
  <2>1. <<x, d>> \in Nat \X Nat /\ <<x, d>>[1] < <<x, d>>[2]
    BY <1>3, <1>5
  <2> QED
    BY <1>4, <2>1 DEF R
<1> QED
  BY <1>3, <1>5

Free(t)   == {d \in Fd : t[d] = "closed"}
Lowest(t) == CHOOSE d \in Free(t) : \A x \in Free(t) : d <= x

LEMMA LowestType ==
    ASSUME NEW t, Free(t) # {}
    PROVE  /\ Lowest(t) \in Fd
           /\ t[Lowest(t)] = "closed"
           /\ \A x \in Fd : t[x] = "closed" => Lowest(t) <= x
<1>1. \E d \in Free(t) : \A x \in Free(t) : d <= x
  BY LowestFree DEF Free
<1>2. Lowest(t) \in Free(t) /\ \A x \in Free(t) : Lowest(t) <= x
  BY <1>1 DEF Lowest
<1> QED
  BY <1>2 DEF Free

\* A new socket is at the lowest free descriptor, if there is one.
LEMMA SocketAtLowest ==
    ASSUME NEW t, NEW f, NEW kind
    PROVE  NewSocket(t, f, kind) =
               IF Free(t) = {} THEN Fails(t, f, EMFILE)
               ELSE After([t EXCEPT ![Lowest(t)] = kind], f, Lowest(t))
BY DEF NewSocket, Free, Lowest

\* What the kernel does of a call of the program, that a socket accepts.
LEMMA KernelOfCall ==
    ASSUME NEW t \in Table, NEW f \in File, NEW c, Makable(c),
           c.nr = "accept4" => t[c.fd] = "socket"
    PROVE  /\ Kernel(t, f, c).table \in Table
           /\ Kernel(t, f, c).file \in File
           /\ Kernel(t, f, c).ret \in Results
<1> DEFINE k == Kernel(t, f, c)
           typed == k.table \in Table /\ k.file \in File /\ k.ret \in Results
<1>1. c.fd \in Fd /\ c.count \in {0, 1} /\ c.whence = "SEEK_SET"
  BY DEF Makable, Makes, Request
<1>2. ASSUME NEW kind \in {"socket", "connection"},
             k = NewSocket(t, f, kind)
      PROVE  typed
  <2>1. CASE Free(t) = {}
    <3>1. k = Fails(t, f, EMFILE)
      BY <1>2, <2>1, SocketAtLowest
    <3> QED
      BY <3>1 DEF Fails, After, Results
  <2>2. CASE Free(t) # {}
    <3>1. k = After([t EXCEPT ![Lowest(t)] = kind], f, Lowest(t))
      BY <1>2, <2>2, SocketAtLowest
    <3>2. Lowest(t) \in Fd
      BY <2>2, LowestType
    <3> QED
      BY <3>1, <3>2 DEF After, Results, Table
  <2> QED
    BY <2>1, <2>2
<1>3. CASE c.nr = "socket"
  BY <1>2, <1>3 DEF Kernel
<1>4. CASE c.nr \notin {"socket", "accept4"} /\ t[c.fd] = "closed"
  <2>1. k = Fails(t, f, EBADF)
    BY <1>4 DEF Kernel, Makable, Makes
  <2> QED
    BY <2>1 DEF Fails, After, Results
<1>5. CASE c.nr = "close" /\ t[c.fd] # "closed"
  <2>1. k = After([t EXCEPT ![c.fd] = "closed"], f, 0)
    BY <1>5 DEF Kernel
  <2>2. 0 \in Fd
    BY DescriptorsAssumption DEF Fd
  <2> QED
    BY <1>1, <2>1, <2>2 DEF After, Results, Table
<1>6. CASE c.nr = "accept4"
  BY <1>2, <1>6 DEF Kernel
<1>7. CASE c.nr \in {"read", "write", "pread64", "lseek"} /\ t[c.fd] # "closed"
  <2>1. CASE k = OnStream(t, f, c)
    BY <1>1, <1>7, <2>1, DescriptorsAssumption
       DEF OnStream, After, Fails, Results, Fd
  <2>2. ASSUME k = OnFile(t, f, c)
        PROVE  typed
    <3>1. f.pos \in Nat /\ f.len \in Nat
      BY DEF File
    <3>2. ASSUME NEW pos \in Nat
          PROVE  /\ Available(f, pos, c.count) \in {0, 1}
                 /\ At(f, pos) \in File
      <4>1. Available(f, pos, c.count) \in {0, 1}
        BY <1>1, <3>1 DEF Available
      <4>2. At(f, pos) = [f EXCEPT !.pos = pos,
                                   !.len = IF pos > f.len THEN pos ELSE f.len]
        BY DEF At
      <4>3. At(f, pos) \in File
        BY <3>1, <4>2 DEF File
      <4> QED
        BY <4>1, <4>3
    <3>3. 0 \in Fd /\ 0 \in Results /\ 1 \in Results
      BY DescriptorsAssumption DEF Fd, Results
    <3>4. Available(f, f.pos, c.count) \in {0, 1} /\ Available(f, 0, c.count) \in {0, 1}
      BY <3>1, <3>2
    <3>5. CASE c.nr = "read"
      <4>1. k = After(t, At(f, f.pos + Available(f, f.pos, c.count)),
                      Available(f, f.pos, c.count))
        BY <2>2, <3>5 DEF OnFile
      <4>2. f.pos + Available(f, f.pos, c.count) \in Nat
        BY <3>1, <3>4
      <4> QED
        BY <3>2, <3>3, <3>4, <4>1, <4>2 DEF After
    <3>6. CASE c.nr = "write"
      <4>1. k = After(t, At(f, f.pos + c.count), c.count)
        BY <2>2, <3>6 DEF OnFile
      <4>2. f.pos + c.count \in Nat
        BY <1>1, <3>1
      <4> QED
        BY <1>1, <3>2, <3>3, <4>1, <4>2 DEF After
    <3>7. CASE c.nr = "pread64"
      <4>1. k = After(t, f, Available(f, 0, c.count))
        BY <2>2, <3>7 DEF OnFile
      <4> QED
        BY <3>3, <3>4, <4>1 DEF After
    <3>8. CASE c.nr = "lseek"
      <4>1. k = After(t, [f EXCEPT !.pos = 0], 0)
        BY <1>1, <2>2, <3>8 DEF OnFile, Makable, Makes
      <4> QED
        BY <3>3, <4>1 DEF After, File
    <3> QED
      BY <1>7, <3>5, <3>6, <3>7, <3>8
  <2>3. k = OnStream(t, f, c) \/ k = OnFile(t, f, c)
    BY <1>7 DEF Kernel
  <2> QED
    BY <2>1, <2>2, <2>3
<1>8. c.nr \in {"socket", "close", "accept4", "lseek", "read", "write", "pread64"}
  BY DEF Makable, Makes
<1> QED
  BY <1>3, <1>4, <1>5, <1>6, <1>7, <1>8

-----------------------------------------------------------------------------
(* The program and the executors                                           *)

LEMMA Numbers ==
    {"socket", "close", "accept4", "read", "write", "pread64", "lseek",
     "getpid"} \subseteq Implemented
BY DEF Implemented, Executor

\* The records of the executors that Descriptors asks for.
LEMMA Records ==
    /\ Executor["socket"] = execSyscall_socket
    /\ Executor["close"] = execSyscall_close
    /\ Executor["accept4"] = execSyscall_accept4
    /\ Executor["read"] = execSyscall_read
    /\ Executor["write"] = execSyscall_write
    /\ Executor["pread64"] = execSyscall_pread64
    /\ Executor["lseek"] = execSyscall_lseek
BY DEF Executor

\* What the records say of the replica's part.
LEMMA ReplicaParts ==
    /\ \A nr \in {"socket", "lseek"} :
           /\ Executor[nr].sub = "own" /\ ~Executor[nr].reargs
           /\ ~Executor[nr].ret
    /\ /\ Executor["close"].sub = "own" /\ ~Executor["close"].reargs
       /\ Executor["close"].ret
    /\ \A nr \in {"accept4", "pread64"} :
           Executor[nr].sub = "getpid" /\ Executor[nr].ret
    /\ Executor["read"].sub = "lseek" /\ Executor["read"].ret
    /\ /\ Executor["write"].sub = "own" /\ Executor["write"].reargs
       /\ Executor["write"].ret
<1> USE DEF runBoth, runBothCopyMasterRet, runMasterReplicateRet
<1>1. \A nr \in {"socket", "lseek"} : /\ Executor[nr].sub = "own"
                                      /\ Executor[nr].reargs = FALSE
                                      /\ Executor[nr].ret = FALSE
  BY Records DEF execSyscall_socket, execSyscall_lseek
<1>2. /\ Executor["close"].sub = "own" /\ Executor["close"].reargs = FALSE
      /\ Executor["close"].ret = TRUE
  BY Records DEF execSyscall_close
<1>3. Executor["accept4"].sub = "getpid" /\ Executor["accept4"].ret = TRUE
  BY Records DEF execSyscall_accept4
<1>4. Executor["pread64"].sub = "getpid" /\ Executor["pread64"].ret = TRUE
  BY Records DEF execSyscall_pread64
<1>5. Executor["read"].sub = "lseek" /\ Executor["read"].ret = TRUE
  BY Records DEF execSyscall_read
<1>6. /\ Executor["write"].sub = "own" /\ Executor["write"].reargs = TRUE
      /\ Executor["write"].ret = TRUE
  BY Records DEF execSyscall_write
<1> QED
  BY <1>1, <1>2, <1>3, <1>4, <1>5, <1>6

\* The calls that the program may make, and the descriptors that they name.
LEMMA ProgramCalls ==
    ASSUME TypeOK, NEW c \in NextCalls
    PROVE  /\ Makable(c)
           /\ c.fd \in Fd
           /\ c.nr = "accept4" => fds["master"][c.fd] = "socket"
           /\ c.nr = "read" => fds["master"][c.fd] # "closed"
           /\ Habits = {} /\ c.nr \in {"read", "lseek"} => c.fd \notin OldFile
<1> USE Numbers
<1>1. 0 \in Fd /\ Idle.count = 0 /\ Idle.whence = "SEEK_SET" /\ Idle.fd = 0
  BY DescriptorsAssumption DEF Fd, Idle
<1>2. ASSUME NEW nr \in {"socket", "close", "accept4", "read", "write",
                         "pread64", "lseek"}, NEW d \in Fd
      PROVE  /\ [Idle EXCEPT !.nr = nr, !.fd = d] \in Request
             /\ [[Idle EXCEPT !.nr = nr, !.fd = d] EXCEPT !.count = 1] \in Request
  <2>1. nr \in {"none"} \cup Implemented
    BY Zenon
  <2>2. Idle \in Request
    BY <1>1 DEF Idle, Request
  <2>3. [Idle EXCEPT !.nr = nr, !.fd = d] \in Request
    BY <2>1, <2>2 DEF Request
  <2>4. ASSUME NEW x \in Request PROVE [x EXCEPT !.count = 1] \in Request
    BY DEF Request
  <2> QED
    BY <2>3, <2>4
<1>3. CASE c = [Idle EXCEPT !.nr = "socket"]
  <2>1. "socket" \in {"none"} \cup Implemented
    BY Zenon
  <2>2. c \in Request /\ c.nr = "socket" /\ c.count = 0 /\ c.whence = "SEEK_SET"
        /\ c.fd = 0
    BY <1>1, <1>3, <2>1 DEF Idle, Request
  <2> QED
    BY <1>1, <2>2 DEF Makable, Makes
<1>4. ASSUME NEW nr \in {"close", "accept4", "lseek"}, NEW D \in SUBSET Fd,
             c \in Uses(nr, D)
      PROVE  Makable(c) /\ c.nr = nr /\ c.fd \in D
  <2>1. PICK d \in D : c = [Idle EXCEPT !.nr = nr, !.fd = d]
    BY <1>4 DEF Uses
  <2>2. /\ c \in Request /\ c.nr = nr /\ c.count = 0 /\ c.whence = "SEEK_SET"
        /\ c.fd = d
    BY <1>1, <1>2, <2>1 DEF Idle
  <2> QED
    BY <2>2 DEF Makable, Makes
<1>5. ASSUME NEW nr \in {"read", "write", "pread64"}, NEW D \in SUBSET Fd,
             c \in Moves(nr, D)
      PROVE  Makable(c) /\ c.nr = nr /\ c.fd \in D
  <2>1. PICK d \in D :
             c = [[Idle EXCEPT !.nr = nr, !.fd = d] EXCEPT !.count = 1]
    BY <1>5 DEF Moves, Uses
  <2>2. /\ c \in Request /\ c.nr = nr /\ c.count = 1 /\ c.whence = "SEEK_SET"
        /\ c.fd = d
    BY <1>1, <1>2, <2>1 DEF Idle
  <2> QED
    BY <2>2 DEF Makable, Makes
<1>6. /\ Holds("socket") \subseteq Fd /\ OldFile \subseteq Fd
      /\ Streams \cup Seeking(OldFile) \subseteq Fd
      /\ Streams \cup OldFile \subseteq Fd
      /\ (Fd \ OldFile) \cup Seeking(OldFile) \subseteq Fd
  BY DEF Holds, OldFile, Streams, Seeking
<1>7. /\ \A d \in Holds("socket") : fds["master"][d] = "socket"
      /\ \A d \in Streams \cup Seeking(OldFile) : fds["master"][d] # "closed"
      /\ Habits = {} => Seeking(OldFile) = {}
      /\ Streams \cap OldFile = {}
  BY DEF Holds, OldFile, Streams, Seeking
<1> HIDE DEF Idle
<1>8. CASE c \in Uses("close", Fd)
  BY <1>4, <1>8
<1>9. CASE c \in Uses("accept4", Holds("socket"))
  BY <1>4, <1>6, <1>7, <1>9
<1>10. CASE c \in Moves("read", Streams \cup Seeking(OldFile))
  BY <1>5, <1>6, <1>7, <1>10
<1>11. CASE c \in Moves("write", Streams \cup OldFile)
  BY <1>5, <1>6, <1>11
<1>12. CASE c \in Moves("pread64", OldFile)
  BY <1>5, <1>6, <1>12
<1>13. CASE c \in Uses("lseek", (Fd \ OldFile) \cup Seeking(OldFile))
  BY <1>4, <1>6, <1>7, <1>13
<1> QED
  BY <1>3, <1>8, <1>9, <1>10, <1>11, <1>12, <1>13 DEF NextCalls

\* What the replica does in its turn, by the call of the program.
LEMMA ReplicaTurn ==
    ASSUME TypeOK, PendingOK, RunReplica
    PROVE  LET f == file["monitored"]
               t == fds["replica"]
               k == Kernel(t, f, pending)
               s == Kernel(t, f, [pending EXCEPT !.nr = "lseek",
                                      !.count = rval, !.whence = "SEEK_CUR"])
           IN  /\ pending' = Idle /\ UNCHANGED <<stdin, rval, status, calls>>
               /\ pending.nr \in {"socket", "lseek"} =>
                      /\ fds' = [fds EXCEPT !["replica"] = k.table]
                      /\ file' = [file EXCEPT !["monitored"] = k.file]
                      /\ saw' = [saw EXCEPT !["replica"] = k.ret]
               /\ pending.nr = "close" =>
                      /\ fds' = [fds EXCEPT !["replica"] = k.table]
                      /\ file' = [file EXCEPT !["monitored"] = k.file]
                      /\ saw' = [saw EXCEPT !["replica"] = rval]
               /\ pending.nr \in {"accept4", "pread64", "write"} =>
                      /\ fds' = fds /\ file' = file
                      /\ saw' = [saw EXCEPT !["replica"] = rval]
               /\ pending.nr = "read" =>
                      /\ fds' = [fds EXCEPT !["replica"] = s.table]
                      /\ file' = [file EXCEPT !["monitored"] = s.file]
                      /\ saw' = [saw EXCEPT !["replica"] = rval]
<1> DEFINE f == file["monitored"]
           t == fds["replica"]
           c == Replacement
           k == IF Misaddressed(c) THEN Fails(t, f, EFAULT) ELSE Kernel(t, f, c)
<1>1. /\ fds' = [fds EXCEPT !["replica"] = k.table]
      /\ file' = [file EXCEPT !["monitored"] = k.file]
      /\ saw' = [saw EXCEPT !["replica"] = IF E.ret THEN rval ELSE k.ret]
      /\ pending' = Idle /\ UNCHANGED <<stdin, rval, status, calls>>
  BY DEF RunReplica
<1>2. ASSUME k.table = t, k.file = f
      PROVE  [fds EXCEPT !["replica"] = k.table] = fds
             /\ [file EXCEPT !["monitored"] = k.file] = file
  BY <1>2 DEF TypeOK
<1>3. pending \in Request
  BY DEF TypeOK
<1>4. CASE pending.nr \in {"socket", "lseek"}
  <2>1. c = pending /\ ~Misaddressed(c) /\ ~E.ret
    BY <1>4, ReplicaParts DEF Replacement, E, Misaddressed
  <2> HIDE DEF c
  <2>2. k = Kernel(t, f, pending)
    BY <2>1
  <2> HIDE DEF k
  <2> QED
    BY <1>1, <1>4, <2>1, <2>2
<1>5. CASE pending.nr = "close"
  <2>1. c = pending /\ ~Misaddressed(c) /\ E.ret
    BY <1>5, ReplicaParts DEF Replacement, E, Misaddressed
  <2> HIDE DEF c
  <2>2. k = Kernel(t, f, pending)
    BY <2>1
  <2> HIDE DEF k
  <2> QED
    BY <1>1, <1>5, <2>1, <2>2
<1>6. CASE pending.nr \in {"accept4", "pread64"}
  <2>1. c = [pending EXCEPT !.nr = "getpid"] /\ E.ret
    BY <1>6, ReplicaParts DEF Replacement, E
  <2>2. c.nr = "getpid"
    BY <1>3, <2>1 DEF Request
  <2> HIDE DEF c
  <2>3. k = After(t, f, 1)
    BY <2>2 DEF Misaddressed, Kernel
  <2>4. k.table = t /\ k.file = f
    BY <2>3 DEF After
  <2> HIDE DEF k
  <2> QED
    BY <1>1, <1>2, <1>6, <2>1, <2>4
<1>7. CASE pending.nr = "write"
  <2>1. c = pending /\ Misaddressed(c) /\ E.ret
    BY <1>7, ReplicaParts DEF Replacement, E, Misaddressed
  <2> HIDE DEF c
  <2>2. k = Fails(t, f, EFAULT)
    BY <2>1
  <2>3. k.table = t /\ k.file = f
    BY <2>2 DEF Fails, After
  <2> HIDE DEF k
  <2> QED
    BY <1>1, <1>2, <1>7, <2>1, <2>3
<1>8. CASE pending.nr = "read"
  <2>1. c = [pending EXCEPT !.nr = "lseek", !.count = rval,
                            !.whence = "SEEK_CUR"] /\ E.ret
    BY <1>8, ReplicaParts DEF Replacement, E
  <2>2. c.nr = "lseek"
    BY <1>3, <2>1 DEF Request
  <2> HIDE DEF c
  <2>3. k = Kernel(t, f, c)
    BY <2>2 DEF Misaddressed
  <2> HIDE DEF k
  <2> QED
    BY <1>1, <1>8, <2>1, <2>3
<1> QED
  BY <1>1, <1>4, <1>5, <1>6, <1>7, <1>8

-----------------------------------------------------------------------------
(* Types                                                                   *)

TypeInv == TypeOK /\ PendingOK /\ fds["master"] = fds["native"]

\* No call but a new socket, an accepted connection and close changes a table,
\* and what these do to it does not depend on the file.
LEMMA TableApart ==
    ASSUME NEW t \in Table, NEW f, NEW g, NEW c, Makable(c),
           c.nr = "accept4" => t[c.fd] = "socket"
    PROVE  Kernel(t, f, c).table = Kernel(t, g, c).table
<1>1. ASSUME NEW kind
      PROVE  NewSocket(t, f, kind).table = NewSocket(t, g, kind).table
  BY SocketAtLowest DEF Fails, After
<1>2. CASE c.nr = "socket"
  BY <1>1, <1>2 DEF Kernel
<1>3. CASE c.nr \notin {"socket", "accept4"} /\ t[c.fd] = "closed"
  <2>1. Kernel(t, f, c) = Fails(t, f, EBADF) /\ Kernel(t, g, c) = Fails(t, g, EBADF)
    BY <1>3 DEF Kernel, Makable, Makes
  <2> QED
    BY <2>1 DEF Fails, After
<1>4. CASE c.nr = "close" /\ t[c.fd] # "closed"
  BY <1>4 DEF Kernel, After
<1>5. CASE c.nr = "accept4"
  BY <1>1, <1>5 DEF Kernel
<1>6. CASE c.nr \in {"read", "write", "pread64", "lseek"} /\ t[c.fd] # "closed"
  <2>1. OnFile(t, f, c).table = t /\ OnFile(t, g, c).table = t
    <3>1. CASE c.nr = "read"
      BY <3>1 DEF OnFile, After
    <3>2. CASE c.nr = "write"
      BY <3>2 DEF OnFile, After
    <3>3. CASE c.nr = "pread64"
      BY <3>3 DEF OnFile, After
    <3>4. CASE c.nr = "lseek"
      BY <3>4 DEF OnFile, After
    <3> QED
      BY <1>6, <3>1, <3>2, <3>3, <3>4
  <2>2. OnStream(t, f, c).table = t /\ OnStream(t, g, c).table = t
    BY DEF OnStream, After, Fails
  <2> QED
    BY <1>6, <2>1, <2>2 DEF Kernel
<1>7. c.nr \in {"socket", "close", "accept4", "lseek", "read", "write", "pread64"}
  BY DEF Makable, Makes
<1> QED
  BY <1>2, <1>3, <1>4, <1>5, <1>6, <1>7

\* A read of an open descriptor delivers what there is.
LEMMA ReadDelivers ==
    ASSUME NEW t, NEW f \in File, NEW c, c.nr = "read", c.count = 1,
           t[c.fd] # "closed"
    PROVE  Kernel(t, f, c).ret \in {0, 1}
<1>1. Kernel(t, f, c) = OnStream(t, f, c) \/ Kernel(t, f, c) = OnFile(t, f, c)
  BY DEF Kernel
<1>2. OnStream(t, f, c).ret = 1
  BY DEF OnStream, After
<1>3. OnFile(t, f, c).ret = Available(f, f.pos, c.count)
  BY DEF OnFile, After
<1>4. f.pos \in Nat /\ f.len \in Nat
  BY DEF File
<1>5. Available(f, f.pos, 1) \in {0, 1}
  BY <1>4 DEF Available
<1> QED
  BY <1>1, <1>2, <1>3, <1>5

\* The lseek that stands for a read moves by what the read has delivered.
LEMMA SeekFromHere ==
    ASSUME NEW t, NEW f \in File, NEW c, c.nr = "lseek", c.count \in {0, 1},
           c.whence = "SEEK_CUR"
    PROVE  /\ Kernel(t, f, c).table = t
           /\ Kernel(t, f, c).file \in File
           /\ ~(t[c.fd] = "stdin" /\ stdin = "file") =>
                  Kernel(t, f, c).file = f
<1>1. CASE t[c.fd] = "closed"
  <2>1. Kernel(t, f, c) = Fails(t, f, EBADF)
    BY <1>1 DEF Kernel
  <2> QED
    BY <2>1 DEF Fails, After
<1>2. CASE t[c.fd] # "closed" /\ ~(t[c.fd] = "stdin" /\ stdin = "file")
  <2>1. Kernel(t, f, c) = Fails(t, f, ESPIPE)
    BY <1>2 DEF Kernel, OnStream
  <2> QED
    BY <2>1 DEF Fails, After
<1>3. CASE t[c.fd] = "stdin" /\ stdin = "file"
  <2>1. Kernel(t, f, c) = After(t, [f EXCEPT !.pos = f.pos + c.count],
                                f.pos + c.count)
    BY <1>3 DEF Kernel, OnFile
  <2>2. f.pos + c.count \in Nat
    BY DEF File
  <2> QED
    BY <1>3, <2>1, <2>2 DEF After, File
<1> QED
  BY <1>1, <1>2, <1>3

LEMMA TypeStep ==
    ASSUME TypeInv, [Next]_vars
    PROVE  TypeInv'
<1> USE DEF TypeInv
<1>1. /\ fds["master"] \in Table /\ fds["replica"] \in Table
      /\ fds["native"] \in Table
      /\ file["monitored"] \in File /\ file["native"] \in File
      /\ fds["master"] = fds["native"]
  BY DEF TypeOK, Process, World, File
<1>2. ASSUME NEW c \in NextCalls, RunMaster(c) PROVE TypeInv'
  <2> DEFINE k == Kernel(fds["master"], file["monitored"], c)
             n == Kernel(fds["native"], file["native"], c)
  <2>1. /\ Makable(c) /\ c \in Request
        /\ c.nr = "accept4" => fds["master"][c.fd] = "socket"
        /\ c.nr = "read" => fds["master"][c.fd] # "closed" /\ c.count = 1
    BY ProgramCalls DEF Makable, Makes
  <2>2. /\ k.table \in Table /\ k.file \in File /\ k.ret \in Results
        /\ n.table \in Table /\ n.file \in File /\ n.ret \in Results
    BY <1>1, <2>1, KernelOfCall
  <2>3. k.table = n.table
    BY <1>1, <2>1, TableApart
  <2>4. c.nr = "read" => k.ret \in {0, 1}
    BY <1>1, <2>1, ReadDelivers
  <2>5. /\ fds' = [fds EXCEPT !["master"] = k.table, !["native"] = n.table]
        /\ file' = [monitored |-> k.file, native |-> n.file]
        /\ rval' = k.ret
        /\ saw' = [saw EXCEPT !["master"] = k.ret, !["native"] = n.ret]
        /\ status' \in {"running", "killed"}
        /\ pending' = c
        /\ calls < MaxCalls /\ calls' = calls + 1
        /\ stdin' = stdin
    BY <1>2 DEF RunMaster
  <2> HIDE DEF k, n
  <2>6. /\ fds' \in [Process -> Table] /\ fds'["master"] = fds'["native"]
    BY <2>2, <2>3, <2>5 DEF TypeOK, Process
  <2>7. saw' \in [Process -> Results] /\ rval' \in Int
    BY <2>2, <2>5, DescriptorsAssumption
       DEF TypeOK, Process, Results, Fd, EBADF, EMFILE, ESPIPE
  <2>8. file' \in [World -> [pos : Nat, len : Nat]]
    BY <2>2, <2>5 DEF World, File
  <2>9. calls' \in 0 .. MaxCalls
    BY <2>5, DescriptorsAssumption DEF TypeOK
  <2>10. PendingOK'
    BY <2>1, <2>2, <2>4, <2>5 DEF PendingOK, Makable, Makes
  <2> QED
    BY <2>1, <2>5, <2>6, <2>7, <2>8, <2>9, <2>10 DEF TypeOK
<1>3. ASSUME RunReplica PROVE TypeInv'
  <2> DEFINE f == file["monitored"]
             t == fds["replica"]
             k == Kernel(t, f, pending)
             q == [pending EXCEPT !.nr = "lseek", !.count = rval,
                                  !.whence = "SEEK_CUR"]
             s == Kernel(t, f, q)
  <2>1. Makable(pending) /\ pending \in Request /\ rval \in Results
    BY <1>3 DEF RunReplica, PendingOK, TypeOK
  <2>2. pending.nr # "accept4" =>
            k.table \in Table /\ k.file \in File /\ k.ret \in Results
    BY <1>1, <2>1, KernelOfCall
  <2>3. pending.nr = "read" => s.table \in Table /\ s.file \in File
    <3>1. q.nr = "lseek" /\ q.count = rval /\ q.whence = "SEEK_CUR"
      BY <2>1 DEF Request
    <3>2. pending.nr = "read" => q.count \in {0, 1}
      BY <3>1 DEF PendingOK
    <3> HIDE DEF q
    <3>3. ASSUME q.count \in {0, 1} PROVE s.table = t /\ s.file \in File
      <4> HIDE DEF t, f
      <4>1. f \in File
        BY <1>1 DEF f
      <4> QED
        BY <3>1, <3>3, <4>1, SeekFromHere
    <3> HIDE DEF s
    <3> QED
      BY <1>1, <3>2, <3>3
  <2>4. pending' = Idle /\ UNCHANGED <<stdin, rval, status, calls>>
    BY <1>3, ReplicaTurn
  <2>5. pending.nr \in {"socket", "lseek", "close"} =>
            /\ fds' = [fds EXCEPT !["replica"] = k.table]
            /\ file' = [file EXCEPT !["monitored"] = k.file]
            /\ \/ saw' = [saw EXCEPT !["replica"] = k.ret]
               \/ saw' = [saw EXCEPT !["replica"] = rval]
    BY <1>3, ReplicaTurn
  <2>6. pending.nr \in {"accept4", "pread64", "write"} =>
            /\ fds' = fds /\ file' = file
            /\ saw' = [saw EXCEPT !["replica"] = rval]
    BY <1>3, ReplicaTurn
  <2>7. pending.nr = "read" =>
            /\ fds' = [fds EXCEPT !["replica"] = s.table]
            /\ file' = [file EXCEPT !["monitored"] = s.file]
            /\ saw' = [saw EXCEPT !["replica"] = rval]
    BY <1>3, ReplicaTurn
  <2> HIDE DEF k, s
  <2>8. pending.nr \in {"socket", "close", "accept4", "lseek", "read", "write",
                        "pread64"}
    BY <2>1 DEF Makable, Makes
  <2>9. /\ fds' \in [Process -> Table] /\ fds'["master"] = fds'["native"]
        /\ file' \in [World -> [pos : Nat, len : Nat]]
        /\ saw' \in [Process -> Results]
    <3> USE DEF TypeOK, Process, World, File
    <3>1. CASE pending.nr \in {"socket", "lseek", "close"}
      BY <2>1, <2>2, <2>5, <3>1
    <3>2. CASE pending.nr \in {"accept4", "pread64", "write"}
      BY <2>1, <2>6, <3>2
    <3>3. CASE pending.nr = "read"
      BY <2>1, <2>3, <2>7, <3>3
    <3> QED
      BY <2>8, <3>1, <3>2, <3>3
  <2>10. Idle \in Request /\ Idle.nr = "none"
    BY DescriptorsAssumption DEF Idle, Request, Fd
  <2> QED
    BY <2>4, <2>9, <2>10 DEF TypeOK, PendingOK
<1>4. CASE UNCHANGED vars
  BY <1>4 DEF vars, TypeOK, PendingOK, Makable, Makes
<1> QED
  BY <1>2, <1>3, <1>4 DEF Next, Finished

LEMMA TypeInit == Init => TypeInv
<1>1. 0 \in Fd /\ 0 \in Results
  BY DescriptorsAssumption DEF Fd, Results
<1>2. Idle \in Request /\ Idle.nr = "none"
  BY <1>1 DEF Idle, Request
<1> SUFFICES ASSUME Init PROVE TypeInv
  OBVIOUS
<1>3. fds \in [Process -> Table] /\ fds["master"] = fds["native"]
  BY DEF Init, Table, Process
<1>4. file \in [World -> [pos : Nat, len : Nat]]
  BY DescriptorsAssumption DEF Init
<1> QED
  BY <1>1, <1>2, <1>3, <1>4, DescriptorsAssumption
     DEF Init, TypeInv, TypeOK, PendingOK

\* Descriptors, positions and results keep their types, with the program
\* seeking in the inherited file or not.
THEOREM DescriptorsTypeCorrect == Spec => []TypeOK
<1> QED
  BY TypeInit, TypeStep, PTL DEF Spec, TypeInv

-----------------------------------------------------------------------------
(* The invariant                                                           *)

\* close leaves the descriptor closed, whether it was open or not.
LEMMA KernelClose ==
    ASSUME NEW t \in Table, NEW f, NEW c, c.nr = "close", c.fd \in Fd
    PROVE  /\ Kernel(t, f, c).table = [t EXCEPT ![c.fd] = "closed"]
           /\ Kernel(t, f, c).file = f
<1>1. CASE t[c.fd] = "closed"
  <2>1. Kernel(t, f, c) = Fails(t, f, EBADF)
    BY <1>1 DEF Kernel
  <2>2. [t EXCEPT ![c.fd] = "closed"] = t
    BY <1>1 DEF Table
  <2> QED
    BY <2>1, <2>2 DEF Fails, After
<1>2. CASE t[c.fd] # "closed"
  BY <1>2 DEF Kernel, After
<1> QED
  BY <1>1, <1>2

\* What has no position cannot seek.
LEMMA KernelSeek ==
    ASSUME NEW t, NEW f, NEW c, c.nr = "lseek",
           ~(t[c.fd] = "stdin" /\ stdin = "file")
    PROVE  /\ Kernel(t, f, c).table = t
           /\ Kernel(t, f, c).file = f
           /\ Kernel(t, f, c).ret = IF t[c.fd] = "closed" THEN -EBADF ELSE -ESPIPE
<1>1. Kernel(t, f, c) = IF t[c.fd] = "closed" THEN Fails(t, f, EBADF)
                                              ELSE Fails(t, f, ESPIPE)
  BY DEF Kernel, OnStream
<1> QED
  BY <1>1 DEF Fails, After

\* Reading, writing and seeking open and close nothing.
LEMMA KernelTransfer ==
    ASSUME NEW t, NEW f, NEW c,
           c.nr \in {"read", "write", "pread64", "lseek"}
    PROVE  Kernel(t, f, c).table = t
<1>1. CASE t[c.fd] = "closed"
  <2>1. Kernel(t, f, c) = Fails(t, f, EBADF)
    BY <1>1 DEF Kernel
  <2> QED
    BY <2>1 DEF Fails, After
<1>2. CASE t[c.fd] # "closed"
  <2>1. OnFile(t, f, c).table = t
    <3>1. CASE c.nr = "read"
      BY <3>1 DEF OnFile, After
    <3>2. CASE c.nr = "write"
      BY <3>2 DEF OnFile, After
    <3>3. CASE c.nr = "pread64"
      BY <3>3 DEF OnFile, After
    <3>4. CASE c.nr = "lseek"
      BY <3>4 DEF OnFile, After
    <3> QED
      BY <3>1, <3>2, <3>3, <3>4
  <2>2. OnStream(t, f, c).table = t
    BY DEF OnStream, After, Fails
  <2> QED
    BY <1>2, <2>1, <2>2 DEF Kernel
<1> QED
  BY <1>1, <1>2

LEMMA Errnos == \A d \in Fd : d # -EMFILE
BY DescriptorsAssumption DEF Fd, EMFILE

\* The master's part of a call, and the same call of the program alone.
LEMMA MasterStep ==
    ASSUME TypeInv, TypeInv', DescriptorsInv,
           NEW c \in NextCalls, RunMaster(c)
    PROVE  DescriptorsInv'
<1> DEFINE t == fds["master"]
           r == fds["replica"]
           f == file["monitored"]
           k == Kernel(t, f, c)
<1> DEFINE n == Kernel(t, file["native"], c)
<1>1. /\ t \in Table /\ r \in Table
      /\ fds["native"] = t /\ Alike
      /\ NoSeeking => file["native"] = f
      /\ fds \in [Process -> Table] /\ saw \in [Process -> Results]
  BY DEF RunMaster, DescriptorsInv, MasterAsNative, TypeInv, TypeOK, Process
<1>2. /\ Makable(c) /\ c.fd \in Fd /\ c.nr # "none"
      /\ c.nr = "accept4" => t[c.fd] = "socket"
      /\ NoSeeking /\ c.nr \in {"read", "lseek"} => c.fd \notin OldFile
  BY ProgramCalls DEF TypeInv, Makable, Makes, NoSeeking
<1>3. /\ fds' = [fds EXCEPT !["master"] = k.table, !["native"] = n.table]
      /\ file' = [monitored |-> k.file, native |-> n.file]
      /\ rval' = k.ret
      /\ saw' = [saw EXCEPT !["master"] = k.ret, !["native"] = n.ret]
      /\ pending' = c /\ stdin' = stdin
  BY <1>1 DEF RunMaster
<1>9. n.table = k.table /\ (NoSeeking => n = k)
  BY <1>1, <1>2, TableApart
<1> HIDE DEF k, n
<1>4. /\ fds'["master"] = k.table /\ fds'["native"] = k.table
      /\ fds'["replica"] = r
      /\ saw'["master"] = k.ret
      /\ NoSeeking => /\ saw'["native"] = k.ret
                      /\ file'["monitored"] = file'["native"]
  BY <1>1, <1>3, <1>9 DEF Process
<1>5. pending' # Idle
  BY <1>3, <1>2 DEF Idle
<1>6. MasterAsNative'
  BY <1>3, <1>4 DEF MasterAsNative
<1>7. \A d \in Fd : r[d] = IF t[d] = "connection" THEN "closed" ELSE t[d]
  BY <1>1 DEF Alike, AlikeAt
<1>8. Underway'
  <2>1. CASE c.nr = "socket"
    <3>1. k = NewSocket(t, f, "socket")
      BY <2>1 DEF k, Kernel
    <3>2. SocketMade'
      <4>1. CASE Free(t) = {}
        <5>1. k.table = t /\ k.ret = -EMFILE
          BY <3>1, <4>1, SocketAtLowest DEF Fails, After
        <5>2. \A d \in Fd : t[d] # "closed"
          BY <4>1 DEF Free
        <5>3. Alike'
          BY <1>4, <1>7, <5>1 DEF Alike, AlikeAt
        <5>4. \A d \in Fd : fds'["master"][d] # "closed"
          BY <1>4, <5>1, <5>2
        <5> QED
          BY <1>3, <5>1, <5>3, <5>4 DEF SocketMade
      <4>2. CASE Free(t) # {}
        <5>1. k.table = [t EXCEPT ![Lowest(t)] = "socket"] /\ k.ret = Lowest(t)
          BY <3>1, <4>2, SocketAtLowest DEF After
        <5>2. /\ Lowest(t) \in Fd /\ t[Lowest(t)] = "closed"
              /\ \A x \in Fd : x < Lowest(t) => t[x] # "closed"
          BY <4>2, LowestType, DescriptorsAssumption DEF Fd
        <5> DEFINE low == Lowest(t)
        <5> HIDE DEF low
        <5>3. /\ k.table[low] = "socket" /\ r[low] = "closed"
              /\ \A d \in Fd \ {low} : k.table[d] = t[d]
          BY <1>1, <1>7, <5>1, <5>2 DEF Table, low
        <5>4. \A x \in Fd : x < low => x # low
          BY DescriptorsAssumption, <5>2 DEF Fd, low
        <5>5. rval' = low /\ low \in Fd
          BY <1>3, <5>1, <5>2 DEF low
        <5>6. \A x \in Fd : x < low => k.table[x] # "closed"
          BY <5>2, <5>3, <5>4 DEF low
        <5> QED
          BY <1>4, <1>7, <5>3, <5>5, <5>6 DEF SocketMade, AlikeAt
      <4> QED
        BY <4>1, <4>2
    <3> QED
      BY <1>3, <2>1, <3>2 DEF Underway
  <2>2. CASE c.nr = "close"
    <3>1. k.table = [t EXCEPT ![c.fd] = "closed"]
      BY <1>1, <1>2, <2>2, KernelClose DEF k
    <3>2. k.table[c.fd] = "closed" /\ \A d \in Fd \ {c.fd} : k.table[d] = t[d]
      BY <1>1, <1>2, <3>1 DEF Table
    <3>3. \A d \in Fd \ {c.fd} : AlikeAt(d)'
      BY <1>4, <1>7, <3>2 DEF AlikeAt
    <3>4. fds'["master"][c.fd] = "closed"
      BY <1>4, <3>2
    <3> QED
      BY <1>3, <2>2, <3>3, <3>4 DEF Underway
  <2>3. CASE c.nr = "accept4"
    <3>1. k = NewSocket(t, f, "connection")
      BY <1>2, <2>3 DEF k, Kernel
    <3>2. \A d \in Fd : r[d] = IF k.table[d] = "connection" THEN "closed"
                                                            ELSE k.table[d]
      <4>1. CASE Free(t) = {}
        <5>1. k.table = t
          BY <3>1, <4>1, SocketAtLowest DEF Fails, After
        <5> QED
          BY <1>7, <5>1
      <4>2. CASE Free(t) # {}
        <5>1. k.table = [t EXCEPT ![Lowest(t)] = "connection"]
          BY <3>1, <4>2, SocketAtLowest DEF After
        <5>2. Lowest(t) \in Fd /\ t[Lowest(t)] = "closed"
          BY <4>2, LowestType
        <5> QED
          BY <1>1, <1>7, <5>1, <5>2 DEF Table
      <4> QED
        BY <4>1, <4>2
    <3>3. Alike'
      BY <1>4, <3>2 DEF Alike, AlikeAt
    <3> QED
      BY <1>3, <2>3, <3>3 DEF Underway
  <2>4. CASE c.nr \in {"read", "write", "pread64", "lseek"}
    <3>1. k.table = t
      BY <2>4, KernelTransfer DEF k
    <3>2. OldFile' = OldFile
      BY <1>3, <1>4, <3>1 DEF OldFile, Holds
    <3>3. Alike'
      BY <1>4, <1>7, <3>1 DEF Alike, AlikeAt
    <3>4. NoSeeking /\ c.nr = "lseek" =>
              k.ret = IF t[c.fd] = "closed" THEN -EBADF ELSE -ESPIPE
      <4>1. NoSeeking /\ c.nr = "lseek" => ~(t[c.fd] = "stdin" /\ stdin = "file")
        BY <1>2 DEF OldFile, Holds
      <4> QED
        BY <4>1, KernelSeek DEF k
    <3> QED
      BY <1>2, <1>3, <1>4, <2>4, <3>1, <3>2, <3>3, <3>4 DEF Underway
  <2> QED
    BY <1>2, <2>1, <2>2, <2>3, <2>4 DEF Makable, Makes
<1> QED
  BY <1>5, <1>6, <1>8 DEF DescriptorsInv

\* The replica's part of a call.
LEMMA ReplicaStep ==
    ASSUME TypeInv, TypeInv', DescriptorsInv, RunReplica
    PROVE  DescriptorsInv'
<1> DEFINE t == fds["master"]
           r == fds["replica"]
           f == file["monitored"]
           k == Kernel(r, f, pending)
           q == [pending EXCEPT !.nr = "lseek", !.count = rval,
                                !.whence = "SEEK_CUR"]
           s == Kernel(r, f, q)
<1>1. /\ t \in Table /\ r \in Table /\ fds["native"] = t
      /\ f \in File /\ saw["master"] = rval
      /\ NoSeeking => file["native"] = f /\ saw["native"] = rval
      /\ fds \in [Process -> Table] /\ saw \in [Process -> Results]
      /\ file \in [World -> File]
      /\ pending # Idle /\ Underway
  BY DEF RunReplica, DescriptorsInv, MasterAsNative, TypeInv, TypeOK, Process,
         World, File
<1>2. Makable(pending) /\ pending.fd \in Fd /\ pending \in Request
  BY <1>1 DEF TypeInv, PendingOK, Makable, Makes, Request
<1>3. pending' = Idle /\ stdin' = stdin /\ rval' = rval
  BY ReplicaTurn DEF TypeInv
<1>4. pending.nr \in {"socket", "lseek"} =>
          /\ fds' = [fds EXCEPT !["replica"] = k.table]
          /\ file' = [file EXCEPT !["monitored"] = k.file]
          /\ saw' = [saw EXCEPT !["replica"] = k.ret]
  BY ReplicaTurn DEF TypeInv
<1>5. pending.nr = "close" =>
          /\ fds' = [fds EXCEPT !["replica"] = k.table]
          /\ file' = [file EXCEPT !["monitored"] = k.file]
          /\ saw' = [saw EXCEPT !["replica"] = rval]
  BY ReplicaTurn DEF TypeInv
<1>6. pending.nr \in {"accept4", "pread64", "write"} =>
          /\ fds' = fds /\ file' = file
          /\ saw' = [saw EXCEPT !["replica"] = rval]
  BY ReplicaTurn DEF TypeInv
<1>7. pending.nr = "read" =>
          /\ fds' = [fds EXCEPT !["replica"] = s.table]
          /\ file' = [file EXCEPT !["monitored"] = s.file]
          /\ saw' = [saw EXCEPT !["replica"] = rval]
  BY ReplicaTurn DEF TypeInv
<1> HIDE DEF k, s
\* It is enough that the file stays and that the result tells the tables apart.
<1>8. ASSUME NEW table, NEW ret,
             fds' = [fds EXCEPT !["replica"] = table],
             NoSeeking => file' = file,
             saw' = [saw EXCEPT !["replica"] = ret],
             ret = rval => \A d \in Fd : table[d] =
                               IF t[d] = "connection" THEN "closed" ELSE t[d],
             NoSeeking /\ ret # rval => \E d \in Fd : t[d] = "connection"
      PROVE  DescriptorsInv'
  <2>1. /\ fds'["master"] = t /\ fds'["native"] = t /\ fds'["replica"] = table
        /\ saw'["master"] = rval /\ saw'["replica"] = ret
        /\ NoSeeking => /\ saw'["native"] = rval
                        /\ file'["monitored"] = file'["native"]
    BY <1>1, <1>8 DEF Process
  <2>2. MasterAsNative'
    BY <1>3, <2>1 DEF MasterAsNative
  <2>3. SameView' => Alike'
    <3>1. SameView' => ret = rval
      BY <2>1 DEF SameView
    <3> QED
      BY <1>8, <2>1, <3>1 DEF Alike, AlikeAt
  <2>4. ASSUME NoSeeking PROVE Transparent'
    <3>1. CASE ret = rval
      BY <2>1, <2>4, <3>1 DEF Transparent, Process
    <3>2. CASE ret # rval
      BY <1>8, <2>1, <2>4, <3>2 DEF Transparent, Holds
    <3> QED
      BY <3>1, <3>2
  <2> QED
    BY <1>3, <2>2, <2>3, <2>4 DEF DescriptorsInv
<1>9. pending.nr \notin {"socket", "close"} =>
          \A d \in Fd : r[d] = IF t[d] = "connection" THEN "closed" ELSE t[d]
  BY <1>1 DEF Underway, Alike, AlikeAt
<1>10. NoSeeking /\ pending.nr \in {"read", "lseek"} =>
           ~(r[pending.fd] = "stdin" /\ stdin = "file")
  <2>1. ASSUME NoSeeking, pending.nr \in {"read", "lseek"}, r[pending.fd] = "stdin",
               stdin = "file"
        PROVE  FALSE
    <3>1. t[pending.fd] = "stdin"
      BY <1>2, <1>9, <2>1
    <3> QED
      BY <1>1, <1>2, <2>1, <3>1 DEF Underway, OldFile, Holds
  <2> QED
    BY <2>1
<1>11. [file EXCEPT !["monitored"] = f] = file /\ [fds EXCEPT !["replica"] = r] = fds
  BY <1>1
<1>12. CASE pending.nr = "socket"
  <2>1. k = NewSocket(r, f, "socket")
    BY <1>12 DEF k, Kernel
  <2>2. SocketMade
    BY <1>1, <1>12 DEF Underway
  <2>3. CASE Free(r) = {}
    <3>1. k.table = r /\ k.file = f /\ k.ret = -EMFILE
      BY <2>1, <2>3, SocketAtLowest DEF Fails, After
    <3>2. rval = -EMFILE /\ Alike
      BY <2>2, <2>3 DEF SocketMade, Free
    <3> QED
      BY <1>4, <1>8, <1>11, <1>12, <3>1, <3>2 DEF Alike, AlikeAt
  <2>4. CASE Free(r) # {}
    <3> DEFINE low == Lowest(r)
    <3>1. /\ k.table = [r EXCEPT ![low] = "socket"] /\ k.file = f
          /\ k.ret = low
      BY <2>1, <2>4, SocketAtLowest DEF After
    <3>2. /\ low \in Fd /\ r[low] = "closed"
          /\ \A x \in Fd : r[x] = "closed" => low <= x
      BY <2>4, LowestType
    <3> HIDE DEF low
    <3>3. CASE rval = -EMFILE
      <4>1. t[low] = "connection"
        BY <2>2, <3>2, <3>3, Errnos DEF SocketMade, Alike, AlikeAt
      <4>2. low # rval
        BY <3>2, <3>3, Errnos
      <4> QED
        BY <1>4, <1>8, <1>11, <1>12, <3>1, <3>2, <4>1, <4>2
    <3>4. CASE rval # -EMFILE
      <4>1. /\ rval \in Fd /\ t[rval] = "socket" /\ r[rval] = "closed"
            /\ \A d \in Fd : d < rval => t[d] # "closed"
            /\ \A d \in Fd \ {rval} : AlikeAt(d)
        BY <2>2, <3>4 DEF SocketMade
      <4>2. low <= rval
        BY <3>2, <4>1
      <4>3. low # rval => t[low] = "connection"
        <5>1. low # rval => low < rval
          BY <3>2, <4>1, <4>2, DescriptorsAssumption DEF Fd
        <5> QED
          BY <3>2, <4>1, <5>1 DEF AlikeAt
      <4>4. low = rval => \A d \in Fd : k.table[d] =
                              IF t[d] = "connection" THEN "closed" ELSE t[d]
        BY <1>1, <3>1, <4>1 DEF AlikeAt, Table
      <4> DEFINE table == k.table
      <4>5. /\ fds' = [fds EXCEPT !["replica"] = table]
            /\ file' = file
            /\ saw' = [saw EXCEPT !["replica"] = low]
        BY <1>4, <1>11, <1>12, <3>1
      <4> HIDE DEF table
      <4>6. low # rval => \E d \in Fd : t[d] = "connection"
        BY <3>2, <4>3
      <4>7. low = rval => \A d \in Fd : table[d] =
                              IF t[d] = "connection" THEN "closed" ELSE t[d]
        BY <4>4 DEF table
      <4> QED
        BY <1>8, <4>5, <4>6, <4>7
    <3> QED
      BY <3>3, <3>4
  <2> QED
    BY <2>3, <2>4
<1>13. CASE pending.nr = "close"
  <2>1. k.table = [r EXCEPT ![pending.fd] = "closed"] /\ k.file = f
    <3>1. r \in Table /\ pending.fd \in Fd
      BY <1>1, <1>2
    <3> HIDE DEF r, f
    <3> QED
      BY <1>13, <3>1, KernelClose DEF k
  <2>2. /\ t[pending.fd] = "closed"
        /\ \A d \in Fd \ {pending.fd} : AlikeAt(d)
    BY <1>1, <1>13 DEF Underway
  <2>3. \A d \in Fd : k.table[d] =
            IF t[d] = "connection" THEN "closed" ELSE t[d]
    BY <1>1, <1>2, <2>1, <2>2 DEF AlikeAt, Table
  <2> DEFINE table == k.table
  <2>4. /\ fds' = [fds EXCEPT !["replica"] = table]
        /\ file' = file
        /\ saw' = [saw EXCEPT !["replica"] = rval]
    BY <1>5, <1>11, <1>13, <2>1
  <2>5. \A d \in Fd : table[d] = IF t[d] = "connection" THEN "closed" ELSE t[d]
    BY <2>3
  <2> HIDE DEF table
  <2> QED
    BY <1>8, <2>4, <2>5
<1>14. CASE pending.nr \in {"accept4", "pread64", "write"}
  BY <1>6, <1>8, <1>9, <1>11, <1>14
<1>15. CASE pending.nr = "read"
  <2>1. q.nr = "lseek" /\ q.count = rval /\ q.whence = "SEEK_CUR"
        /\ q.fd = pending.fd /\ q.count \in {0, 1}
    BY <1>2, <1>15 DEF Request, TypeInv, PendingOK
  <2> HIDE DEF q
  <2>2. s.table = r
    BY <2>1, KernelTransfer DEF s
  <2>3. NoSeeking => s.file = f
    BY <1>10, <1>15, <2>1, KernelSeek DEF s
  <2>4. /\ fds' = [fds EXCEPT !["replica"] = r]
        /\ NoSeeking => file' = file
        /\ saw' = [saw EXCEPT !["replica"] = rval]
    BY <1>7, <1>11, <1>15, <2>2, <2>3
  <2> QED
    BY <1>8, <1>9, <1>15, <2>4
<1>16. CASE pending.nr = "lseek"
  <2>1. k.table = r
    BY <1>16, KernelTransfer DEF k
  <2>2. NoSeeking => /\ k.file = f
                     /\ k.ret = IF r[pending.fd] = "closed" THEN -EBADF
                                                            ELSE -ESPIPE
    BY <1>10, <1>16, KernelSeek DEF k
  <2>3. NoSeeking =>
            rval = IF t[pending.fd] = "closed" THEN -EBADF ELSE -ESPIPE
    BY <1>1, <1>16 DEF Underway
  <2>4. NoSeeking /\ k.ret # rval => t[pending.fd] = "connection"
    BY <1>2, <1>9, <1>16, <2>2, <2>3
  <2> DEFINE ret == k.ret
  <2>5. /\ fds' = [fds EXCEPT !["replica"] = r]
        /\ NoSeeking => file' = file
        /\ saw' = [saw EXCEPT !["replica"] = ret]
    BY <1>4, <1>11, <1>16, <2>1, <2>2
  <2>6. NoSeeking /\ ret # rval => \E d \in Fd : t[d] = "connection"
    BY <1>2, <2>4
  <2> HIDE DEF ret
  <2> QED
    BY <1>8, <1>9, <1>16, <2>5, <2>6
<1> QED
  BY <1>2, <1>12, <1>13, <1>14, <1>15, <1>16 DEF Makable, Makes

LEMMA DescriptorsStep ==
    ASSUME TypeInv, DescriptorsInv, [Next]_vars
    PROVE  DescriptorsInv'
<1>1. TypeInv'
  BY TypeStep
<1>2. ASSUME NEW c \in NextCalls, RunMaster(c) PROVE DescriptorsInv'
  BY <1>1, <1>2, MasterStep
<1>3. ASSUME RunReplica PROVE DescriptorsInv'
  BY <1>1, <1>3, ReplicaStep
<1>4. CASE UNCHANGED vars
  BY <1>4 DEF vars, DescriptorsInv, MasterAsNative, SameView, Alike, AlikeAt,
     Transparent, BetweenCalls, Holds, Underway, SocketMade, OldFile
<1> QED
  BY <1>2, <1>3, <1>4 DEF Next, Finished

LEMMA DescriptorsInit == Init => DescriptorsInv
<1> SUFFICES ASSUME Init PROVE DescriptorsInv
  OBVIOUS
<1>1. MasterAsNative /\ pending = Idle
  BY DEF Init, MasterAsNative, Process, World
<1>2. Alike
  BY DEF Init, Alike, AlikeAt, Process
<1>3. Transparent
  BY DEF Init, Transparent, Process
<1> QED
  BY <1>1, <1>2, <1>3 DEF DescriptorsInv

LEMMA DescriptorsInvCorrect == Spec => [](TypeInv /\ DescriptorsInv)
<1>1. Init => TypeInv /\ DescriptorsInv
  BY TypeInit, DescriptorsInit
<1>2. TypeInv /\ DescriptorsInv /\ [Next]_vars =>
          TypeInv' /\ DescriptorsInv'
  BY TypeStep, DescriptorsStep
<1> QED
  BY <1>1, <1>2, PTL DEF Spec

\* Both variants see the results that the program alone would see, while no
\* connection is open.
THEOREM TransparentCorrect ==
    ASSUME Habits = {}
    PROVE  Spec => []Transparent
<1>1. DescriptorsInv => Transparent
  BY DEF DescriptorsInv, Transparent, BetweenCalls, NoSeeking
<1> QED
  BY <1>1, DescriptorsInvCorrect, PTL

\* The tables of the variants are those of the program alone, but for the
\* connections that the replica does not have, seeking or not.
THEOREM FdsAlikeCorrect == Spec => []FdsAlike
<1>1. DescriptorsInv => FdsAlike
  BY DEF DescriptorsInv, FdsAlike, BetweenCalls, Alike, AlikeAt, MasterAsNative
<1> QED
  BY <1>1, DescriptorsInvCorrect, PTL

\* The file that both variants share is moved in once for each call.
THEOREM FileOnceCorrect ==
    ASSUME Habits = {}
    PROVE  Spec => []FileOnce
<1>1. DescriptorsInv => FileOnce
  BY DEF DescriptorsInv, FileOnce, MasterAsNative, NoSeeking
<1> QED
  BY <1>1, DescriptorsInvCorrect, PTL
=============================================================================
